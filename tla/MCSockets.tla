----------------------------- MODULE MCSockets -----------------------------
(***************************************************************************)
(* readLine(), the stream transfer, the datagram services and the address  *)
(* loops of sockets/, for TLC.  They share no state: a behaviour is one of *)
(* the system that `system' names.  readLine() has the variables of        *)
(* ReadLine, which keep their initial values (of an empty stream) in the   *)
(* other behaviours; the others use x1, x2, ... as their variables, in the *)
(* order in which their modules declare them.                              *)
(***************************************************************************)
EXTENDS ReadLine

CONSTANTS Clients, BufSize, Mortal, None,
          XfrClients, Input, Backlog, ServerMayFail,
          Kinds, Sizes, NumMsgs, MaxLost, MaxDups, MaxErrors,
          MaxAddrs, MaxCalls

ASSUME FamilyAssumption ==
    /\ BufSize \in Nat /\ Input \in Nat /\ Backlog \in Nat
    /\ Sizes \subseteq Nat /\ NumMsgs \in Nat
    /\ MaxAddrs \in Nat /\ MaxCalls \in Nat

VARIABLES system, x1, x2, x3, x4, x5, x6, x7, x8, x9

Xfr == INSTANCE StreamXfr WITH Clients <- XfrClients, Faulty <- Mortal,
          srvPc <- x1, cur <- x2, buf <- x3, backlog <- x4, out <- x5, pc <- x6,
          taken <- x7, sent <- x8, rcvd <- x9
Dgram == INSTANCE DatagramService WITH kind <- x1, srv <- x2, cur <- x3, reqs <- x4,
          resps <- x5, pc <- x6, asked <- x7, got <- x8, net <- x9
Inet == INSTANCE InetSockets WITH fn <- x1, pc <- x2, left <- x3, sfd <- x4,
          open <- x5, list <- x6, calls <- x7, held <- x8, leaked <- x9

xs == <<x1, x2, x3, x4, x5, x6, x7, x8, x9>>
all == <<system, vars, x1, x2, x3, x4, x5, x6, x7, x8, x9>>

FamilyInit ==
    /\ Init
    /\ \/ /\ system = "read_line"
          /\ x1 = 0 /\ x2 = 0 /\ x3 = 0 /\ x4 = 0 /\ x5 = 0 /\ x6 = 0 /\ x7 = 0
          /\ x8 = 0 /\ x9 = 0
       \/ /\ input = <<>>
          /\ \/ system = "xfr" /\ Xfr!Init
             \/ system = "dgram" /\ Dgram!Init
             \/ system = "inet" /\ Inet!Init

InLine(A) == system = "read_line" /\ A /\ UNCHANGED <<system, xs>>
InXfr(A) == system = "xfr" /\ A /\ UNCHANGED <<system, vars>>
InDgram(A) == system = "dgram" /\ A /\ UNCHANGED <<system, vars>>
InInet(A) == system = "inet" /\ A /\ UNCHANGED <<system, vars>>

FamilyNext == InLine(Next) \/ InXfr(Xfr!Next) \/ InDgram(Dgram!Next) \/ InInet(Inet!Next)

\* The fairness of the systems, in their own behaviours.
Fairness == /\ WF_all(InXfr(Xfr!Server)) /\ WF_all(InDgram(Dgram!Server))
            /\ \A c \in XfrClients : WF_all(InXfr(Xfr!Client(c)))
            /\ \A c \in Clients : WF_all(InDgram(Dgram!Client(c)))

FamilySpec == FamilyInit /\ [][FamilyNext]_all /\ Fairness

-----------------------------------------------------------------------------
\* A connection the stream server has finished with was copied whole, and as
\* one piece of the output (stream_sock_xfr_server.c lines 52-75), whoever
\* fails; and a client that exits with status 0 has written all it read, which
\* is all of its input unless a read() of it failed (stream_sock_xfr_client.c
\* lines 34-46).
CopiedWhole == system = "xfr" =>
    Xfr!IndInv /\ Xfr!NotMixed /\ Xfr!CopiedWhole /\ Xfr!StatusInv

\* Line i a datagram client prints is the answer to its argument i, unless
\* the network duplicated a datagram (i6d_ucase_client.c lines 33-44); a
\* server exits only when a call of its own failed for a local reason or a
\* UNIX-domain client ended while it waited (datagram_unix_sock_ucase_server.c
\* lines 47-50 and 57-60).
ResponseMatches ==
    system = "dgram" => Dgram!IndInv /\ Dgram!ResponseMatches /\ Dgram!ServerSurvives

\* Nobody is left waiting: unless the stream server exits, what a client wrote
\* is printed in the end, whatever waits in the backlog before it (stream_
\* sock_xfr_server.c lines 52-75), and every argument of a datagram client is
\* answered unless a datagram is lost, a call fails or somebody is killed (the
\* loops of the datagram clients and servers).
EveryoneServed ==
    /\ \A c \in XfrClients :
         (system = "xfr" /\ Xfr!Writing(c)) ~> (system = "xfr" /\ Xfr!PrintedAllOf(c))
    /\ \A c \in Clients :
         (system = "dgram" /\ Dgram!Asking(c)) ~> (system = "dgram" /\ Dgram!AnsweredOrExcused(c))

\* The address loops leak a descriptor only when listen() fails, and never
\* close, use or return the descriptor of somebody else (inet_sockets.c lines
\* 47-57 and 77-112).
OnlyListenLeaks ==
    system = "inet" => Inet!IndInv /\ Inet!OnlyListenLeaks /\ Inet!FreshSocket
=============================================================================
