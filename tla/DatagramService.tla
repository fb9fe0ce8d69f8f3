-------------------------- MODULE DatagramService --------------------------
(***************************************************************************)
(* The three request/response services over datagrams, which share their   *)
(* loops and differ in their transport and in what a failed send does:     *)
(*   "unix"  sockets/datagram_unix_sock_ucase_{server,client}.c            *)
(*   "inet6" sockets/i6d_ucase_{server,client}.c                           *)
(*   "echo"  sockets/iterative_udp_echo_{server,client}.c                  *)
(* A client sends its arguments one by one and waits for a response to     *)
(* each; no program numbers, repeats or times out a datagram.  UDP may     *)
(* lose, duplicate and reorder.  A datagram is its number and its size.    *)
(***************************************************************************)
EXTENDS Integers, Sequences

CONSTANTS Clients,
          Kinds,        \* which of the services
          Sizes,        \* the sizes of the arguments
          BufSize,      \* BUF_SIZE
          NumMsgs,      \* arguments per client
          Mortal,       \* the clients that may be killed
          MaxLost,      \* bound: datagrams lost
          MaxDups,      \* bound: datagrams duplicated
          MaxErrors,    \* bound: calls of the server that fail for a local reason
          None

VARIABLES kind,
          srv,          \* "down", "recv", "send" or "exited"
          cur,          \* the datagram the server works on
          reqs, resps,  \* datagrams on their way to the server, to clients
          pc,           \* pc[c]: the call of client c, or how it ended
          asked,        \* asked[c]: the sizes of the arguments sent
          got,          \* got[c]: the responses printed
          net           \* how many datagrams were lost, duplicated, and how many
                        \* calls of the server failed

vars == <<kind, srv, cur, reqs, resps, pc, asked, got, net>>

Msg == [client : Clients, num : 1..NumMsgs, size : Nat]

Init == /\ kind \in Kinds
        /\ srv = "down" /\ cur = None
        /\ reqs = {} /\ resps = {}
        /\ pc = [c \in Clients |-> "send"]
        /\ asked = [c \in Clients |-> <<>>]
        /\ got = [c \in Clients |-> <<>>]
        /\ net = [lost |-> 0, dups |-> 0, errors |-> 0]

Up == srv \in {"recv", "send"}

\* A client that ended while it waited for its response, and all that ended.
Vanished == {"killed", "gaveUp"}
Ended(c) == pc[c] \in {"done", "failed"} \cup Vanished

\* recvfrom() into BUF_SIZE bytes drops the rest of the datagram.
Cut(k) == IF k > BufSize THEN BufSize ELSE k
Truncated(m) == [m EXCEPT !.size = Cut(@)]

-----------------------------------------------------------------------------
(* The server.                                                             *)

Start == /\ srv = "down"
         /\ srv' = "recv"
         /\ UNCHANGED <<kind, cur, reqs, resps, pc, asked, got, net>>

RecvDropsLong ==
        /\ srv = "recv"
        /\ \E m \in reqs :
             /\ reqs' = reqs \ {m}
             /\ IF m.size > BufSize THEN UNCHANGED <<cur, srv>>
                ELSE cur' = m /\ srv' = "send"
        /\ UNCHANGED <<kind, resps, pc, asked, got, net>>

Recv == /\ srv = "recv"
        /\ \E m \in reqs : cur' = Truncated(m) /\ reqs' = reqs \ {m}
        /\ srv' = "send"
        /\ UNCHANGED <<kind, resps, pc, asked, got, net>>

SendLateAddress ==
        /\ srv = "send"
        /\ \E c \in Clients : pc[c] = "recv" /\ resps' = resps \cup {[cur EXCEPT !.client = c]}
        /\ srv' = "recv"
        /\ UNCHANGED <<kind, cur, reqs, pc, asked, got, net>>

\* sendto() the client.  A UNIX-domain client that is gone makes it fail.
Send == /\ srv = "send"
        /\ IF kind = "unix" /\ Ended(cur.client)
             THEN srv' = "exited" /\ UNCHANGED resps
             ELSE srv' = "recv" /\ resps' = resps \cup {cur}
        /\ UNCHANGED <<kind, cur, reqs, pc, asked, got, net>>

\* sendto() fails for lack of resources: the upper-case servers exit, the
\* echo server logs it and goes on.
SendError == /\ srv = "send" /\ net.errors < MaxErrors
             /\ net' = [net EXCEPT !.errors = @ + 1]
             /\ srv' = IF kind = "echo" THEN "recv" ELSE "exited"
             /\ UNCHANGED <<kind, cur, reqs, resps, pc, asked, got>>

\* recvfrom() fails: all three servers exit.
RecvError == /\ srv = "recv" /\ net.errors < MaxErrors
             /\ net' = [net EXCEPT !.errors = @ + 1]
             /\ srv' = "exited"
             /\ UNCHANGED <<kind, cur, reqs, resps, pc, asked, got>>

-----------------------------------------------------------------------------
(* The clients.                                                            *)

\* Without a server a UNIX-domain send fails; over UDP it succeeds and the
\* datagram is gone, of which only the connected echo client is told.
ClientSend(c) ==
    /\ pc[c] = "send" /\ Len(asked[c]) < NumMsgs
    /\ \E n \in Sizes :
         /\ asked' = [asked EXCEPT ![c] = Append(@, n)]
         /\ IF Up \/ kind # "unix"
              THEN pc' = [pc EXCEPT ![c] = "recv"]
              ELSE pc' = [pc EXCEPT ![c] = "failed"]
         /\ IF Up THEN reqs' = reqs \cup {[client |-> c, num |-> Len(asked'[c]), size |-> n]}
                  ELSE UNCHANGED reqs
    /\ UNCHANGED <<kind, srv, cur, resps, got, net>>

\* A send of c fails for a local reason: c exits, except that the echo client
\* only reports it and waits for a response all the same.
ClientSendError(c) ==
    /\ c \in Mortal /\ pc[c] = "send" /\ Len(asked[c]) < NumMsgs
    /\ \E n \in Sizes : asked' = [asked EXCEPT ![c] = Append(@, n)]
    /\ pc' = [pc EXCEPT ![c] = IF kind = "echo" THEN "recv" ELSE "failed"]
    /\ UNCHANGED <<kind, srv, cur, reqs, resps, got, net>>

ClientRefused(c) == /\ pc[c] = "recv" /\ kind = "echo" /\ ~Up
                    /\ pc' = [pc EXCEPT ![c] = "failed"]
                    /\ UNCHANGED <<kind, srv, cur, reqs, resps, asked, got, net>>

\* The first datagram that comes is taken for the response.
ClientRecv(c) == /\ pc[c] = "recv"
                 /\ \E m \in resps :
                      /\ m.client = c
                      /\ got' = [got EXCEPT ![c] = Append(@, Truncated(m))]
                      /\ resps' = resps \ {m}
                 /\ pc' = [pc EXCEPT ![c] = "send"]
                 /\ UNCHANGED <<kind, srv, cur, reqs, asked, net>>

\* recvfrom() or read() of c fails and c exits; in the UNIX domain its address
\* stays behind.
ClientRecvError(c) == /\ c \in Mortal /\ pc[c] = "recv"
                      /\ pc' = [pc EXCEPT ![c] = "gaveUp"]
                      /\ UNCHANGED <<kind, srv, cur, reqs, resps, asked, got, net>>

\* All arguments are answered: the client removes its address and exits.
ClientDone(c) == /\ pc[c] = "send" /\ Len(asked[c]) = NumMsgs
                 /\ pc' = [pc EXCEPT ![c] = "done"]
                 /\ UNCHANGED <<kind, srv, cur, reqs, resps, asked, got, net>>

Kill(c) == /\ c \in Mortal /\ ~Ended(c)
           /\ pc' = [pc EXCEPT ![c] = "killed"]
           /\ UNCHANGED <<kind, srv, cur, reqs, resps, asked, got, net>>

-----------------------------------------------------------------------------
(* The network, for UDP.                                                   *)

Lose == /\ kind # "unix" /\ net.lost < MaxLost
        /\ \/ \E m \in reqs : reqs' = reqs \ {m} /\ UNCHANGED resps
           \/ \E m \in resps : resps' = resps \ {m} /\ UNCHANGED reqs
        /\ net' = [net EXCEPT !.lost = @ + 1]
        /\ UNCHANGED <<kind, srv, cur, pc, asked, got>>

\* The request the server is working on arrives a second time.
Duplicate == /\ kind # "unix" /\ net.dups < MaxDups
             /\ srv = "send"
             /\ reqs' = reqs \cup {cur}
             /\ net' = [net EXCEPT !.dups = @ + 1]
             /\ UNCHANGED <<kind, srv, cur, resps, pc, asked, got>>

-----------------------------------------------------------------------------
Server == Start \/ Recv \/ Send
Client(c) == ClientSend(c) \/ ClientRefused(c) \/ ClientRecv(c) \/ ClientDone(c)

Next == \/ Server \/ SendError \/ RecvError \/ Lose \/ Duplicate
        \/ \E c \in Clients : \/ Client(c) \/ ClientSendError(c)
                             \/ ClientRecvError(c) \/ Kill(c)

Spec == Init /\ [][Next]_vars

-----------------------------------------------------------------------------
TypeOK == /\ kind \in Kinds
          /\ srv \in {"down", "recv", "send", "exited"}
          /\ cur \in [client : Clients, num : 1..NumMsgs, size : 0..BufSize] \cup {None}
          /\ reqs \subseteq Msg /\ resps \subseteq Msg
          /\ pc \in [Clients -> {"send", "recv", "done", "failed", "killed", "gaveUp"}]
          /\ asked \in [Clients -> Seq(Sizes)]
          /\ got \in [Clients -> Seq(Msg)]
          /\ net \in [lost : Nat, dups : Nat, errors : Nat]

\* "Response %d" (the clients' printf): line i is the answer to argument i,
\* cut to BUF_SIZE, unless the network duplicated a datagram; then it may be
\* the answer to an earlier argument of the same client.  Losses, failed
\* calls and a dying server never shift the answers.
ResponseMatches == \A c \in Clients : \A i \in 1..Len(got[c]) :
    LET m == got[c][i]
    IN  /\ m.client = c
        /\ m.num <= i /\ (net.dups = 0 => m.num = i)
        /\ m.size = Cut(asked[c][m.num])

\* A server goes down only if a recvfrom() or a sendto() of its own failed for
\* a local reason or, for the UNIX-domain one, a client ended while it waited
\* for its response (server lines 47-50 and 57-60): it never exits because of a
\* client that ends normally or whose send failed.
ServerSurvives == srv = "exited" =>
    \/ net.errors > 0
    \/ kind = "unix" /\ \E c \in Mortal : pc[c] \in Vanished

Current == IF srv = "send" THEN {cur} ELSE {}
InFlight == reqs \cup Current \cup resps

\* How far the clients are.
ClientInv == \A c \in Clients :
    /\ Len(got[c]) <= Len(asked[c]) /\ Len(asked[c]) <= NumMsgs
    /\ pc[c] \in {"send", "done"} => Len(asked[c]) = Len(got[c])
    /\ pc[c] = "recv" => Len(asked[c]) = Len(got[c]) + 1
    /\ pc[c] \in Vanished => c \in Mortal

\* A datagram on its way belongs to an argument that was sent; without
\* duplicates to the one that waits for its answer.
FlightInv ==
    /\ Current \subseteq Msg
    /\ \A m \in InFlight : /\ m.num <= Len(asked[m.client])
                           /\ Cut(m.size) = Cut(asked[m.client][m.num])
    /\ \A m \in Current \cup resps : m.size <= BufSize
    /\ net.dups = 0 => \A m \in InFlight :
         m.num = Len(asked[m.client]) /\ m.num > Len(got[m.client])

\* Without duplicates a client has one datagram on its way at most.
OnceInv == net.dups = 0 =>
    /\ \A m \in reqs : m.size = asked[m.client][m.num]
    /\ \A m \in reqs, k \in Current \cup resps : m.client # k.client
    /\ \A m \in Current, k \in resps : m.client # k.client

\* Nothing is duplicated in the UNIX domain, who waits there has not ended,
\* and unless the server has exited nobody waits in vain: the datagram of a
\* client that waits is on its way.
UnixInv == kind = "unix" =>
    /\ net.dups = 0 /\ \A m \in InFlight : pc[m.client] \in {"recv"} \cup Vanished
    /\ srv # "exited" => \A c \in Clients :
         pc[c] = "recv" => \E m \in InFlight : m.client = c

\* What the proofs of ResponseMatches and ServerSurvives rest on.
IndInv == /\ TypeOK /\ ClientInv /\ FlightInv /\ OnceInv /\ UnixInv
          /\ ResponseMatches /\ ServerSurvives

\* Every argument of a client is answered unless a datagram is lost, a call of
\* the server fails or the client ends; the ends of other clients matter only
\* where they end the server.
Asking(c) == srv = "recv" /\ pc[c] = "send"
AnsweredOrExcused(c) == \/ Ended(c) \/ srv = "exited"
                        \/ net.lost + net.errors > 0
                        \/ c \in Mortal /\ kind = "echo"
=============================================================================
