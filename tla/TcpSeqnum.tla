------------------------------ MODULE TcpSeqnum ------------------------------
(***************************************************************************)
(* The sequence-number service over TCP: the iterative server of           *)
(* sockets/net_stream_sock_seqnum_server.c and its clients                 *)
(* (net_stream_sock_seqnum_client.c).  The server's counter is a uint32_t  *)
(* that wraps and is sent in decimal as a signed int.  readLine() is the   *)
(* subject of module ReadLine; here it returns a line, an unterminated     *)
(* line at end of file, or 0.                                              *)
(***************************************************************************)
EXTENDS Integers, Sequences

CONSTANTS Clients,
          Lens,         \* the lengths clients ask for: ints, some negative
          InitSeqs,     \* the server's init-seq-num argument
          W,            \* the number of values of the counter (2^32 in the code)
          Mortal,       \* the clients that may be killed
          CloseMayFail, \* may close(cfd) fail, which ends the server?
          None

ASSUME TcpAssumption == /\ W \in Nat \ {0}
                        /\ Lens \subseteq Int /\ InitSeqs \subseteq Int
                        /\ Mortal \subseteq Clients
                        /\ CloseMayFail \in BOOLEAN
                        /\ None \notin Int
                        /\ None \notin [first : Nat, len : Nat, epoch : Nat]

VARIABLES
    srvPc,      \* "accept", "readLine", "write", "close" or "exited"
    seqNum,     \* the counter
    cur,        \* the client being served
    reqLen,     \* the length it asked for
    backlog,    \* connections not yet accepted
    pc,         \* pc[c]: the call client c is in
    len,        \* len[c]: its sequence-len argument
    sent,       \* sent[c]: "none", "num" (no newline yet) or "line"
    reply,      \* reply[c]: the number the server sent
    closed,     \* the connections the server has closed
    off         \* history: the counter began at off.start, off.used numbers
                \* were handed out, off.at[c] of them before c's

vars == <<srvPc, seqNum, cur, reqLen, backlog, pc, len, sent, reply, closed, off>>
cliVars == <<pc, len, sent>>

Init == /\ srvPc = "accept"
        /\ seqNum \in {i % W : i \in InitSeqs}
        /\ cur = None /\ reqLen = 0 /\ backlog = <<>>
        /\ pc = [c \in Clients |-> "connect"]
        /\ len \in [Clients -> Lens]
        /\ sent = [c \in Clients |-> "none"]
        /\ reply = [c \in Clients |-> None]
        /\ closed = {}
        /\ off = [start |-> seqNum, used |-> 0, at |-> [c \in Clients |-> 0]]

Ended(c) == pc[c] \in {"done", "failed", "killed"}

\* snprintf("%d") of the unsigned counter: the upper half prints negative.
Printed(u) == IF 2 * u >= W THEN u - W ELSE u

-----------------------------------------------------------------------------
(* The server.  accept() = -1 only repeats the loop.                       *)

Accept == /\ srvPc = "accept"
          /\ backlog # <<>>
          /\ cur' = Head(backlog)
          /\ backlog' = Tail(backlog)
          /\ srvPc' = "readLine"
          /\ UNCHANGED <<seqNum, reqLen, reply, closed, off, cliVars>>

ReadRequestAnyLen ==
               /\ srvPc = "readLine"
               /\ sent[cur] = "line" \/ Ended(cur)
               /\ IF sent[cur] = "none"
                    THEN /\ closed' = closed \cup {cur}
                         /\ srvPc' = "accept"
                         /\ UNCHANGED reqLen
                    ELSE /\ reqLen' = len[cur]
                         /\ srvPc' = "write"
                         /\ UNCHANGED closed
               /\ UNCHANGED <<seqNum, cur, backlog, reply, off, cliVars>>

ReadRequestNoClose ==
               /\ srvPc = "readLine"
               /\ sent[cur] = "line" \/ Ended(cur)
               /\ IF sent[cur] = "none" \/ len[cur] < 0
                    THEN srvPc' = "accept" /\ UNCHANGED reqLen
                    ELSE srvPc' = "write" /\ reqLen' = len[cur]
               /\ UNCHANGED <<seqNum, cur, backlog, reply, closed, off, cliVars>>

\* A request that is empty or negative is refused by closing its connection;
\* one cut short by the end of its client is served all the same.
ReadRequest == /\ srvPc = "readLine"
               /\ sent[cur] = "line" \/ Ended(cur)
               /\ IF sent[cur] = "none" \/ len[cur] < 0
                    THEN /\ closed' = closed \cup {cur}
                         /\ srvPc' = "accept"
                         /\ UNCHANGED reqLen
                    ELSE /\ reqLen' = len[cur]
                         /\ srvPc' = "write"
                         /\ UNCHANGED closed
               /\ UNCHANGED <<seqNum, cur, backlog, reply, off, cliVars>>

\* A write() that fails (the client is gone) is only reported.
WriteReply == /\ srvPc = "write"
              /\ reply' = IF Ended(cur) THEN reply
                          ELSE [reply EXCEPT ![cur] = Printed(seqNum)]
              /\ off' = [off EXCEPT !.at[cur] = off.used]
              /\ srvPc' = "close"
              /\ UNCHANGED <<seqNum, cur, reqLen, backlog, closed, cliVars>>

AdvanceIfAlive ==
           /\ srvPc = "close"
           /\ seqNum' = IF Ended(cur) THEN seqNum ELSE (seqNum + reqLen) % W
           /\ off' = [off EXCEPT !.used = @ + reqLen]
           /\ closed' = closed \cup {cur}
           /\ \/ srvPc' = "accept"
              \/ CloseMayFail /\ srvPc' = "exited"
           /\ UNCHANGED <<cur, reqLen, backlog, reply, cliVars>>

\* The counter moves whatever became of the reply, and the connection is
\* closed; close() = -1 ends the server.
Advance == /\ srvPc = "close"
           /\ seqNum' = (seqNum + reqLen) % W
           /\ off' = [off EXCEPT !.used = @ + reqLen]
           /\ closed' = closed \cup {cur}
           /\ \/ srvPc' = "accept"
              \/ CloseMayFail /\ srvPc' = "exited"
           /\ UNCHANGED <<cur, reqLen, backlog, reply, cliVars>>

-----------------------------------------------------------------------------
(* The clients.                                                            *)

Move(c, to) == pc' = [pc EXCEPT ![c] = to]

Connect(c) == /\ pc[c] = "connect"
              /\ IF srvPc = "exited"
                   THEN Move(c, "failed") /\ UNCHANGED backlog
                   ELSE Move(c, "sendNum") /\ backlog' = Append(backlog, c)
              /\ UNCHANGED <<srvPc, seqNum, cur, reqLen, len, sent, reply, closed, off>>

\* The two writes of the request; without a server they fail, or the client
\* is killed by SIGPIPE.
SendNum(c) == /\ pc[c] = "sendNum"
              /\ IF srvPc = "exited"
                   THEN Move(c, "failed") /\ UNCHANGED sent
                   ELSE Move(c, "sendNl") /\ sent' = [sent EXCEPT ![c] = "num"]
              /\ UNCHANGED <<srvPc, seqNum, cur, reqLen, backlog, len, reply, closed, off>>

SendNl(c) == /\ pc[c] = "sendNl"
             /\ IF srvPc = "exited"
                  THEN Move(c, "failed") /\ UNCHANGED sent
                  ELSE Move(c, "readLine") /\ sent' = [sent EXCEPT ![c] = "line"]
             /\ UNCHANGED <<srvPc, seqNum, cur, reqLen, backlog, len, reply, closed, off>>

\* readLine() of the reply: a number, or 0 ("Unexpected EOF").
ReadReply(c) == /\ pc[c] = "readLine"
                /\ reply[c] # None \/ c \in closed \/ srvPc = "exited"
                /\ Move(c, IF reply[c] # None THEN "done" ELSE "failed")
                /\ UNCHANGED <<srvPc, seqNum, cur, reqLen, backlog, len, sent,
                               reply, closed, off>>

Kill(c) == /\ c \in Mortal /\ ~Ended(c)
           /\ Move(c, "killed")
           /\ UNCHANGED <<srvPc, seqNum, cur, reqLen, backlog, len, sent, reply,
                          closed, off>>

-----------------------------------------------------------------------------
Server == Accept \/ ReadRequest \/ WriteReply \/ Advance
Client(c) == Connect(c) \/ SendNum(c) \/ SendNl(c) \/ ReadReply(c)

Next == Server \/ \E c \in Clients : Client(c) \/ Kill(c)

Spec == Init /\ [][Next]_vars

\* Every process is scheduled; in particular no connected client is stopped.
FairSpec == Spec /\ WF_vars(Server) /\ \A c \in Clients : WF_vars(Client(c))

-----------------------------------------------------------------------------
TypeOK == /\ srvPc \in {"accept", "readLine", "write", "close", "exited"}
          /\ seqNum \in 0..W - 1
          /\ cur \in Clients \cup {None}
          /\ reqLen \in Nat
          /\ backlog \in Seq(Clients)
          /\ pc \in [Clients -> {"connect", "sendNum", "sendNl", "readLine",
                                 "done", "failed", "killed"}]
          /\ len \in [Clients -> Lens]
          /\ sent \in [Clients -> {"none", "num", "line"}]
          /\ reply \in [Clients -> Int \cup {None}]
          /\ closed \subseteq Clients
          /\ off \in [start : Nat, used : Nat, at : [Clients -> Nat]]

Answered(c) == reply[c] # None
Waits(c) == \E i \in 1..Len(backlog) : backlog[i] = c

\* The counter values c was given: reply[c] % W undoes the signed printing.
Residues(c) == {(reply[c] + i) % W : i \in 0..len[c] - 1}

\* Every connection is accepted once, answered at most once and not before
\* its request, and closed once (server lines 108-146).
Serving == srvPc \in {"readLine", "write", "close"}
ConnInv ==
    /\ \A c \in Clients : pc[c] = "connect" \/ Waits(c) =>
         /\ reply[c] = None /\ c \notin closed
         /\ Serving => c # cur
    /\ \A c \in Clients : pc[c] = "connect" => ~Waits(c)
    /\ \A i, k \in 1..Len(backlog) : backlog[i] = backlog[k] => i = k
    /\ Serving => cur \in Clients /\ cur \notin closed
    /\ srvPc \in {"readLine", "write"} => reply[cur] = None
    /\ srvPc \in {"write", "close"} => reqLen = len[cur]

\* The 32-bit counter and the numbers sent in decimal are what was handed
\* out, up to a multiple of W, and only non-negative requests are answered
\* (server lines 125-141).
CounterInv ==
    /\ seqNum = (off.start + off.used) % W
    /\ \A c \in Clients : Answered(c) =>
         /\ reply[c] \in Int /\ len[c] >= 0
         /\ reply[c] % W = (off.start + off.at[c]) % W

\* Nobody is forgotten: while the server runs, a client that has connected
\* waits to be accepted, is being served, has its answer, or was refused for a
\* negative length; and a client that waits for the answer has sent its whole
\* request, so the server does not wait for it in turn (lines 108-146).
AnswerInv ==
    /\ \A c \in Clients : ~Ended(c) => (sent[c] = "line" <=> pc[c] = "readLine")
    /\ srvPc # "exited" => \A c \in Clients :
         /\ pc[c] \in {"sendNum", "sendNl"} => Waits(c) \/ (srvPc = "readLine" /\ c = cur)
         /\ pc[c] = "readLine" => \/ Waits(c)
                                  \/ Answered(c)
                                  \/ srvPc \in {"readLine", "write"} /\ c = cur
                                  \/ c \in closed /\ len[c] < 0
         /\ pc[c] = "failed" => len[c] < 0

\* What the proofs of DisjointUntilWrap and of the refinement rest on.
IndInv == TypeOK /\ ConnInv /\ CounterInv /\ AnswerInv

\* The service implements the abstract allocator: with the counter unwrapped,
\* the ranges follow one another, whoever dies before its answer (server
\* lines 108-146).  A range is taken with the write() of its first number.
BarNext == off.used + (IF srvPc = "close" THEN reqLen ELSE 0)
BarAlloc == [c \in Clients |->
               IF reply[c] = None THEN None
               ELSE [first |-> off.at[c], len |-> len[c], epoch |-> 0]]
Alloc == INSTANCE SeqAllocator WITH next <- BarNext, alloc <- BarAlloc, epoch <- 0
Refines == Alloc!AllocSpec

\* Until W numbers have been handed out, no value of the 32-bit counter is
\* given to two clients, although it may wrap past zero, is printed signed
\* (server lines 136 and 141) and clients may die before or after the write.
DisjointUntilWrap ==
    BarNext <= W =>
        \A c, d \in Clients : c # d /\ Answered(c) /\ Answered(d)
                                => Residues(c) \cap Residues(d) = {}

\* The iterative server serves the whole backlog, whoever dies in it (server
\* lines 108-146): unless it exits, a client that asked and is not killed is
\* answered, and refused only for a negative length.
EveryoneAnswered == \A c \in Clients :
    pc[c] = "readLine" ~> \/ pc[c] \in {"done", "killed"} \/ srvPc = "exited"
                          \/ pc[c] = "failed" /\ len[c] < 0
=============================================================================
