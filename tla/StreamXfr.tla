----------------------------- MODULE StreamXfr -----------------------------
(***************************************************************************)
(* sockets/stream_sock_xfr_server.c and stream_sock_xfr_client.c: clients  *)
(* copy their standard input to a UNIX-domain stream socket, and an        *)
(* iterative server copies one connection after the other to its standard  *)
(* output.  Bytes are counted; the sockets are the kernel's.               *)
(***************************************************************************)
EXTENDS Integers, Sequences, FiniteSets

CONSTANTS Clients,
          Input,        \* units on the standard input of a client
          BufSize,      \* BUF_SIZE, in units
          Backlog,      \* BACKLOG
          Faulty,       \* the clients that may be killed or fail to read
          ServerMayFail,\* may a call of the server fail (it then exits)?
          None

VARIABLES srvPc,        \* "down", "accept", "read", "write" or "exited"
          cur,          \* the client whose connection is being copied
          buf,          \* units in the server's buffer
          backlog,      \* connections waiting for accept()
          out,          \* the server's standard output: who each unit is from
          pc,           \* pc[c]: "connect", "read", "write", "done", ...
          taken,        \* taken[c]: units read from standard input
          sent,         \* sent[c]: units written to the socket
          rcvd          \* rcvd[c]: units read by the server

vars == <<srvPc, cur, buf, backlog, out, pc, taken, sent, rcvd>>

Init == /\ srvPc = "down" /\ cur = None /\ buf = 0
        /\ backlog = <<>> /\ out = <<>>
        /\ pc = [c \in Clients |-> "connect"]
        /\ taken = [c \in Clients |-> 0]
        /\ sent = [c \in Clients |-> 0]
        /\ rcvd = [c \in Clients |-> 0]

Ended(c) == pc[c] \in {"done", "failed", "killed"}
Least(a, b) == IF a < b THEN a ELSE b

-----------------------------------------------------------------------------
(* The server.                                                             *)

\* socket, remove, bind, listen: from now on a client can connect.
Listen == /\ srvPc = "down"
          /\ srvPc' = "accept"
          /\ UNCHANGED <<cur, buf, backlog, out, pc, taken, sent, rcvd>>

Accept == /\ srvPc = "accept" /\ backlog # <<>>
          /\ cur' = Head(backlog) /\ backlog' = Tail(backlog)
          /\ srvPc' = "read"
          /\ UNCHANGED <<buf, out, pc, taken, sent, rcvd>>

\* read() returns what is there, at most BUF_SIZE.
ServerRead == /\ srvPc = "read"
              /\ sent[cur] > rcvd[cur]
              /\ buf' = Least(BufSize, sent[cur] - rcvd[cur])
              /\ rcvd' = [rcvd EXCEPT ![cur] = @ + buf']
              /\ srvPc' = "write"
              /\ UNCHANGED <<cur, backlog, out, pc, taken, sent>>

ServerWrite == /\ srvPc = "write"
               /\ out' = out \o [i \in 1..buf |-> cur]
               /\ buf' = 0
               /\ srvPc' = "read"
               /\ UNCHANGED <<cur, backlog, pc, taken, sent, rcvd>>

NextClientAnyTime ==
             /\ srvPc = "read"
             /\ rcvd[cur] = sent[cur]
             /\ srvPc' = "accept"
             /\ UNCHANGED <<cur, buf, backlog, out, pc, taken, sent, rcvd>>

\* read() = 0: the client has closed its end; close(cfd).
ServerEof == /\ srvPc = "read"
             /\ Ended(cur) /\ rcvd[cur] = sent[cur]
             /\ srvPc' = "accept"
             /\ UNCHANGED <<cur, buf, backlog, out, pc, taken, sent, rcvd>>

\* accept(), read(), write() or close() fails: exit(1), whoever is waiting.
ServerFails == /\ ServerMayFail
               /\ srvPc \in {"accept", "read", "write"}
               /\ srvPc' = "exited"
               /\ UNCHANGED <<cur, buf, backlog, out, pc, taken, sent, rcvd>>

-----------------------------------------------------------------------------
(* The clients.                                                            *)

Move(c, to) == pc' = [pc EXCEPT ![c] = to]

\* connect() blocks on a full backlog and fails without a listener.
Connect(c) == /\ pc[c] = "connect"
              /\ srvPc \in {"down", "exited"} \/ Len(backlog) <= Backlog
              /\ IF srvPc \in {"down", "exited"}
                   THEN Move(c, "failed") /\ UNCHANGED backlog
                   ELSE Move(c, "read") /\ backlog' = Append(backlog, c)
              /\ UNCHANGED <<srvPc, cur, buf, out, taken, sent, rcvd>>

\* read(STDIN): data, or end of file and exit(0).
ClientRead(c) == /\ pc[c] = "read"
                 /\ IF taken[c] = Input
                      THEN Move(c, "done") /\ UNCHANGED taken
                      ELSE \E k \in 1..Least(BufSize, Input - taken[c]) :
                             /\ taken' = [taken EXCEPT ![c] = @ + k]
                             /\ Move(c, "write")
                 /\ UNCHANGED <<srvPc, cur, buf, backlog, out, sent, rcvd>>

\* read(STDIN) = -1 ends the loop; the test for it is "numRead == 1", so the
\* client exits with status 0.
ClientReadError(c) == /\ pc[c] = "read" /\ c \in Faulty
                      /\ Move(c, "done")
                      /\ UNCHANGED <<srvPc, cur, buf, backlog, out, taken, sent, rcvd>>

\* write() to the socket; SIGPIPE kills the client when the server is gone.
ClientWrite(c) == /\ pc[c] = "write"
                  /\ IF srvPc = "exited"
                       THEN Move(c, "killed") /\ UNCHANGED sent
                       ELSE /\ sent' = [sent EXCEPT ![c] = taken[c]]
                            /\ Move(c, "read")
                  /\ UNCHANGED <<srvPc, cur, buf, backlog, out, taken, rcvd>>

ClientKilled(c) == /\ c \in Faulty /\ ~Ended(c)
                   /\ Move(c, "killed")
                   /\ UNCHANGED <<srvPc, cur, buf, backlog, out, taken, sent, rcvd>>

-----------------------------------------------------------------------------
Server == Listen \/ Accept \/ ServerRead \/ ServerWrite \/ ServerEof
Client(c) == Connect(c) \/ ClientRead(c) \/ ClientWrite(c)

Next == \/ Server \/ ServerFails
        \/ \E c \in Clients : Client(c) \/ ClientReadError(c) \/ ClientKilled(c)

Spec == Init /\ [][Next]_vars

-----------------------------------------------------------------------------
TypeOK == /\ srvPc \in {"down", "accept", "read", "write", "exited"}
          /\ cur \in Clients \cup {None}
          /\ buf \in 0..BufSize
          /\ backlog \in Seq(Clients) /\ Len(backlog) <= Backlog + 1
          /\ out \in Seq(Clients)
          /\ pc \in [Clients -> {"connect", "read", "write", "done", "failed", "killed"}]
          /\ taken \in [Clients -> 0..Input]
          /\ sent \in [Clients -> 0..Input]
          /\ rcvd \in [Clients -> 0..Input]

\* The clients' data are not mixed: what one client sent is one piece of the
\* output (server lines 52-75), whoever fails.
NotMixed == \A i, k \in 1..Len(out) :
    i < k /\ out[i] = out[k] => \A m \in i..k : out[m] = out[i]

Printed(c) == Cardinality({i \in 1..Len(out) : out[i] = c})
Waits(c) == \E i \in 1..Len(backlog) : backlog[i] = c

\* A connection the server has finished with was copied whole (lines 59-71):
\* every byte the client wrote before it ended, killed or not, was printed.
CopiedWhole == srvPc = "accept" =>
    \A c \in Clients : ~Waits(c) /\ pc[c] # "connect" => Printed(c) = sent[c]

\* A client that exits with status 0 has written all it read (client lines
\* 34-46), and has read all of its input unless a read() failed: that failure
\* is not seen (line 41), and the rest of the input is then missing.
SentWhole == \A c \in Clients :
    /\ pc[c] = "done" => sent[c] = taken[c]
    /\ pc[c] = "done" /\ c \notin Faulty => taken[c] = Input

Busy == srvPc \in {"read", "write"}

\* A client is not connected, waits in the backlog once, is served, or is
\* finished with, having ended before.
PlaceInv ==
    /\ Busy => cur \in Clients /\ ~Waits(cur) /\ pc[cur] # "connect"
    /\ \A i, k \in 1..Len(backlog) : backlog[i] = backlog[k] => i = k
    /\ \A c \in Clients : pc[c] = "connect" => ~Waits(c) /\ sent[c] = 0 /\ taken[c] = 0
    /\ srvPc # "exited" => \A c \in Clients :
         pc[c] # "connect" /\ ~Waits(c) /\ ~(Busy /\ c = cur) =>
           Ended(c) /\ rcvd[c] = sent[c]

\* What the server read it printed, or holds in its buffer.
PrintInv ==
    /\ \A c \in Clients : pc[c] = "connect" \/ Waits(c) =>
         rcvd[c] = 0 /\ \A i \in 1..Len(out) : out[i] # c
    /\ \A c \in Clients : rcvd[c] <= sent[c] /\ sent[c] <= taken[c]
    /\ srvPc # "exited" => \A c \in Clients :
         rcvd[c] = Printed(c) + (IF srvPc = "write" /\ c = cur THEN buf ELSE 0)
    /\ Busy => \A i, m \in 1..Len(out) : i <= m /\ out[i] = cur => out[m] = cur

\* What the proofs of NotMixed and CopiedWhole rest on, and that of SentWhole.
IndInv == TypeOK /\ PlaceInv /\ PrintInv /\ NotMixed
StatusInv == SentWhole /\ \A c \in Clients : pc[c] = "read" => sent[c] = taken[c]

\* The iterative server reaches every client of the backlog: unless it exits,
\* what a client wrote is printed in the end, whoever dies meanwhile.
Writing(c) == pc[c] = "write"
PrintedAllOf(c) == srvPc = "exited" \/ (Ended(c) /\ Printed(c) = sent[c])
=============================================================================
