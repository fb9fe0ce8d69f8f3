----------------------------- MODULE FifoSeqnum -----------------------------
(***************************************************************************)
(* The sequence-number service over FIFOs: one server                      *)
(* (pipes_and_fifo/fifo_seqnum_server.c) and any number of clients         *)
(* (fifo_seqnum_client.c).  A client makes a FIFO of its own, writes       *)
(* [pid, seqLen] to the server's well-known FIFO and reads the first       *)
(* number of its range from its own FIFO.                                  *)
(*                                                                         *)
(* An open() of a FIFO blocks until the other end is opened too: where     *)
(* both sides wait, one joint action lets both return.  The processes may  *)
(* be killed between any two system calls; the server may be restarted.    *)
(* A process identifier is not used twice.                                 *)
(***************************************************************************)
EXTENDS Integers, Sequences

CONSTANTS Clients,      \* the client processes; a client stands for its PID
          Lens,         \* the values of the seq-len argument: any int, atoi()
                        \* is not checked
          INT_MAX,      \* the largest int
          Mortal,       \* the clients that may be killed or whose calls may fail
          MaxCrashes,   \* bound: how often the server may die
          None          \* no message

Ints == (-INT_MAX - 1)..INT_MAX

ASSUME FifoAssumption == /\ INT_MAX \in Nat
                         /\ Lens \subseteq Ints
                         /\ Mortal \subseteq Clients
                         /\ MaxCrashes \in Nat
                         /\ None \notin [pid : Clients, seqLen : Lens]
                         /\ None \notin [seqNum : Ints, gen : Nat]
                         /\ None \notin [first : Int, len : Nat, epoch : Nat]

VARIABLES
    srvPc,      \* the system call the server is in
    dummyFd,    \* is the server's own write end of its FIFO open?
    seqNum,     \* the server's counter
    req,        \* the request being served
    srvFifo,    \* does the server's FIFO exist in the file system?
    srvPipe,    \* the requests in the server's FIFO
    epoch,      \* history: how often the server died
    gen,        \* history: how often the counter was set back
    pc,         \* pc[c]: the system call client c is in
    len,        \* len[c]: the seq-len argument of c
    fifo,       \* fifo[c]: does c's FIFO exist in the file system?
    chan,       \* chan[c]: the response in c's FIFO
    res         \* res[c]: the response c printed

srvVars == <<srvPc, dummyFd, seqNum, req, epoch, gen>>
cliVars == <<pc, fifo, chan, res>>
vars == <<srvPc, dummyFd, seqNum, req, srvFifo, srvPipe, epoch, gen,
          pc, len, fifo, chan, res>>

Request == [pid : Clients, seqLen : Lens]

\* A response carries the number; gen is a history field that no process sees.
Response == [seqNum : Ints, gen : Nat]

Serving == srvPc \in {"lookup", "openClient", "write", "close"}

SrvPcs == {"down", "openRd", "openDummy", "read", "lookup", "openClient",
           "write", "close"}
CliPcs == {"start", "openSrv", "write", "openOwn", "read",
           "done", "failed", "killed"}

\* The server holds the read end of its FIFO.
SrvReading == srvPc \in SrvPcs \ {"down", "openRd"}

\* c holds a write end of the server's FIFO: it keeps it open until it ends.
HoldsSrvFifo(c) == pc[c] \in {"write", "openOwn", "read"}

SrvFifoHasWriter == dummyFd \/ \E c \in Clients : HoldsSrvFifo(c)

\* The server holds the write end of c's FIFO.
SrvWrites(c) == srvPc \in {"write", "close"} /\ req.pid = c

Init == /\ srvPc = "down"
        /\ dummyFd = FALSE
        /\ seqNum = 0
        /\ req = None
        /\ srvFifo = FALSE
        /\ srvPipe = <<>>
        /\ epoch = 0
        /\ gen = 0
        /\ pc = [c \in Clients |-> "start"]
        /\ len \in [Clients -> Lens]
        /\ fifo = [c \in Clients |-> FALSE]
        /\ chan = [c \in Clients |-> None]
        /\ res = [c \in Clients |-> None]

-----------------------------------------------------------------------------
(* The server.                                                             *)

\* mkfifo(SERVER_FIFO): a FIFO that is already there is taken over.
ServerStart == /\ srvPc = "down"
               /\ srvFifo' = TRUE
               /\ srvPc' = "openRd"
               /\ UNCHANGED <<dummyFd, seqNum, req, srvPipe, epoch, gen, len, cliVars>>

\* open(SERVER_FIFO, O_RDONLY) where a client still holds a write end.
ServerOpenRd == /\ srvPc = "openRd"
                /\ SrvFifoHasWriter
                /\ srvPc' = "openDummy"
                /\ UNCHANGED <<dummyFd, seqNum, req, srvFifo, srvPipe, epoch, gen,
                               len, cliVars>>

\* The same open where it meets client c's blocked open(SERVER_FIFO, O_WRONLY).
MeetAtServerFifo(c) == /\ srvPc = "openRd"
                       /\ pc[c] = "openSrv"
                       /\ srvPc' = "openDummy"
                       /\ pc' = [pc EXCEPT ![c] = "write"]
                       /\ UNCHANGED <<dummyFd, seqNum, req, srvFifo, srvPipe,
                                      epoch, gen, len, fifo, chan, res>>

ServerOpenDummyNoFd == /\ srvPc = "openDummy"
                       /\ srvPc' = "read"
                       /\ UNCHANGED <<dummyFd, seqNum, req, srvFifo, srvPipe,
                                      epoch, gen, len, cliVars>>

ServerOpenDummy == /\ srvPc = "openDummy"
                   /\ dummyFd' = TRUE
                   /\ srvPc' = "read"
                   /\ UNCHANGED <<seqNum, req, srvFifo, srvPipe, epoch, gen, len, cliVars>>

\* read() of one request; it blocks on an empty FIFO that has a writer, and
\* returns 0 (end of file: "discarding", and the loop goes on) on one that
\* has none.
ServerRead == /\ srvPc = "read"
              /\ srvPipe # <<>> \/ ~SrvFifoHasWriter
              /\ IF srvPipe # <<>>
                   THEN /\ req' = Head(srvPipe)
                        /\ srvPipe' = Tail(srvPipe)
                        /\ srvPc' = "lookup"
                   ELSE UNCHANGED <<req, srvPipe, srvPc>>
              /\ UNCHANGED <<dummyFd, seqNum, srvFifo, epoch, gen, len, cliVars>>

ServerLookupNonblock ==
                /\ srvPc = "lookup"
                /\ srvPc' \in IF fifo[req.pid] THEN {"openClient", "read"} ELSE {"read"}
                /\ UNCHANGED <<dummyFd, seqNum, req, srvFifo, srvPipe, epoch, gen,
                               len, cliVars>>

\* The path lookup of open(clientFifo, O_WRONLY): a FIFO that is gone fails
\* the open and the request is dropped; one that exists blocks the server
\* until the client opens it for reading.
ServerLookup == /\ srvPc = "lookup"
                /\ srvPc' = IF fifo[req.pid] THEN "openClient" ELSE "read"
                /\ UNCHANGED <<dummyFd, seqNum, req, srvFifo, srvPipe, epoch, gen,
                               len, cliVars>>

\* The server's open meets the client's open(clientFifo, O_RDONLY).
MeetAtClientFifo(c) == /\ srvPc = "openClient"
                       /\ req.pid = c
                       /\ pc[c] = "openOwn"
                       /\ srvPc' = "write"
                       /\ pc' = [pc EXCEPT ![c] = "read"]
                       /\ UNCHANGED <<dummyFd, seqNum, req, srvFifo, srvPipe,
                                      epoch, gen, len, fifo, chan, res>>

\* write() of the response; with SIGPIPE ignored, a client that is gone
\* makes it fail with EPIPE, which is only reported.
ServerWrite == /\ srvPc = "write"
               /\ chan' = IF pc[req.pid] = "read"
                            THEN [chan EXCEPT ![req.pid] =
                                    [seqNum |-> seqNum, gen |-> gen]]
                            ELSE chan
               /\ srvPc' = "close"
               /\ UNCHANGED <<dummyFd, seqNum, req, srvFifo, srvPipe, epoch, gen,
                              len, pc, fifo, res>>

\* The value an int has after an addition: the overflow of a signed int is
\* undefined in C, and wraps in the build.
Wrap(x) == ((x + INT_MAX + 1) % (2 * INT_MAX + 2)) - INT_MAX - 1

\* Serving the request sets the counter back: a negative length, or one that
\* takes the counter beyond INT_MAX.  The server checks neither.
SetsBack == req.seqLen < 0 \/ seqNum + req.seqLen > INT_MAX

ServerCloseNoAdvance ==
               /\ srvPc = "close"
               /\ srvPc' = "read"
               /\ gen' = IF SetsBack THEN gen + 1 ELSE gen
               /\ UNCHANGED <<dummyFd, req, srvFifo, srvPipe, epoch, len, cliVars>>
               /\ seqNum' = IF pc[req.pid] = "read" THEN seqNum
                            ELSE Wrap(seqNum + req.seqLen)

\* close(clientFd), and the counter moves whether or not the write succeeded.
ServerClose == /\ srvPc = "close"
               /\ seqNum' = Wrap(seqNum + req.seqLen)
               /\ gen' = IF SetsBack THEN gen + 1 ELSE gen
               /\ srvPc' = "read"
               /\ UNCHANGED <<dummyFd, req, srvFifo, srvPipe, epoch, len, cliVars>>

\* The server is killed, or a call of its start-up fails and it exits: its
\* descriptors are closed, its counter is lost, and so are the requests in
\* the FIFO unless a client still holds it open.
ServerDie == /\ srvPc # "down"
             /\ epoch < MaxCrashes
             /\ epoch' = epoch + 1
             /\ gen' = gen + 1
             /\ srvPc' = "down"
             /\ dummyFd' = FALSE
             /\ seqNum' = 0
             /\ req' = None
             /\ srvPipe' = IF \E c \in Clients : HoldsSrvFifo(c)
                             THEN srvPipe ELSE <<>>
             /\ UNCHANGED <<srvFifo, len, cliVars>>

-----------------------------------------------------------------------------
(* The clients.                                                            *)

ClientMkfifo(c) == /\ pc[c] = "start"
                   /\ fifo' = [fifo EXCEPT ![c] = TRUE]
                   /\ pc' = [pc EXCEPT ![c] = "openSrv"]
                   /\ UNCHANGED <<srvVars, srvFifo, srvPipe, len, chan, res>>

\* Client c ends in state "how"; exit() runs removeFifo, a fatal signal
\* does not.  What is left in its FIFO, and in the server's FIFO when
\* nobody holds that any more, is gone.
EndClient(c, how) ==
    /\ pc' = [pc EXCEPT ![c] = how]
    /\ fifo' = [fifo EXCEPT ![c] = how = "killed" /\ fifo[c]]
    /\ chan' = [chan EXCEPT ![c] = None]
    /\ srvPipe' = IF SrvReading \/ \E d \in Clients \ {c} : HoldsSrvFifo(d)
                    THEN srvPipe ELSE <<>>
    /\ UNCHANGED <<srvVars, srvFifo, len>>

\* open(SERVER_FIFO, O_WRONLY) with the server reading, or with no such FIFO.
ClientOpenServer(c) == /\ pc[c] = "openSrv"
                       /\ SrvReading
                       /\ pc' = [pc EXCEPT ![c] = "write"]
                       /\ UNCHANGED <<srvVars, srvFifo, srvPipe, len, fifo, chan, res>>

ClientNoServer(c) == /\ pc[c] = "openSrv"
                     /\ ~srvFifo
                     /\ EndClient(c, "failed")
                     /\ UNCHANGED res

\* write() of the request.  The client leaves SIGPIPE at its default: it is
\* killed when the server is not there to read.
ClientWrite(c) == /\ pc[c] = "write"
                  /\ SrvReading
                  /\ srvPipe' = Append(srvPipe, [pid |-> c, seqLen |-> len[c]])
                  /\ pc' = [pc EXCEPT ![c] = "openOwn"]
                  /\ UNCHANGED <<srvVars, srvFifo, len, fifo, chan, res>>

ClientSigpipe(c) == /\ pc[c] = "write"
                    /\ ~SrvReading
                    /\ EndClient(c, "killed")
                    /\ UNCHANGED res

\* read() of the response, printing it, and exit(0).
ClientRead(c) == /\ pc[c] = "read"
                 /\ chan[c] # None
                 /\ res' = [res EXCEPT ![c] = chan[c]]
                 /\ EndClient(c, "done")

\* read() returns 0: the server closed the FIFO without a response.
ClientReadEof(c) == /\ pc[c] = "read"
                    /\ chan[c] = None
                    /\ ~SrvWrites(c)
                    /\ EndClient(c, "failed")
                    /\ UNCHANGED res

Running(c) == pc[c] \notin {"done", "failed", "killed"}

\* A system call of c fails and c exits with an error.
ClientFail(c) == /\ c \in Mortal
                 /\ Running(c)
                 /\ EndClient(c, "failed")
                 /\ UNCHANGED res

ClientKill(c) == /\ c \in Mortal
                 /\ Running(c)
                 /\ EndClient(c, "killed")
                 /\ UNCHANGED res

-----------------------------------------------------------------------------
Server == \/ ServerStart \/ ServerOpenRd \/ ServerOpenDummy \/ ServerRead
          \/ ServerLookup \/ ServerWrite \/ ServerClose
          \/ \E c \in Clients : MeetAtServerFifo(c) \/ MeetAtClientFifo(c)

Client(c) == \/ ClientMkfifo(c) \/ ClientOpenServer(c) \/ ClientNoServer(c)
             \/ ClientWrite(c) \/ ClientSigpipe(c)
             \/ ClientRead(c) \/ ClientReadEof(c)

Fault == ServerDie \/ \E c \in Clients : ClientFail(c) \/ ClientKill(c)

Next == Server \/ Fault \/ \E c \in Clients : Client(c)

Spec == Init /\ [][Next]_vars

\* The kernel schedules every runnable process; faults need not happen.
FairSpec == Spec /\ WF_vars(Server) /\ \A c \in Clients : WF_vars(Client(c))

-----------------------------------------------------------------------------
(* Properties.                                                             *)

TypeOK == /\ srvPc \in SrvPcs
          /\ dummyFd \in BOOLEAN
          /\ seqNum \in Ints
          /\ req \in Request \cup {None}
          /\ Serving => req \in Request
          /\ srvFifo \in BOOLEAN
          /\ srvPipe \in Seq(Request)
          /\ epoch \in Nat
          /\ gen \in Nat
          /\ pc \in [Clients -> CliPcs]
          /\ len \in [Clients -> Lens]
          /\ fifo \in [Clients -> BOOLEAN]
          /\ chan \in [Clients -> Response \cup {None}]
          /\ res \in [Clients -> Response \cup {None}]

\* The response made for c, delivered or still in its FIFO.
Assigned(c) == IF res[c] # None THEN res[c] ELSE chan[c]

RangeOf(c) == Assigned(c).seqNum .. (Assigned(c).seqNum + len[c] - 1)

\* No number is handed to two clients while the counter only goes up (server.c
\* lines 65-71: it is read before and advanced after the response is written),
\* whoever dies in between.  Two clients are given the same number only when
\* the server was restarted between them, or served a negative length or one
\* that takes the counter beyond INT_MAX, which it does not refuse.
DisjointGrants ==
    \A c, d \in Clients :
        /\ c # d
        /\ Assigned(c) # None /\ Assigned(d) # None
        /\ Assigned(c).gen = Assigned(d).gen
        => RangeOf(c) \cap RangeOf(d) = {}

\* "open extra write FD so that reader never sees EOF" (server.c line 37):
\* a server in read() always has a writer, so it never spins at line 52.
NeverEOF == srvPc = "read" => SrvFifoHasWriter

\* A restarted server takes over the FIFO and what live clients left in it:
\* a request that was written and not yet read belongs to a client that may
\* still be waiting (client.c lines 59-65), and each client has at most one
\* request and one response in flight.
OneRequestPerClient ==
    /\ \A i, j \in 1..Len(srvPipe) : srvPipe[i].pid = srvPipe[j].pid => i = j
    /\ \A i \in 1..Len(srvPipe) :
         /\ Assigned(srvPipe[i].pid) = None
         /\ Serving => srvPipe[i].pid # req.pid

\* The refinement: the counter of the abstract allocator is the server's, and
\* moves up when the response is written; a negative length grants nothing.
PositiveLen(l) == IF l > 0 THEN l ELSE 0
BarNext == IF srvPc = "close" THEN seqNum + PositiveLen(req.seqLen) ELSE seqNum
BarAlloc == [c \in Clients |->
    IF Assigned(c) = None THEN None
    ELSE [first |-> Assigned(c).seqNum, len |-> PositiveLen(len[c]),
          epoch |-> Assigned(c).gen]]

\* The inductive invariant behind the properties above, in parts.
FdInv == srvPc = "read" \/ Serving => dummyFd

\* A response waits only for a client in read(), and is printed at most once.
ChanInv == \A c \in Clients :
    /\ chan[c] # None => pc[c] = "read"
    /\ res[c] # None => pc[c] = "done"
    /\ srvPc = "write" /\ req.pid = c => chan[c] = None

\* A request is as its client wrote it, and its client is where the request
\* is: not yet answered while the request waits or its FIFO is being opened.
Waiting == {"openOwn", "failed", "killed"}
FlightInv ==
    /\ \A i \in 1..Len(srvPipe) :
         /\ srvPipe[i].seqLen = len[srvPipe[i].pid]
         /\ pc[srvPipe[i].pid] \in Waiting
         /\ Serving => srvPipe[i].pid # req.pid
    /\ \A i, j \in 1..Len(srvPipe) : srvPipe[i].pid = srvPipe[j].pid => i = j
    /\ Serving => req.seqLen = len[req.pid]
    /\ srvPc \in {"lookup", "openClient"} => pc[req.pid] \in Waiting
    /\ srvPc \in {"write", "close"}
         => pc[req.pid] \in {"read", "done", "failed", "killed"}

\* Nobody is forgotten (client.c lines 53-76 against server.c lines 50-72):
\* until the server dies, a client that opens its FIFO has it, so the server
\* does not drop the request, and its request waits or is being served; and a
\* client in read() has its response or gets it with the server's next call,
\* so it never sees end of file.
Held(c) ==
    /\ pc[c] \in {"openSrv", "write", "openOwn", "read"} => fifo[c]
    /\ pc[c] = "openOwn" => \/ \E i \in 1..Len(srvPipe) : srvPipe[i].pid = c
                            \/ srvPc \in {"lookup", "openClient"} /\ req.pid = c
    /\ pc[c] = "read" => chan[c] # None \/ (srvPc = "write" /\ req.pid = c)
HeldInv == epoch = 0 => \A c \in Clients : Held(c)

\* What the proof of the refinement rests on: where a request is decides
\* where its client is, and a client is answered at most once.
IndInv == TypeOK /\ FdInv /\ ChanInv /\ FlightInv /\ HeldInv

Alloc == INSTANCE SeqAllocator
            WITH next <- BarNext, epoch <- gen, alloc <- BarAlloc

\* The service implements the allocator (server.c lines 50-72): the counter
\* goes back only at a restart of the server or with a length that sets it
\* back, and between two such steps the ranges of the answered clients follow
\* one another.
Refines == Alloc!AllocSpec

\* Nothing has failed so far.
Healthy == epoch = 0 /\ \A c \in Mortal : pc[c] \notin {"failed", "killed"}

\* A client that found the server's FIFO is answered, unless something fails
\* (client.c lines 53-76 against server.c lines 50-72): the blocking opens of
\* the two sides always meet.
Served == \A c \in Clients :
    (pc[c] = "openSrv" /\ srvFifo /\ Healthy) ~> (pc[c] = "done" \/ ~Healthy)

\* "if server has issues in opening a constructed client's FIFO, it
\* abandones that client request" (server.c line 6): the server never stays
\* in the open of line 58.
AbandonsClient == srvPc = "openClient" ~> srvPc # "openClient"
=============================================================================
