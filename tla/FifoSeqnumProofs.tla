-------------------------- MODULE FifoSeqnumProofs --------------------------
(***************************************************************************)
(* Proofs about the FIFO sequence-number service, for every set of clients *)
(* lengths (negative ones too) and any number of crashes: the invariant    *)
(* IndInv of FifoSeqnum is inductive, hence the ranges granted while the   *)
(* counter is not set back are disjoint, the server never sees end of      *)
(* file, and the service implements SeqAllocator.                          *)
(***************************************************************************)
EXTENDS FifoSeqnum, TLAPS

\* Ints are integers between the limits.
LEMMA IntsInt == \A x : x \in Ints <=> x \in Int /\ -INT_MAX - 1 <= x /\ x <= INT_MAX
  BY FifoAssumption DEF Ints

\* A request's length is an int (the clients' arguments).
LEMMA ReqLen == \A r \in Request :
                   r.seqLen \in Ints /\ r.seqLen \in Int /\ r.pid \in Clients
  <1>1. Lens \subseteq Ints
    BY FifoAssumption
  <1> QED
    BY <1>1, IntsInt DEF Request

\* What an addition leaves in an int is an int.
LEMMA WrapInt == \A x \in Int : Wrap(x) \in Ints
  <1> SUFFICES ASSUME NEW x \in Int PROVE Wrap(x) \in Ints
    OBVIOUS
  <1> DEFINE m == 2 * INT_MAX + 2
             y == x + INT_MAX + 1
  <1>1. INT_MAX \in Nat /\ m \in Nat /\ m > 0 /\ y \in Int
    BY FifoAssumption
  <1>2. \A a \in Int, b \in Nat : b > 0 => a % b \in 0..(b - 1)
    OBVIOUS
  <1>3. y % m \in 0..(m - 1)
    BY <1>1, <1>2
  <1>4. Wrap(x) = (y % m) - INT_MAX - 1
    BY DEF Wrap
  <1>5. \A a \in 0..(m - 1) : a - INT_MAX - 1 \in Ints
    BY <1>1, IntsInt
  <1> QED
    BY <1>3, <1>4, <1>5

\* An addition that stays within an int is the addition.
LEMMA WrapSame == \A x \in Ints : Wrap(x) = x
  <1> SUFFICES ASSUME NEW x \in Ints PROVE Wrap(x) = x
    OBVIOUS
  <1> DEFINE m == 2 * INT_MAX + 2
             y == x + INT_MAX + 1
  <1>1. INT_MAX \in Nat /\ m \in Nat /\ m > 0 /\ y \in 0..(m - 1)
    BY FifoAssumption, IntsInt
  <1>2. \A b \in Nat : \A a \in 0..(b - 1) : a % b = a
    OBVIOUS
  <1>3. y % m = y
    BY <1>1, <1>2
  <1>4. Wrap(x) = (y % m) - INT_MAX - 1
    BY DEF Wrap
  <1> QED
    BY <1>1, <1>3, <1>4, IntsInt

\* "No message" is neither a request nor a response.
LEMMA NoneNotMsg == None \notin Request /\ None \notin Response
  BY FifoAssumption DEF Request, Response

\* Init establishes the invariant: nothing has been asked or answered.
LEMMA InitInd == Init => IndInv
  <1> SUFFICES ASSUME Init PROVE IndInv
    OBVIOUS
  <1>1. TypeOK
    <2>1. /\ pc \in [Clients -> CliPcs] /\ len \in [Clients -> Lens]
          /\ chan \in [Clients -> Response \cup {None}]
          /\ res \in [Clients -> Response \cup {None}]
      BY DEF Init, CliPcs
    <2>2. fifo \in [Clients -> BOOLEAN]
      BY Zenon DEF Init
    <2>3. srvPipe \in Seq(Request)
      BY DEF Init
    <2>4. seqNum \in Ints
      BY FifoAssumption, IntsInt DEF Init
    <2> QED
      BY <2>1, <2>2, <2>3, <2>4 DEF Init, TypeOK, SrvPcs, Serving
  <1>2. \A c \in Clients : chan[c] = None /\ res[c] = None
    BY DEF Init
  <1>3. FdInv /\ ChanInv /\ FlightInv /\ HeldInv
    BY <1>2 DEF Init, FdInv, ChanInv, FlightInv, HeldInv, Held, Serving
  <1> QED
    BY <1>1, <1>3 DEF IndInv

\* Every step keeps the types.
LEMMA TypeStep == TypeOK /\ [Next]_vars => TypeOK'
  <1> SUFFICES ASSUME TypeOK, [Next]_vars PROVE TypeOK'
    OBVIOUS
  <1> USE DEF TypeOK, SrvPcs, CliPcs, Serving, cliVars, srvVars
  <1>1. CASE ServerStart
    BY <1>1 DEF ServerStart
  <1>2. CASE ServerOpenRd
    BY <1>2 DEF ServerOpenRd
  <1>3. CASE ServerOpenDummy
    BY <1>3 DEF ServerOpenDummy
  <1>4. CASE ServerRead
    BY <1>4 DEF ServerRead
  <1>5. CASE ServerLookup
    BY <1>5 DEF ServerLookup
  <1>6. CASE ServerWrite
    <2>1. [seqNum |-> seqNum, gen |-> gen] \in Response
      BY DEF Response
    <2>2. chan' \in [Clients -> Response \cup {None}]
      BY <1>6, <2>1 DEF ServerWrite
    <2> QED
      BY <1>6, <2>2 DEF ServerWrite
  <1>7. CASE ServerClose
    <2>1. seqNum' \in Ints /\ gen' \in Nat
      BY <1>7, ReqLen, WrapInt, IntsInt DEF ServerClose
    <2> QED
      BY <1>7, <2>1 DEF ServerClose
  <1>8. ASSUME NEW c \in Clients, MeetAtServerFifo(c) PROVE TypeOK'
    BY <1>8 DEF MeetAtServerFifo
  <1>9. ASSUME NEW c \in Clients, MeetAtClientFifo(c) PROVE TypeOK'
    BY <1>9 DEF MeetAtClientFifo
  <1>10. CASE ServerDie
    <2>1. srvPipe' \in Seq(Request)
      BY <1>10 DEF ServerDie
    <2>2. /\ srvPc' = "down" /\ dummyFd' = FALSE /\ seqNum' = 0 /\ req' = None
          /\ epoch' = epoch + 1 /\ gen' = gen + 1
      BY <1>10 DEF ServerDie
    <2>3. dummyFd' \in BOOLEAN
      BY Zenon, <2>2
    <2>4. UNCHANGED <<srvFifo, len, pc, fifo, chan, res>>
      BY <1>10 DEF ServerDie
    <2>5. seqNum' \in Ints
      BY <2>2, FifoAssumption, IntsInt
    <2> QED
      BY <2>1, <2>2, <2>3, <2>4, <2>5
  <1>11. ASSUME NEW c \in Clients, ClientMkfifo(c) PROVE TypeOK'
    BY <1>11 DEF ClientMkfifo
  <1>12. ASSUME NEW c \in Clients, ClientOpenServer(c) PROVE TypeOK'
    BY <1>12 DEF ClientOpenServer
  <1>13. ASSUME NEW c \in Clients, ClientWrite(c) PROVE TypeOK'
    BY <1>13 DEF ClientWrite, Request
  <1>14. ASSUME NEW c \in Clients, NEW how \in {"done", "failed", "killed"},
                EndClient(c, how), res' \in [Clients -> Response \cup {None}]
         PROVE  TypeOK'
    BY <1>14 DEF EndClient
  <1>15. ASSUME NEW c \in Clients, Client(c) PROVE TypeOK'
    BY <1>11, <1>12, <1>13, <1>14, <1>15
    DEF Client, ClientNoServer, ClientSigpipe, ClientRead, ClientReadEof
  <1>16. CASE Fault
    BY <1>10, <1>14, <1>16 DEF Fault, ClientFail, ClientKill
  <1>17. CASE UNCHANGED vars
    BY <1>17 DEF vars
  <1> QED
    BY <1>1, <1>2, <1>3, <1>4, <1>5, <1>6, <1>7, <1>8, <1>9, <1>15, <1>16, <1>17
    DEF Next, Server

\* The ways a client ends, in one place: c stops running in state "how".
Ends(c) == \E how \in {"done", "failed", "killed"} :
              /\ EndClient(c, how)
              /\ Running(c)
              /\ how = "done" => chan[c] # None /\ pc[c] = "read"
              /\ res' = IF how = "done" THEN [res EXCEPT ![c] = chan[c]] ELSE res

\* A step of the service is one of these, whatever ends a client.
LEMMA StepCases ==
  ASSUME [Next]_vars
  PROVE  \/ ServerStart \/ ServerOpenRd \/ ServerOpenDummy \/ ServerRead
         \/ ServerLookup \/ ServerWrite \/ ServerClose \/ ServerDie
         \/ \E c \in Clients : \/ MeetAtServerFifo(c) \/ MeetAtClientFifo(c)
                              \/ ClientMkfifo(c) \/ ClientOpenServer(c)
                              \/ ClientWrite(c) \/ Ends(c)
         \/ UNCHANGED vars
  BY DEF Next, Server, Client, Fault, Ends, ClientNoServer, ClientSigpipe,
         ClientRead, ClientReadEof, ClientFail, ClientKill, Running

\* The server holds its own write end from its first read() until it dies.
LEMMA FdStep == FdInv /\ [Next]_vars => FdInv'
  <1> SUFFICES ASSUME FdInv, [Next]_vars PROVE FdInv'
    OBVIOUS
  <1> USE DEF FdInv, Serving
  <1>1. ASSUME NEW c \in Clients,
               \/ MeetAtServerFifo(c) \/ MeetAtClientFifo(c) \/ ClientMkfifo(c)
               \/ ClientOpenServer(c) \/ ClientWrite(c) \/ Ends(c)
        PROVE  FdInv'
    BY <1>1 DEF MeetAtServerFifo, MeetAtClientFifo, ClientMkfifo,
       ClientOpenServer, ClientWrite, Ends, EndClient, srvVars
  <1>2. CASE \/ ServerStart \/ ServerOpenRd \/ ServerOpenDummy \/ ServerRead
             \/ ServerLookup \/ ServerWrite \/ ServerClose \/ ServerDie
    BY <1>2 DEF ServerStart, ServerOpenRd, ServerOpenDummy, ServerRead,
       ServerLookup, ServerWrite, ServerClose, ServerDie
  <1>3. CASE UNCHANGED vars
    BY <1>3 DEF vars
  <1> QED
    BY <1>1, <1>2, <1>3, StepCases

\* A response waits only for a client that is reading, and no client is
\* answered twice.
LEMMA ChanStep == TypeOK /\ ChanInv /\ [Next]_vars => ChanInv'
  <1> SUFFICES ASSUME TypeOK, ChanInv, [Next]_vars PROVE ChanInv'
    OBVIOUS
  <1> USE DEF TypeOK, ChanInv, cliVars, srvVars
  <1>1. CASE \/ ServerStart \/ ServerOpenRd \/ ServerOpenDummy \/ ServerRead
             \/ ServerLookup \/ ServerClose \/ ServerDie
    BY <1>1 DEF ServerStart, ServerOpenRd, ServerOpenDummy, ServerRead,
       ServerLookup, ServerClose, ServerDie
  <1>2. CASE ServerWrite
    BY <1>2 DEF ServerWrite, Serving
  <1>3. ASSUME NEW c \in Clients,
               MeetAtServerFifo(c) \/ ClientMkfifo(c) \/ ClientOpenServer(c)
        PROVE  ChanInv'
    BY <1>3 DEF MeetAtServerFifo, ClientMkfifo, ClientOpenServer
  <1>4. ASSUME NEW c \in Clients, MeetAtClientFifo(c) \/ ClientWrite(c)
        PROVE  ChanInv'
    BY <1>4 DEF MeetAtClientFifo, ClientWrite
  <1>5. ASSUME NEW c \in Clients, Ends(c) PROVE ChanInv'
    BY <1>5 DEF Ends, EndClient, Running
  <1>6. CASE UNCHANGED vars
    BY <1>6 DEF vars
  <1> QED
    BY <1>1, <1>2, <1>3, <1>4, <1>5, <1>6, StepCases

\* A request in the FIFO or in the server's hands keeps its place in the
\* protocol: this is where a second request of the same client would show.
LEMMA FlightStep == TypeOK /\ FlightInv /\ [Next]_vars => FlightInv'
  <1> SUFFICES ASSUME TypeOK, FlightInv, [Next]_vars PROVE FlightInv'
    OBVIOUS
  <1> USE DEF Waiting, Serving
  <1>0. /\ srvPipe \in Seq(Request)
        /\ \A i \in 1..Len(srvPipe) : srvPipe[i].pid \in Clients
        /\ Serving => req.pid \in Clients
        /\ pc \in [Clients -> CliPcs] /\ srvPc \in SrvPcs
    BY ReqLen DEF TypeOK
  <1>1. CASE ServerStart \/ ServerOpenRd \/ ServerOpenDummy
    BY <1>1 DEF ServerStart, ServerOpenRd, ServerOpenDummy, FlightInv, cliVars
  <1>2. CASE ServerRead
    <2>1. CASE srvPipe # <<>>
      <3>1. /\ req' = srvPipe[1] /\ Len(srvPipe') = Len(srvPipe) - 1
            /\ \A i \in 1..Len(srvPipe') : srvPipe'[i] = srvPipe[i + 1]
            /\ 1 \in 1..Len(srvPipe)
            /\ \A i \in 1..Len(srvPipe') : i + 1 \in 1..Len(srvPipe) /\ i + 1 # 1
        BY <1>0, <1>2, <2>1 DEF ServerRead
      <3>2. srvPc' = "lookup" /\ pc' = pc /\ len' = len
        BY <1>2, <2>1 DEF ServerRead, cliVars
      <3>3. /\ req'.seqLen = len[req'.pid]
            /\ pc[req'.pid] \in Waiting
        BY <3>1 DEF FlightInv
      <3>4. \A i \in 1..Len(srvPipe') :
              /\ srvPipe'[i].seqLen = len[srvPipe'[i].pid]
              /\ pc[srvPipe'[i].pid] \in Waiting
              /\ srvPipe'[i].pid # req'.pid
        BY <3>1, SMTT(20) DEF FlightInv
      <3>5. \A i, j \in 1..Len(srvPipe') :
              srvPipe'[i].pid = srvPipe'[j].pid => i = j
        <4>1. \A i, j \in 1..Len(srvPipe') :
                 srvPipe[i + 1].pid = srvPipe[j + 1].pid => i + 1 = j + 1
          BY <3>1 DEF FlightInv
        <4>2. \A i, j \in 1..Len(srvPipe') : i + 1 = j + 1 => i = j
          OBVIOUS
        <4> QED
          BY <3>1, <4>1, <4>2
      <3> QED
        BY <3>2, <3>3, <3>4, <3>5 DEF FlightInv
    <2>2. CASE srvPipe = <<>>
      BY <1>2, <2>2 DEF ServerRead, FlightInv, cliVars
    <2> QED
      BY <2>1, <2>2
  <1>3. CASE ServerLookup \/ ServerWrite \/ ServerClose
    BY <1>0, <1>3 DEF ServerLookup, ServerWrite, ServerClose, FlightInv, cliVars
  <1>4. CASE ServerDie
    BY <1>0, <1>4 DEF ServerDie, FlightInv, cliVars
  <1>5. ASSUME NEW c \in Clients,
               MeetAtServerFifo(c) \/ ClientMkfifo(c) \/ ClientOpenServer(c)
        PROVE  FlightInv'
    BY <1>0, <1>5 DEF MeetAtServerFifo, ClientMkfifo, ClientOpenServer,
       FlightInv, srvVars
  <1>6. ASSUME NEW c \in Clients, MeetAtClientFifo(c) PROVE FlightInv'
    BY <1>0, <1>6 DEF MeetAtClientFifo, FlightInv
  <1>7. ASSUME NEW c \in Clients, ClientWrite(c) PROVE FlightInv'
    <2> DEFINE r == [pid |-> c, seqLen |-> len[c]]
               n == Len(srvPipe) + 1
    <2>1. /\ srvPipe' = Append(srvPipe, r) /\ len' = len /\ srvPc' = srvPc
          /\ req' = req /\ pc[c] = "write" /\ pc' = [pc EXCEPT ![c] = "openOwn"]
      BY <1>7 DEF ClientWrite, srvVars
    <2>2. /\ Len(srvPipe') = n
          /\ \A i \in 1..Len(srvPipe) : srvPipe'[i] = srvPipe[i]
          /\ srvPipe'[n] = r
          /\ \A i \in 1..n : i \in 1..Len(srvPipe) \/ i = n
      BY <1>0, <2>1
    <2>3. \A i \in 1..Len(srvPipe) : srvPipe[i].pid # c
      BY <2>1 DEF FlightInv
    <2>4. Serving => req.pid # c
      BY <1>0, <2>1 DEF FlightInv, SrvPcs
    <2>5. r.pid = c /\ r.seqLen = len[c] /\ pc'[c] = "openOwn"
      BY <1>0, <2>1
    <2>6. \A d \in Clients \ {c} : pc'[d] = pc[d]
      BY <1>0, <2>1
    <2> HIDE DEF r, n
    <2>7. \A i \in 1..Len(srvPipe') :
             /\ srvPipe'[i].seqLen = len[srvPipe'[i].pid]
             /\ pc'[srvPipe'[i].pid] \in Waiting
             /\ Serving => srvPipe'[i].pid # req.pid
      BY <1>0, <2>2, <2>3, <2>4, <2>5, <2>6 DEF FlightInv
    <2>8. \A i, j \in 1..Len(srvPipe') :
             srvPipe'[i].pid = srvPipe'[j].pid => i = j
      BY <2>2, <2>3, <2>5 DEF FlightInv
    <2> QED
      BY <1>0, <2>1, <2>4, <2>6, <2>7, <2>8 DEF FlightInv
  <1>8. ASSUME NEW c \in Clients, Ends(c) PROVE FlightInv'
    <2>1. PICK how \in {"done", "failed", "killed"} :
             /\ pc' = [pc EXCEPT ![c] = how]
             /\ how = "done" => pc[c] = "read"
             /\ Running(c)
      BY <1>8 DEF Ends, EndClient
    <2>2. /\ srvPc' = srvPc /\ req' = req /\ len' = len
          /\ srvPipe' = srvPipe \/ srvPipe' = <<>>
      BY <1>8 DEF Ends, EndClient, srvVars
    <2>3. \A d \in Clients : pc[d] \in Waiting => pc'[d] \in Waiting
      BY <1>0, <2>1
    <2>4. srvPc \in {"write", "close"}
            => pc'[req.pid] \in {"read", "done", "failed", "killed"}
      BY <1>0, <2>1 DEF FlightInv
    <2>5. CASE srvPipe' = srvPipe
      BY <1>0, <2>2, <2>3, <2>4, <2>5 DEF FlightInv
    <2>6. CASE srvPipe' = <<>>
      BY <1>0, <2>2, <2>3, <2>4, <2>6 DEF FlightInv
    <2> QED
      BY <2>2, <2>5, <2>6
  <1>9. CASE UNCHANGED vars
    BY <1>9 DEF vars, FlightInv
  <1> QED
    BY <1>1, <1>2, <1>3, <1>4, <1>5, <1>6, <1>7, <1>8, <1>9, StepCases

\* Until the server dies it forgets nobody: a request leaves the FIFO only into
\* the server's hands, the FIFO of its client is there when it is looked up,
\* and the client that meets the server's open() is the next to be answered.
LEMMA HeldStep == IndInv /\ [Next]_vars => HeldInv'
  <1> SUFFICES ASSUME IndInv, [Next]_vars, epoch' = 0, NEW d \in Clients
               PROVE  Held(d)'
    BY DEF HeldInv
  <1>0. /\ srvPipe \in Seq(Request) /\ epoch \in Nat
        /\ \A i \in 1..Len(srvPipe) : srvPipe[i].pid \in Clients
        /\ Serving => req.pid \in Clients
        /\ pc \in [Clients -> CliPcs] /\ srvPc \in SrvPcs
        /\ fifo \in [Clients -> BOOLEAN]
        /\ chan \in [Clients -> Response \cup {None}]
    BY ReqLen DEF IndInv, TypeOK
  <1>1. epoch = 0 /\ ~ServerDie
    <2>1. ~ServerDie
      BY <1>0 DEF ServerDie
    <2>2. ASSUME NEW c \in Clients,
                 \/ MeetAtServerFifo(c) \/ MeetAtClientFifo(c) \/ ClientMkfifo(c)
                 \/ ClientOpenServer(c) \/ ClientWrite(c) \/ Ends(c)
          PROVE  epoch' = epoch
      BY <2>2 DEF MeetAtServerFifo, MeetAtClientFifo, ClientMkfifo, ClientOpenServer,
                  ClientWrite, Ends, EndClient, srvVars
    <2>3. ASSUME \/ ServerStart \/ ServerOpenRd \/ ServerOpenDummy \/ ServerRead
                 \/ ServerLookup \/ ServerWrite \/ ServerClose \/ UNCHANGED vars
          PROVE  epoch' = epoch
      BY <2>3 DEF ServerStart, ServerOpenRd, ServerOpenDummy, ServerRead, ServerLookup,
                  ServerWrite, ServerClose, vars
    <2> QED
      BY <2>1, <2>2, <2>3, StepCases
  <1>2. Held(d)
    BY <1>1 DEF IndInv, HeldInv
  <1> USE DEF Held
  <1>3. CASE ServerStart \/ ServerOpenRd \/ ServerOpenDummy \/ ServerClose
    BY <1>2, <1>3 DEF ServerStart, ServerOpenRd, ServerOpenDummy, ServerClose, cliVars
  <1>4. CASE ServerRead
    <2>1. CASE srvPipe # <<>>
      <3>0. req' = Head(srvPipe) /\ srvPipe' = Tail(srvPipe)
        BY <1>4, <2>1 DEF ServerRead
      <3>1. /\ req' = srvPipe[1] /\ Len(srvPipe') = Len(srvPipe) - 1
            /\ Len(srvPipe) \in Nat
            /\ \A i \in 1..Len(srvPipe') : srvPipe'[i] = srvPipe[i + 1]
        BY <1>0, <2>1, <3>0
      <3>2. srvPc = "read" /\ srvPc' = "lookup" /\ UNCHANGED <<pc, fifo, chan>>
        BY <1>4, <2>1 DEF ServerRead, cliVars
      <3>3. ASSUME NEW i \in 1..Len(srvPipe), srvPipe[i].pid = d
            PROVE  req'.pid = d \/ \E k \in 1..Len(srvPipe') : srvPipe'[k].pid = d
        <4>1. CASE i = 1
          BY <3>1, <3>3, <4>1
        <4>2. CASE i # 1
          <5>1. i - 1 \in 1..Len(srvPipe') /\ (i - 1) + 1 = i
            BY <3>1, <4>2
          <5>2. srvPipe'[i - 1] = srvPipe[i]
            BY <3>1, <5>1
          <5> QED
            BY <3>3, <5>1, <5>2
        <4> QED
          BY <4>1, <4>2
      <3> QED
        BY <1>2, <3>2, <3>3
    <2>2. CASE srvPipe = <<>>
      BY <1>2, <1>4, <2>2 DEF ServerRead, cliVars
    <2> QED
      BY <2>1, <2>2
  <1>5. CASE ServerLookup
    <2>1. srvPc = "lookup" /\ UNCHANGED <<pc, fifo, chan, srvPipe, req>>
          /\ srvPc' = IF fifo[req.pid] THEN "openClient" ELSE "read"
      BY <1>5 DEF ServerLookup, cliVars
    <2>2. pc[d] = "openOwn" /\ req.pid = d => srvPc' = "openClient"
      BY <1>2, <2>1
    <2> QED
      BY <1>2, <2>1, <2>2
  <1>6. CASE ServerWrite
    <2>1. srvPc = "write" /\ UNCHANGED <<pc, fifo, srvPipe, req>>
      BY <1>6 DEF ServerWrite
    <2>2. pc[d] = "read" => chan'[d] # None
      <3> DEFINE m == [seqNum |-> seqNum, gen |-> gen]
      <3>1. m # None
        BY NoneNotMsg DEF IndInv, TypeOK, Response
      <3> HIDE DEF m
      <3>2. chan' = IF pc[req.pid] = "read" THEN [chan EXCEPT ![req.pid] = m] ELSE chan
        BY <1>6 DEF ServerWrite, m
      <3> QED
        BY <1>0, <1>2, <3>1, <3>2
    <2> QED
      BY <1>2, <2>1, <2>2
  <1>7. ASSUME NEW c \in Clients, MeetAtServerFifo(c) \/ ClientOpenServer(c)
        PROVE  Held(d)'
    BY <1>0, <1>2, <1>7 DEF MeetAtServerFifo, ClientOpenServer, srvVars
  <1>8. ASSUME NEW c \in Clients, ClientMkfifo(c)
        PROVE  Held(d)'
    BY <1>0, <1>2, <1>8 DEF ClientMkfifo, srvVars
  <1>9. ASSUME NEW c \in Clients, MeetAtClientFifo(c)
        PROVE  Held(d)'
    BY <1>0, <1>2, <1>9 DEF MeetAtClientFifo
  <1>10. ASSUME NEW c \in Clients, ClientWrite(c)
        PROVE  Held(d)'
    <2> DEFINE r == [pid |-> c, seqLen |-> len[c]]
    <2>1. /\ srvPipe' = Append(srvPipe, r) /\ UNCHANGED <<srvPc, req, fifo, chan>>
          /\ pc[c] = "write" /\ pc' = [pc EXCEPT ![c] = "openOwn"] /\ r.pid = c
      BY <1>10 DEF ClientWrite, srvVars
    <2> HIDE DEF r
    <2>2. /\ Len(srvPipe') = Len(srvPipe) + 1 /\ Len(srvPipe) \in Nat
          /\ \A i \in 1..Len(srvPipe) : srvPipe'[i] = srvPipe[i]
          /\ srvPipe'[Len(srvPipe) + 1] = r
      BY <1>0, <2>1
    <2>3. pc'[d] = "openOwn" => pc[d] = "openOwn" \/ d = c
      BY <1>0, <2>1
    <2>4. d = c => \E i \in 1..Len(srvPipe') : srvPipe'[i].pid = d
      BY <2>1, <2>2
    <2> QED
      BY <1>0, <1>2, <2>1, <2>2, <2>3, <2>4
  <1>11. ASSUME NEW c \in Clients, Ends(c)
        PROVE  Held(d)'
    <2>1. CASE d = c
      BY <1>0, <1>11, <2>1 DEF Ends, EndClient
    <2>2. CASE d # c
      <3>1. pc'[d] = pc[d] /\ fifo'[d] = fifo[d] /\ chan'[d] = chan[d]
        BY <1>0, <1>11, <2>2 DEF Ends, EndClient
      <3>2. UNCHANGED <<srvPc, req>>
        BY <1>11 DEF Ends, EndClient, srvVars
      <3>3. pc[d] = "openOwn" => srvPipe' = srvPipe
        BY <1>11, <2>2 DEF Ends, EndClient, HoldsSrvFifo
      <3> QED
        BY <1>2, <3>1, <3>2, <3>3
    <2> QED
      BY <2>1, <2>2
  <1>12. CASE UNCHANGED vars
    BY <1>2, <1>12 DEF vars
  <1> QED
    BY <1>1, <1>3, <1>4, <1>5, <1>6, <1>7, <1>8, <1>9, <1>10, <1>11, <1>12, StepCases

\* The invariant holds in every state of the service.
THEOREM IndInvariant == Spec => []IndInv
  <1>1. IndInv /\ [Next]_vars => IndInv'
    BY TypeStep, FdStep, ChanStep, FlightStep, HeldStep DEF IndInv
  <1> QED
    BY InitInd, <1>1, PTL DEF Spec

\* Until the server dies no client waits in vain: its request is in the FIFO or
\* in the server's hands, and its read() meets the response, never end of file
\* (client.c lines 53-76 against server.c lines 50-72).
THEOREM NobodyForgotten == Spec => []HeldInv
  <1>1. IndInv => HeldInv
    BY DEF IndInv
  <1> QED
    BY IndInvariant, <1>1, PTL

\* The server never sees end of file on its FIFO, whoever dies.
THEOREM ServerNeverEOF == Spec => []NeverEOF
  <1>1. IndInv => NeverEOF
    BY DEF IndInv, FdInv, NeverEOF, SrvFifoHasWriter
  <1> QED
    BY IndInvariant, <1>1, PTL

\* A client has at most one request in the FIFO and one answer.
THEOREM AtMostOneRequest == Spec => []OneRequestPerClient
  <1>1. ASSUME IndInv PROVE OneRequestPerClient
    <2>1. \A i \in 1..Len(srvPipe) : srvPipe[i].pid \in Clients
      BY <1>1, ReqLen DEF IndInv, TypeOK
    <2>2. \A c \in Clients : pc[c] \in Waiting => Assigned(c) = None
      BY <1>1 DEF IndInv, ChanInv, Assigned, Waiting
    <2> QED
      BY <1>1, <2>1, <2>2 DEF IndInv, FlightInv, OneRequestPerClient
  <1> QED
    BY IndInvariant, <1>1, PTL

-----------------------------------------------------------------------------
(* The refinement. *)

\* The abstract range of c is a function of c's answer.
Bar(c) == IF Assigned(c) = None THEN None
          ELSE [first |-> Assigned(c).seqNum, len |-> PositiveLen(len[c]),
                epoch |-> Assigned(c).gen]

\* A step that touches neither the answers nor the counter is a stutter of
\* the allocator.
LEMMA StutterStep ==
  ASSUME UNCHANGED <<chan, res, len, gen>>, BarNext' = BarNext
  PROVE  UNCHANGED Alloc!avars
  <1>1. BarAlloc' = BarAlloc
    BY DEF BarAlloc, Assigned
  <1> QED
    BY <1>1 DEF Alloc!avars

\* The server's write() allocates the range of a client that is still
\* reading, and burns the range of one that is gone.
LEMMA WriteStep ==
  ASSUME IndInv, ServerWrite
  PROVE  Alloc!AllocNext
  <1> DEFINE g == [seqNum |-> seqNum, gen |-> gen]
  <1>0. PICK c \in Clients : c = req.pid
    BY ReqLen DEF IndInv, TypeOK, ServerWrite, Serving
  <1>1. /\ c \in Clients /\ req.seqLen = len[c] /\ req.seqLen \in Int
        /\ seqNum \in Ints /\ seqNum \in Int /\ chan[c] = None /\ gen \in Nat
        /\ chan \in [Clients -> Response \cup {None}]
    BY <1>0, ReqLen, IntsInt
    DEF IndInv, TypeOK, ChanInv, FlightInv, ServerWrite, Serving
  <1>2. BarNext = seqNum /\ BarNext' = seqNum + PositiveLen(len[c])
    BY <1>1 DEF ServerWrite, BarNext
  <1>3. BarNext' \in Int /\ BarNext' >= BarNext /\ BarNext' - BarNext = PositiveLen(len[c])
    <2>1. \A a \in Int, b \in Nat : a + b \in Int /\ a + b >= a /\ (a + b) - a = b
      OBVIOUS
    <2>2. PositiveLen(len[c]) \in Nat
      BY <1>1 DEF PositiveLen
    <2> QED
      BY <1>1, <1>2, <2>1, <2>2
  <1>4. CASE pc[c] = "read"
    <2>1. chan' = [chan EXCEPT ![c] = g] /\ res' = res /\ len' = len /\ gen' = gen
      BY <1>0, <1>4 DEF ServerWrite
    <2>2. res[c] = None
      BY <1>1, <1>4 DEF IndInv, ChanInv
    <2>3. Assigned(c) = None /\ Assigned(c)' = g
      BY <1>1, <2>1, <2>2 DEF Assigned
    <2>4. \A d \in Clients \ {c} : Assigned(d)' = Assigned(d)
      BY <1>1, <2>1 DEF Assigned
    <2>5. g # None /\ g.seqNum = seqNum /\ g.gen = gen
      BY <1>1, NoneNotMsg DEF Response
    <2> HIDE DEF g
    <2>6. BarAlloc[c] = None
      BY <1>1, <2>3 DEF BarAlloc
    <2>7. BarAlloc' = [BarAlloc EXCEPT ![c] =
                 [first |-> BarNext, len |-> BarNext' - BarNext, epoch |-> gen]]
      <3>1. BarAlloc = [d \in Clients |-> Bar(d)]
        BY DEF BarAlloc, Bar
      <3>2. BarAlloc' = [d \in Clients |-> Bar(d)']
        BY DEF BarAlloc, Bar
      <3>3. \A d \in Clients \ {c} : Bar(d)' = Bar(d)
        BY <2>1, <2>4 DEF Bar
      <3>4. Bar(c)' = [first |-> BarNext, len |-> BarNext' - BarNext, epoch |-> gen]
        BY <1>2, <1>3, <2>1, <2>3, <2>5 DEF Bar
      <3> QED
        BY <1>1, <3>1, <3>2, <3>3, <3>4
    <2>8. Alloc!Allocate(c)
      BY <1>3, <2>1, <2>6, <2>7 DEF Alloc!Allocate
    <2> QED
      BY <1>1, <2>8 DEF Alloc!AllocNext
  <1>5. CASE pc[c] # "read"
    <2>1. UNCHANGED <<chan, res, len, gen>>
      BY <1>0, <1>5 DEF ServerWrite
    <2>2. BarAlloc' = BarAlloc
      BY <2>1 DEF BarAlloc, Assigned
    <2> QED
      BY <1>3, <2>1, <2>2 DEF Alloc!AllocNext, Alloc!Burn
  <1> QED
    BY <1>4, <1>5

\* A client that ends with its answer printed keeps its range; one that
\* fails or is killed forgets it.
LEMMA EndStep ==
  ASSUME IndInv, NEW c \in Clients, Ends(c)
  PROVE  [Alloc!AllocNext]_(Alloc!avars)
  <1>1. PICK how \in {"done", "failed", "killed"} :
           /\ EndClient(c, how)
           /\ Running(c)
           /\ how = "done" => chan[c] # None /\ pc[c] = "read"
           /\ res' = IF how = "done" THEN [res EXCEPT ![c] = chan[c]] ELSE res
    BY DEF Ends
  <1>2. /\ res[c] = None
        /\ chan' = [chan EXCEPT ![c] = None]
        /\ UNCHANGED <<seqNum, req, srvPc, len, gen>>
        /\ chan \in [Clients -> Response \cup {None}]
        /\ res \in [Clients -> Response \cup {None}]
    BY <1>1 DEF EndClient, srvVars, IndInv, ChanInv, Running, TypeOK
  <1>3. BarNext' = BarNext
    BY <1>2 DEF BarNext
  <1>4. \A d \in Clients \ {c} : Assigned(d)' = Assigned(d)
    BY <1>1, <1>2 DEF Assigned
  <1>5. /\ BarAlloc = [d \in Clients |-> Bar(d)]
        /\ BarAlloc' = [d \in Clients |-> Bar(d)']
    BY DEF BarAlloc, Bar
  <1>6. \A d \in Clients \ {c} : Bar(d)' = Bar(d)
    BY <1>2, <1>4 DEF Bar
  <1>7. CASE how = "done"
    <2>1. Assigned(c)' = Assigned(c)
      BY <1>1, <1>2, <1>7 DEF Assigned
    <2>2. Bar(c)' = Bar(c)
      BY <1>2, <2>1 DEF Bar
    <2> QED
      BY <1>2, <1>3, <1>5, <1>6, <2>2 DEF Alloc!avars
  <1>8. CASE how # "done"
    <2>1. Assigned(c)' = None
      BY <1>1, <1>2, <1>8 DEF Assigned
    <2>2. Bar(c)' = None
      BY <2>1 DEF Bar
    <2>3. BarAlloc' = [BarAlloc EXCEPT ![c] = None]
      BY <1>5, <1>6, <2>2
    <2> QED
      BY <1>2, <1>3, <2>3 DEF Alloc!AllocNext, Alloc!Forget
  <1> QED
    BY <1>7, <1>8

\* close() of a response: nothing to the allocator, which moved with the
\* write(), unless the length sets the counter back.
LEMMA CloseStep ==
  ASSUME IndInv, ServerClose
  PROVE  [Alloc!AllocNext]_(Alloc!avars)
  <1>1. /\ req.seqLen \in Int /\ seqNum \in Ints /\ seqNum \in Int
        /\ seqNum' = Wrap(seqNum + req.seqLen)
        /\ gen' = IF SetsBack THEN gen + 1 ELSE gen
        /\ UNCHANGED <<chan, res, len>>
    BY ReqLen, IntsInt DEF IndInv, TypeOK, ServerClose, Serving, cliVars
  <1>2. BarNext' = seqNum' /\ BarNext = seqNum + PositiveLen(req.seqLen)
    BY DEF ServerClose, BarNext
  <1>3. CASE SetsBack
    <2>1. BarNext' \in Int
      BY <1>1, <1>2, WrapInt, IntsInt
    <2>2. BarAlloc' = BarAlloc
      BY <1>1 DEF BarAlloc, Assigned
    <2> QED
      BY <1>1, <1>3, <2>1, <2>2 DEF Alloc!AllocNext, Alloc!Restart
  <1>4. CASE ~SetsBack
    <2>1. PositiveLen(req.seqLen) = req.seqLen /\ seqNum + req.seqLen \in Ints
      BY <1>1, <1>4, FifoAssumption, IntsInt DEF SetsBack, PositiveLen
    <2>2. BarNext' = BarNext
      BY <1>1, <1>2, <2>1, WrapSame
    <2> QED
      BY <1>1, <1>4, <2>2, StutterStep
  <1> QED
    BY <1>3, <1>4

\* The service implements the allocator: every step of the server and of the
\* clients, crashes and lengths that set the counter back included, is an allocation, a burnt range, a forgotten
\* answer, a restart, or nothing to it.
THEOREM RefinesAllocator == Spec => Refines
  <1>1. Init => Alloc!AllocInit
    BY DEF Init, Alloc!AllocInit, BarNext, BarAlloc, Assigned
  <1>2. IndInv /\ [Next]_vars => [Alloc!AllocNext]_(Alloc!avars)
    <2> SUFFICES ASSUME IndInv, [Next]_vars
                 PROVE  [Alloc!AllocNext]_(Alloc!avars)
      OBVIOUS
    <2>1. CASE \/ ServerStart \/ ServerOpenRd \/ ServerOpenDummy \/ ServerRead
               \/ ServerLookup
      <3>1. BarNext' = BarNext
        BY <2>1 DEF ServerStart, ServerOpenRd, ServerOpenDummy, ServerRead,
           ServerLookup, BarNext
      <3> QED
        BY <2>1, <3>1, StutterStep DEF ServerStart, ServerOpenRd,
           ServerOpenDummy, ServerRead, ServerLookup, cliVars
    <2>2. CASE ServerWrite
      BY <2>2, WriteStep
    <2>7. CASE ServerClose
      BY <2>7, CloseStep
    <2>3. CASE ServerDie
      <3>1. BarNext' = 0 /\ gen' = gen + 1 /\ UNCHANGED <<chan, res, len>>
        BY <2>3 DEF ServerDie, BarNext, cliVars
      <3>2. BarAlloc' = BarAlloc
        BY <3>1 DEF BarAlloc, Assigned
      <3> QED
        BY <3>1, <3>2 DEF Alloc!AllocNext, Alloc!Restart
    <2>4. ASSUME NEW c \in Clients,
                 \/ MeetAtServerFifo(c) \/ MeetAtClientFifo(c) \/ ClientMkfifo(c)
                 \/ ClientOpenServer(c) \/ ClientWrite(c)
          PROVE  [Alloc!AllocNext]_(Alloc!avars)
      <3>1. BarNext' = BarNext
        BY <2>4 DEF MeetAtServerFifo, MeetAtClientFifo, ClientMkfifo,
           ClientOpenServer, ClientWrite, srvVars, BarNext
      <3> QED
        BY <2>4, <3>1, StutterStep DEF MeetAtServerFifo, MeetAtClientFifo,
           ClientMkfifo, ClientOpenServer, ClientWrite, srvVars
    <2>5. ASSUME NEW c \in Clients, Ends(c)
          PROVE  [Alloc!AllocNext]_(Alloc!avars)
      BY <2>5, EndStep
    <2>6. CASE UNCHANGED vars
      <3>1. BarNext' = BarNext
        BY <2>6 DEF vars, BarNext
      <3> QED
        BY <2>6, <3>1, StutterStep DEF vars
    <2> QED
      BY <2>1, <2>2, <2>3, <2>4, <2>5, <2>6, <2>7, StepCases
  <1> QED
    BY IndInvariant, <1>1, <1>2, PTL DEF Spec, Refines, Alloc!AllocSpec

\* No number is handed to two clients while the counter is not set back, by a
\* restart, a negative length or one beyond INT_MAX: the allocator's theorem,
\* read through the refinement.
THEOREM GrantsDisjoint == Spec => []DisjointGrants
  <1>1. ASSUME TypeOK, Alloc!AllocInv PROVE DisjointGrants
    <2> SUFFICES ASSUME NEW c \in Clients, NEW d \in Clients, c # d,
                        Assigned(c) # None, Assigned(d) # None,
                        Assigned(c).gen = Assigned(d).gen
                 PROVE  RangeOf(c) \cap RangeOf(d) = {}
      BY DEF DisjointGrants
    <2>1. /\ Assigned(c).seqNum \in Int /\ Assigned(d).seqNum \in Int
          /\ len[c] \in Int /\ len[d] \in Int
      <3>1. Lens \subseteq Int
        BY FifoAssumption, IntsInt
      <3>2. Assigned(c) \in Response /\ Assigned(d) \in Response
        BY <1>1 DEF TypeOK, Assigned
      <3> QED
        BY <1>1, <3>1, <3>2, IntsInt DEF TypeOK, Response
    <2> DEFINE g(x) == [first |-> Assigned(x).seqNum, len |-> PositiveLen(len[x]),
                        epoch |-> Assigned(x).gen]
    <2>2. /\ Assigned(c).gen \in Nat /\ Assigned(d).gen \in Nat
          /\ PositiveLen(len[c]) \in Nat /\ PositiveLen(len[d]) \in Nat
      BY <1>1, <2>1 DEF TypeOK, Assigned, Response, PositiveLen
    <2>3. g(c) # None /\ g(d) # None
      <3>1. None \notin [first : Int, len : Nat, epoch : Nat]
        BY FifoAssumption
      <3>2. /\ g(c) \in [first : Int, len : Nat, epoch : Nat]
            /\ g(d) \in [first : Int, len : Nat, epoch : Nat]
        BY <2>1, <2>2
      <3> QED
        BY <3>1, <3>2
    <2>4. BarAlloc[c] = g(c) /\ BarAlloc[d] = g(d)
      BY DEF BarAlloc
    <2>5. /\ BarAlloc[c] # None /\ BarAlloc[d] # None
          /\ BarAlloc[c].epoch = BarAlloc[d].epoch
          /\ BarAlloc[c].first = Assigned(c).seqNum /\ BarAlloc[c].len = PositiveLen(len[c])
          /\ BarAlloc[d].first = Assigned(d).seqNum /\ BarAlloc[d].len = PositiveLen(len[d])
      BY <2>3, <2>4
    <2>6. \/ Assigned(c).seqNum + PositiveLen(len[c]) <= Assigned(d).seqNum
          \/ Assigned(d).seqNum + PositiveLen(len[d]) <= Assigned(c).seqNum
      BY <1>1, <2>5 DEF Alloc!AllocInv, Alloc!NoOverlap
    <2> QED
      BY <2>1, <2>6 DEF RangeOf, PositiveLen
  <1>2. Refines => []Alloc!AllocInv
    BY Alloc!AllocSafe, PTL DEF Refines
  <1> QED
    BY IndInvariant, RefinesAllocator, <1>1, <1>2, PTL DEF IndInv
=============================================================================
