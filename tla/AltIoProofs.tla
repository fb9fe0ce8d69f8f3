---------------------------- MODULE AltIoProofs ----------------------------
(***************************************************************************)
(* The programs that wait for input by an event interface: what their run  *)
(* checks, for every value of the constants.  x1, x2, ... are the          *)
(* variables of demo_sigio, in the order in which its module declares them.*)
(***************************************************************************)
EXTENDS MCAltIo, Sequences, FiniteSetTheorems, WellFoundedInduction, TLAPS

-----------------------------------------------------------------------------
(* The event loop of epoll_input works on a snapshot that writers outdate: *)
(* for any number of files, events per call, buffer size and writers, what *)
(* the loop does with it is right.                                         *)

\* The descriptors are finitely many, and closing an open one is one less.
LEMMA ClosingOne == TypeOK =>
    /\ IsFiniteSet(open)
    /\ \A f \in open : Cardinality(open \ {f}) = Cardinality(open) - 1
  <1> SUFFICES ASSUME TypeOK
               PROVE  /\ IsFiniteSet(open)
                      /\ \A f \in open : Cardinality(open \ {f}) = Cardinality(open) - 1
    OBVIOUS
  <1>1. IsFiniteSet(Files)
    BY FS_Interval, EpollAssumption DEF Files
  <1>2. open \in SUBSET Files
    BY DEF TypeOK
  <1>3. IsFiniteSet(open)
    BY <1>1, <1>2, FS_Subset
  <1> QED
    BY <1>3, FS_RemoveElement

LEMMA InitInd == Init => IndInv
  BY EpollAssumption DEF Init, IndInv, SnapshotValid, TypeOK, CountsOpen,
     ReadsSomething, HangUpIsFinal, AllConsumed, Opening, Files

\* The values keep their types.
LEMMA TypeStep == IndInv /\ [Next]_vars => TypeOK'
  <1> SUFFICES ASSUME IndInv, [Next]_vars PROVE TypeOK'
    OBVIOUS
  <1>a. TypeOK
    BY DEF IndInv, SnapshotValid
  <1> USE EpollAssumption DEF Files
  <1>1. CASE Open
    <2>1. j \in Files /\ j' = j + 1 /\ open' = open \cup {j}
      BY <1>a, <1>1 DEF Open, TypeOK
    <2>2. writer' \in [Files -> BOOLEAN]
      BY <1>a, <1>1, <2>1 DEF Open, TypeOK
    <2>3. lives' \in [Files -> Nat]
      BY <1>a, <1>1, <2>1 DEF Open, TypeOK
    <2>4. j' \in 1..NumFiles + 1
      BY <2>1
    <2>5. open' \subseteq Files
      BY <1>a, <2>1 DEF TypeOK
    <2>6. UNCHANGED <<pc, evlist, numOpenFds, written, consumed>>
      BY <1>1 DEF Open
    <2> QED
      BY <1>a, <2>2, <2>3, <2>4, <2>5, <2>6 DEF TypeOK
  <1>2. CASE OpenedAll
    BY <1>a, <1>2 DEF OpenedAll, writerVars, TypeOK
  <1>3. CASE EpollWait
    <2>1. PICK S \in SUBSET Ready : evlist' = {Event(f) : f \in S}
      BY <1>3 DEF EpollWait
    <2>2. \A f \in S : Event(f) \in [fd : Files, in : BOOLEAN, hup : BOOLEAN]
      BY <1>a, <2>1 DEF Event, Ready, HangUp, Data, TypeOK
    <2>3. evlist' \subseteq [fd : Files, in : BOOLEAN, hup : BOOLEAN]
      BY <2>1, <2>2
    <2> QED
      BY <1>a, <1>3, <2>3 DEF EpollWait, writerVars, TypeOK
  <1>4. CASE HandledAll
    BY <1>a, <1>4 DEF HandledAll, writerVars, TypeOK
  <1>5. ASSUME NEW e \in evlist, HandleIn(e) PROVE TypeOK'
    <2>0. e.fd \in Files /\ consumed \in [Files -> Nat] /\ written \in [Files -> Nat]
          /\ consumed[e.fd] <= written[e.fd]
      BY <1>a DEF TypeOK
    <2>1. Data(e.fd) \in Nat
      BY <2>0 DEF Data
    <2>2. (IF Data(e.fd) < MaxBuf THEN Data(e.fd) ELSE MaxBuf) \in 0..Data(e.fd)
      BY <2>1
    <2>3. PICK n \in 0..Data(e.fd) : consumed' = [consumed EXCEPT ![e.fd] = @ + n]
      BY <1>5, <2>2 DEF HandleIn
    <2>4. consumed' \in [Files -> Nat]
      BY <2>0, <2>1, <2>3
    <2>5. \A f \in Files : consumed'[f] <= written[f]
      BY <1>a, <2>0, <2>1, <2>3 DEF Data, TypeOK
    <2>6. evlist' \subseteq evlist /\ UNCHANGED <<pc, j, open, numOpenFds, writerVars>>
      BY <1>5 DEF HandleIn
    <2> QED
      BY <1>a, <2>4, <2>5, <2>6 DEF writerVars, TypeOK
  <1>6. ASSUME NEW e \in evlist, HandleHup(e) PROVE TypeOK'
    <2>1. evlist' \subseteq evlist /\ open' \subseteq open /\ UNCHANGED <<pc, j, writerVars, consumed>>
      BY <1>6 DEF HandleHup
    <2>2. numOpenFds' \in Int
      BY <1>a, <1>6 DEF HandleHup, TypeOK
    <2> QED
      BY <1>a, <2>1, <2>2 DEF writerVars, TypeOK
  <1>7. ASSUME NEW f \in Files, WriterOpen(f) PROVE TypeOK'
    <2>1. writer' \in [Files -> BOOLEAN]
      BY <1>a, <1>7 DEF WriterOpen, TypeOK
    <2>2. lives' \in [Files -> Nat]
      BY <1>a, <1>7, SMTT(20) DEF WriterOpen, TypeOK
    <2> QED
      BY <1>a, <1>7, <2>1, <2>2 DEF WriterOpen, TypeOK
  <1>8. ASSUME NEW f \in Files, Write(f) PROVE TypeOK'
    <2>1. written' \in [Files -> Nat]
      BY <1>a, <1>8, SMTT(20) DEF Write, TypeOK
    <2>2. \A g \in Files : consumed'[g] <= written'[g]
      BY <1>a, <1>8 DEF Write, TypeOK
    <2> QED
      BY <1>a, <1>8, <2>1, <2>2 DEF Write, TypeOK
  <1>9. ASSUME NEW f \in Files, WriterClose(f) PROVE TypeOK'
    BY <1>a, <1>9 DEF WriterClose, TypeOK
  <1>10. CASE UNCHANGED vars
    BY <1>a, <1>10 DEF vars, TypeOK
  <1> QED
    BY <1>1, <1>2, <1>3, <1>4, <1>5, <1>6, <1>7, <1>8, <1>9, <1>10
    DEF Next, Program

\* The bookkeeping of the files that were opened.
LEMMA OpeningStep == IndInv /\ [Next]_vars => Opening'
  <1> SUFFICES ASSUME IndInv, [Next]_vars PROVE Opening'
    OBVIOUS
  <1> USE EpollAssumption DEF IndInv, SnapshotValid, TypeOK, Opening, Files
  <1>1. CASE Open
    BY <1>1, SMTT(20) DEF Open
  <1>2. CASE OpenedAll
    BY <1>2 DEF OpenedAll, writerVars
  <1>3. CASE EpollWait
    BY <1>3 DEF EpollWait, writerVars
  <1>4. CASE HandledAll
    BY <1>4 DEF HandledAll, writerVars
  <1>5. ASSUME NEW e \in evlist, HandleIn(e) PROVE Opening'
    BY <1>5 DEF HandleIn, writerVars
  <1>6. ASSUME NEW e \in evlist, HandleHup(e) PROVE Opening'
    BY <1>6 DEF HandleHup, writerVars
  <1>7. ASSUME NEW f \in Files, WriterOpen(f) PROVE Opening'
    BY <1>7, SMTT(20) DEF WriterOpen
  <1>8. ASSUME NEW f \in Files, Write(f) PROVE Opening'
    BY <1>8 DEF Write
  <1>9. ASSUME NEW f \in Files, WriterClose(f) PROVE Opening'
    BY <1>9 DEF WriterClose
  <1>10. CASE UNCHANGED vars
    BY <1>10 DEF vars
  <1> QED
    BY <1>1, <1>2, <1>3, <1>4, <1>5, <1>6, <1>7, <1>8, <1>9, <1>10
    DEF Next, Program

\* numOpenFds counts the open descriptors, and no event names a closed one.
LEMMA CountsStep == IndInv /\ [Next]_vars => CountsOpen'
  <1> SUFFICES ASSUME IndInv, [Next]_vars PROVE CountsOpen'
    OBVIOUS
  <1>0. TypeOK
    BY DEF IndInv, SnapshotValid
  <1> USE EpollAssumption DEF IndInv, SnapshotValid, CountsOpen, Opening
  <1>1. CASE Open
    BY <1>1 DEF Open
  <1>2. CASE OpenedAll
    <2>1. j = NumFiles + 1
      BY <1>0, <1>2 DEF OpenedAll, TypeOK
    <2>2. open = 1..NumFiles
      BY <1>2, <2>1 DEF OpenedAll
    <2>3. Cardinality(open) = NumFiles
      BY <2>2, FS_Interval
    <2> QED
      BY <1>2, <2>3 DEF OpenedAll, writerVars
  <1>3. CASE EpollWait
    <2>1. PICK S \in SUBSET Ready : evlist' = {Event(f) : f \in S}
      BY <1>3 DEF EpollWait
    <2>2. \A e \in evlist' : \E f \in S : f \in open /\ e = Event(f) /\ e.fd = f
      BY <2>1 DEF Ready, Event
    <2>3. \A e \in evlist' : e.fd \in open /\ e = Event(e.fd)
      BY <2>2
    <2> QED
      BY <1>3, <2>3 DEF EpollWait
  <1>4. CASE HandledAll
    BY <1>4 DEF HandledAll, writerVars
  <1>5. ASSUME NEW e \in evlist, HandleIn(e) PROVE CountsOpen'
    BY <1>5 DEF HandleIn, writerVars
  <1>6. ASSUME NEW e \in evlist, HandleHup(e) PROVE CountsOpen'
    <2>1. e.fd \in open /\ pc # "open"
      BY <1>6 DEF HandleHup
    <2>2. Cardinality(open') = numOpenFds'
      BY <1>0, <1>6, <2>1, ClosingOne DEF HandleHup
    <2>3. \A d \in evlist' : d \in evlist /\ d # e
      BY <1>6 DEF HandleHup
    <2>4. \A d \in evlist' : d.fd \in open'
      BY <1>6, <2>1, <2>3 DEF HandleHup
    <2> QED
      BY <2>1, <2>2, <2>3, <2>4
  <1>7. ASSUME NEW f \in Files, WriterOpen(f) PROVE CountsOpen'
    BY <1>7 DEF WriterOpen
  <1>8. ASSUME NEW f \in Files, Write(f) PROVE CountsOpen'
    BY <1>8 DEF Write
  <1>9. ASSUME NEW f \in Files, WriterClose(f) PROVE CountsOpen'
    BY <1>9 DEF WriterClose
  <1>10. CASE UNCHANGED vars
    BY <1>10 DEF vars
  <1> QED
    BY <1>1, <1>2, <1>3, <1>4, <1>5, <1>6, <1>7, <1>8, <1>9, <1>10
    DEF Next, Program
\* What one step does to the data of a file: only read() takes any, and then
\* from a file whose event it handles.
LEMMA DataStep == ASSUME IndInv, [Next]_vars, NEW f \in Files
                  PROVE  /\ Data(f)' # Data(f) => f \in open
                         /\ Data(f)' > Data(f) => writer[f]
                         /\ Data(f)' < Data(f) =>
                              \E e \in evlist : e.fd = f /\ e.in /\ evlist' = evlist \ {e}
  <1> USE DEF Data
  <1>0. TypeOK /\ consumed[f] \in Nat /\ written[f] \in Nat
    BY DEF IndInv, SnapshotValid, TypeOK
  <1>1. CASE \E e \in evlist : HandleIn(e)
    <2>1. PICK e \in evlist : HandleIn(e)
      BY <1>1
    <2>2. e.fd \in open /\ e.fd \in Files
      BY <1>0, <2>1 DEF HandleIn, IndInv, SnapshotValid, CountsOpen, TypeOK
    <2>3. written' = written /\ e.in /\ evlist' = evlist \ {e}
      BY <2>1 DEF HandleIn, writerVars
    <2>4. CASE f = e.fd
      <3>1. consumed'[f] = consumed[f] + (IF Data(f) < MaxBuf THEN Data(f) ELSE MaxBuf)
        BY <1>0, <2>1, <2>2, <2>4 DEF HandleIn, TypeOK
      <3>2. consumed'[f] >= consumed[f]
        BY <1>0, <3>1, EpollAssumption DEF TypeOK
      <3>3. consumed'[f] \in Int
        BY <1>0, <3>1, EpollAssumption
      <3> QED
        BY <1>0, <2>2, <2>3, <2>4, <3>2, <3>3
    <2>5. CASE f # e.fd
      <3>1. consumed'[f] = consumed[f]
        BY <1>0, <2>1, <2>2, <2>5 DEF HandleIn, TypeOK
      <3> QED
        BY <1>0, <2>3, <3>1
    <2> QED
      BY <2>4, <2>5
  <1>2. CASE \E g \in Files : Write(g)
    <2>1. PICK g \in Files : Write(g)
      BY <1>2
    <2>2. consumed' = consumed /\ g \in open /\ writer[g]
      BY <2>1 DEF Write
    <2>3. written'[f] = IF f = g THEN written[f] + 1 ELSE written[f]
      BY <1>0, <2>1 DEF Write, TypeOK
    <2> QED
      BY <1>0, <2>2, <2>3
  <1>3. CASE UNCHANGED <<written, consumed>>
    BY <1>0, <1>3
  <1> QED
    BY <1>1, <1>2, <1>3 DEF Next, Program, Open, OpenedAll, EpollWait, HandledAll,
       HandleHup, WriterOpen, WriterClose, vars, writerVars

\* An event is new, or it was there before and no other has its descriptor.
LEMMA EventStep == ASSUME IndInv, [Next]_vars, NEW e \in evlist'
                   PROVE  /\ e.fd \in Files
                          /\ EpollWait \/ e \in evlist
                          /\ EpollWait => e.fd \in Ready /\ (e.in <=> Data(e.fd) > 0)
                          /\ e \in evlist =>
                               /\ pc # "open"
                               /\ \A d \in evlist : d.fd = e.fd => d = e
  <1>1. TypeOK'
    BY TypeStep
  <1>2. e.fd \in Files
    BY <1>1 DEF TypeOK
  <1>3. EpollWait \/ e \in evlist
    BY DEF Next, Program, Open, OpenedAll, HandledAll, HandleIn, HandleHup,
       WriterOpen, Write, WriterClose, vars
  <1>4. ASSUME EpollWait PROVE e.fd \in Ready /\ (e.in <=> Data(e.fd) > 0)
    <2>1. PICK S \in SUBSET Ready : evlist' = {Event(f) : f \in S}
      BY <1>4 DEF EpollWait
    <2>2. PICK f \in S : e = Event(f)
      BY <2>1
    <2>3. e.fd = f
      BY <2>2 DEF Event
    <2>4. e.in = (Data(f) > 0)
      BY <2>2, Zenon DEF Event
    <2> QED
      BY <2>3, <2>4
  <1>5. ASSUME e \in evlist PROVE pc # "open" /\ \A d \in evlist : d.fd = e.fd => d = e
    BY <1>5 DEF IndInv, SnapshotValid, CountsOpen, Opening
  <1> QED
    BY <1>2, <1>3, <1>4, <1>5

\* The number of writers a file has had only grows, by the one that opens it.
LEMMA LivesStep == ASSUME IndInv, [Next]_vars, NEW f \in Files
                   PROVE  /\ lives'[f] \in Nat /\ lives[f] \in Nat /\ lives'[f] >= lives[f]
                          /\ writer'[f] /\ ~writer[f] /\ pc # "open" => lives'[f] >= 2
  <1> USE DEF TypeOK
  <1>0. TypeOK
    BY DEF IndInv, SnapshotValid
  <1>1. CASE Open
    <2>1. lives'[f] = IF f = j THEN lives[f] + 1 ELSE lives[f]
      BY <1>0, <1>1 DEF Open
    <2> QED
      BY <1>0, <1>1, <2>1 DEF Open
  <1>2. CASE \E g \in Files : WriterOpen(g)
    <2>1. PICK g \in Files : WriterOpen(g)
      BY <1>2
    <2>2. lives'[f] = IF f = g THEN lives[f] + 1 ELSE lives[f]
      BY <1>0, <2>1 DEF WriterOpen
    <2>3. CASE f = g
      <3>1. f \in open
        BY <2>1, <2>3 DEF WriterOpen
      <3>2. f < j
        BY <1>0, <3>1, EpollAssumption DEF IndInv, Opening, Files
      <3> QED
        BY <1>0, <2>2, <2>3, <3>2 DEF IndInv, Opening
    <2>4. CASE f # g
      BY <1>0, <2>1, <2>2, <2>4 DEF WriterOpen
    <2> QED
      BY <2>3, <2>4
  <1>3. CASE \E g \in Files : WriterClose(g)
    BY <1>0, <1>3 DEF WriterClose
  <1>4. CASE UNCHANGED <<lives, writer>>
    BY <1>0, <1>4
  <1> QED
    BY <1>1, <1>2, <1>3, <1>4 DEF Next, Program, OpenedAll, EpollWait, HandledAll,
       HandleIn, HandleHup, Write, vars, writerVars

\* Input that the snapshot saw is there until it is handled.
LEMMA ReadsStep == IndInv /\ [Next]_vars => ReadsSomething'
  <1> SUFFICES ASSUME IndInv, [Next]_vars, NEW e \in evlist', e.in
               PROVE  Data(e.fd)' > 0
    BY DEF ReadsSomething, Data
  <1>1. e.fd \in Files
    BY EventStep
  <1>2. Data(e.fd) \in Int /\ Data(e.fd)' \in Int
    BY <1>1, TypeStep DEF Data, IndInv, SnapshotValid, TypeOK
  <1>3. CASE EpollWait
    <2>1. Data(e.fd) > 0
      BY <1>3, EventStep
    <2> QED
      BY <1>3, <2>1 DEF EpollWait, writerVars, Data
  <1>4. CASE e \in evlist
    <2>1. Data(e.fd) > 0
      BY <1>4 DEF IndInv, SnapshotValid, ReadsSomething
    <2>2. ~(Data(e.fd)' < Data(e.fd))
      <3>1. ASSUME NEW d \in evlist, d.fd = e.fd, evlist' = evlist \ {d} PROVE FALSE
        BY <1>4, <3>1, EventStep
      <3> QED
        BY <1>1, <3>1, DataStep
    <2> QED
      BY <1>2, <2>1, <2>2
  <1> QED
    BY <1>3, <1>4, EventStep

\* A hang-up without input stays one while there is no second writer.
LEMMA HangUpStep == IndInv /\ [Next]_vars => HangUpIsFinal'
  <1> SUFFICES ASSUME IndInv, [Next]_vars, NEW e \in evlist', ~e.in, lives'[e.fd] <= 1
               PROVE  ~writer'[e.fd] /\ Data(e.fd)' = 0
    BY DEF HangUpIsFinal, Data
  <1>1. e.fd \in Files
    BY EventStep
  <1>2. /\ Data(e.fd) \in Int /\ Data(e.fd)' \in Int /\ Data(e.fd) >= 0
        /\ writer[e.fd] \in BOOLEAN /\ writer'[e.fd] \in BOOLEAN
    BY <1>1, TypeStep DEF Data, IndInv, SnapshotValid, TypeOK
  <1>3. CASE EpollWait
    <2>1. e.fd \in Ready
      BY <1>3, EventStep
    <2>2. ~(Data(e.fd) > 0)
      BY <1>3, EventStep
    <2>3. ~writer[e.fd]
      BY <2>1, <2>2 DEF Ready, HangUp
    <2>4. Data(e.fd)' = Data(e.fd) /\ writer' = writer
      BY <1>3 DEF EpollWait, writerVars, Data
    <2> QED
      BY <1>2, <2>2, <2>3, <2>4
  <1>4. CASE e \in evlist
    <2>1. lives[e.fd] <= 1
      BY <1>1, LivesStep
    <2>2. ~writer[e.fd] /\ Data(e.fd) = 0
      BY <1>4, <2>1 DEF IndInv, SnapshotValid, HangUpIsFinal
    <2>3. ~writer'[e.fd]
      BY <1>1, <1>4, <2>2, LivesStep, EventStep
    <2>4. ~(Data(e.fd)' > Data(e.fd))
      BY <1>1, <2>2, DataStep
    <2>5. ~(Data(e.fd)' < Data(e.fd))
      <3>1. ASSUME NEW d \in evlist, d.fd = e.fd, d.in PROVE FALSE
        BY <1>4, <3>1, EventStep
      <3> QED
        BY <1>1, <3>1, DataStep
    <2> QED
      BY <1>2, <2>2, <2>3, <2>4, <2>5
  <1> QED
    BY <1>3, <1>4, EventStep

\* A descriptor is closed with nothing left to read.
LEMMA ConsumedStep == IndInv /\ [Next]_vars => AllConsumed'
  <1> SUFFICES ASSUME IndInv, [Next]_vars, NEW f \in Files,
                      f < j', f \notin open', lives'[f] <= 1
               PROVE  Data(f)' = 0
    BY DEF AllConsumed, Data
  <1>1. lives[f] <= 1
    BY LivesStep
  <1>2. Data(f) \in Int /\ Data(f)' \in Int
    BY TypeStep DEF Data, IndInv, SnapshotValid, TypeOK
  <1>3. CASE f \in open
    <2>1. PICK e \in evlist : HandleHup(e) /\ e.fd = f
      BY <1>3 DEF Next, Program, Open, OpenedAll, EpollWait, HandledAll, HandleIn,
         HandleHup, WriterOpen, Write, WriterClose, vars
    <2>2. Data(f) = 0
      BY <1>1, <2>1 DEF HandleHup, IndInv, SnapshotValid, HangUpIsFinal
    <2> QED
      BY <2>1, <2>2 DEF HandleHup, writerVars, Data
  <1>4. CASE f \notin open
    <2>1. f < j
      BY <1>4, EpollAssumption DEF Next, Program, Open, OpenedAll, EpollWait, HandledAll, HandleIn,
         HandleHup, WriterOpen, Write, WriterClose, vars, Files, IndInv, SnapshotValid, TypeOK
    <2>2. Data(f) = 0
      BY <1>1, <1>4, <2>1 DEF IndInv, AllConsumed
    <2> QED
      BY <1>2, <1>4, <2>2, DataStep
  <1> QED
    BY <1>3, <1>4

\* The inductive invariant of the event loop (lines 40-103).
THEOREM EpollInvariant == Spec => []IndInv
  <1>1. IndInv /\ [Next]_vars => IndInv'
    BY TypeStep, OpeningStep, CountsStep, ReadsStep, HangUpStep, ConsumedStep
    DEF IndInv, SnapshotValid
  <1> QED
    BY InitInd, <1>1, PTL DEF Spec

\* No event is stale in a way that matters: read() does not block, close() is
\* called once for each descriptor, and numOpenFds counts down to 0.
THEOREM EpollSnapshot == Spec => []SnapshotValid
  <1>1. IndInv => SnapshotValid
    BY DEF IndInv
  <1> QED
    BY EpollInvariant, <1>1, PTL

\* What a file's only writer wrote is read before its descriptor is closed.
THEOREM EpollConsumes == Spec => []AllConsumed
  <1>1. IndInv => AllConsumed
    BY DEF IndInv
  <1> QED
    BY EpollInvariant, <1>1, PTL

-----------------------------------------------------------------------------
(* demo_sigio.                                                             *)

\* Whatever order characters, signals and the calls of the loop come in.
LEMMA SigioStep == Sigio!IndInv /\ [Sigio!Next]_(Sigio!vars) => Sigio!IndInv'
  <1> SUFFICES ASSUME Sigio!IndInv, [Sigio!Next]_(Sigio!vars) PROVE Sigio!IndInv'
    OBVIOUS
  <1> USE FamilyAssumption DEF Sigio!IndInv, Sigio!TypeOK, Sigio!ModeInv, Sigio!NoStrandedInput,
          Sigio!HashEnds, Sigio!Ended, Sigio!ttyVars
  <1>0. <<>> \in Seq(Chars)
    OBVIOUS
  <1>1. CASE Sigio!Install
    <2>1. x6' \in BOOLEAN
      BY <1>1, Zenon DEF Sigio!Install
    <2> QED
      BY <1>1, <2>1 DEF Sigio!Install
  <1>2. CASE Sigio!SetFlags
    <2>1. x4' \in BOOLEAN
      BY <1>2, Zenon DEF Sigio!SetFlags
    <2> QED
      BY <1>2, <2>1 DEF Sigio!SetFlags
  <1>3. CASE Sigio!SetCbreak
    <2>1. x7' \in BOOLEAN
      BY <1>3, Zenon DEF Sigio!SetCbreak
    <2> QED
      BY <1>0, <1>3, <2>1 DEF Sigio!SetCbreak
  <1>4. CASE Sigio!Test
    BY <1>4 DEF Sigio!Test
  <1>5. CASE Sigio!Clear
    <2>1. x2' \in BOOLEAN
      BY <1>5, Zenon DEF Sigio!Clear
    <2> QED
      BY <1>5, <2>1 DEF Sigio!Clear
  <1>6. CASE Sigio!Read
    <2>1. CASE x8 = <<>>
      BY <1>6, <2>1 DEF Sigio!Read
    <2>2. CASE x8 # <<>> /\ x3
      <3>1. Tail(x8) \in Seq(Chars)
        BY <2>2
      <3>2. /\ x8' = Tail(x8) /\ x1' = "test" /\ x1 = "read" /\ x10' = x10 /\ x3' /\ x3' \in BOOLEAN
            /\ UNCHANGED <<x2, x5, x4, x6, x7, x9>>
        BY <1>6, <2>2 DEF Sigio!Read
      <3> QED
        BY <2>2, <3>1, <3>2
    <2>3. CASE x8 # <<>> /\ ~x3
      <3>1. /\ Head(x8) \in Chars /\ Tail(x8) \in Seq(Chars)
            /\ Append(x10, Head(x8)) \in Seq(Chars) /\ Append(x10, Head(x8)) # <<>>
            /\ Len(Append(x10, Head(x8))) = Len(x10) + 1 /\ Len(x10) \in Nat
            /\ Append(x10, Head(x8))[Len(x10) + 1] = Head(x8)
            /\ \A i \in 1..Len(x10) : Append(x10, Head(x8))[i] = x10[i]
        BY <2>3
      <3>2. /\ x8' = Tail(x8) /\ x1' = "read" /\ x1 = "read" /\ x10' = Append(x10, Head(x8))
            /\ (x3' <=> Head(x8) = "#") /\ x3' \in BOOLEAN
            /\ UNCHANGED <<x2, x5, x4, x6, x7, x9>>
        BY <1>6, <2>3 DEF Sigio!Read
      <3>3. \A i \in 1..Len(x10) : x10[i] # "#"
        BY <2>3
      <3>4. Sigio!HashEnds'
        BY <3>1, <3>2, <3>3
      <3>5. Sigio!TypeOK'
        BY <3>1, <3>2
      <3>6. Sigio!ModeInv' /\ Sigio!NoStrandedInput'
        BY <3>1, <3>2
      <3> QED
        BY <3>4, <3>5, <3>6
    <2> QED
      BY <2>1, <2>2, <2>3
  <1>7. CASE Sigio!Restore
    <2>1. x7' \in BOOLEAN
      BY <1>7, Zenon DEF Sigio!Restore
    <2> QED
      BY <1>0, <1>7, <2>1 DEF Sigio!Restore
  <1>8. CASE Sigio!Handle
    <2>1. x5' \in BOOLEAN /\ x2' \in BOOLEAN
      BY <1>8, Zenon DEF Sigio!Handle
    <2> QED
      BY <1>8, <2>1 DEF Sigio!Handle
  <1>9. CASE Sigio!Type
    BY <1>9 DEF Sigio!Type
  <1>10. CASE Sigio!Killed
    BY <1>10 DEF Sigio!Killed
  <1>11. CASE UNCHANGED Sigio!vars
    BY <1>11 DEF Sigio!vars
  <1> QED
    BY <1>1, <1>2, <1>3, <1>4, <1>5, <1>6, <1>7, <1>8, <1>9, <1>10, <1>11
    DEF Sigio!Next, Sigio!Main

\* No character waits without a signal or a flag that leads to it, and the
\* first '#' ends the program with the terminal restored (demo_sigio.c lines
\* 67-84), however much is typed and whenever.
THEOREM SigioReadsAll == FamilySpec => []SigioReads
  <1> DEFINE P == program = "demo_sigio" => Sigio!IndInv
  <1>1. FamilyInit => P
    <2> SUFFICES ASSUME Sigio!Init PROVE Sigio!IndInv
      BY DEF FamilyInit
    <2>1. x2 \in BOOLEAN /\ x3 \in BOOLEAN /\ x4 \in BOOLEAN /\ x5 \in BOOLEAN
            /\ x6 \in BOOLEAN /\ x7 \in BOOLEAN
      BY Zenon DEF Sigio!Init
    <2>2. <<>> \in Seq(Chars) /\ Len(<<>>) = 0
      OBVIOUS
    <2> QED
      BY <2>1, <2>2, FamilyAssumption
      DEF Sigio!Init, Sigio!IndInv, Sigio!TypeOK, Sigio!ModeInv, Sigio!NoStrandedInput,
          Sigio!HashEnds
  <1>2. P /\ [FamilyNext]_all => P'
    <2> SUFFICES ASSUME P, [FamilyNext]_all, program' = "demo_sigio" PROVE Sigio!IndInv'
      OBVIOUS
    <2>1. program = "demo_sigio" /\ [Sigio!Next]_(Sigio!vars)
      <3>1. CASE FamilyNext
        BY <3>1 DEF FamilyNext, InEpoll, InSigio, InWatcher
      <3>2. CASE UNCHANGED all
        BY <3>2 DEF all, Sigio!vars
      <3> QED
        BY <3>1, <3>2
    <2> QED
      BY <2>1, SigioStep
  <1>3. P => SigioReads
    BY DEF SigioReads, Sigio!IndInv
  <1> QED
    BY <1>1, <1>2, <1>3, PTL DEF FamilySpec

-----------------------------------------------------------------------------
(* inotify_demo.                                                           *)

\* Induction over the records of a buffer: a set of numbers has a least one.
LEMMA LeastNumber ==
  ASSUME NEW S \in SUBSET Nat, S # {}
  PROVE  \E m \in S : \A y \in S : m <= y
  <1> DEFINE R == {ss \in Nat \X Nat : ss[1] < ss[2]}
  <1>1. IsWellFoundedOn(R, Nat)
    BY NatLessThanWellFounded, Zenon DEF OpToRel
  <1>2. PICK m \in S : \A y \in S : ~(<<y, m>> \in R)
    BY <1>1, WFMin, Zenon
  <1>3. ASSUME NEW y \in S, ~(m <= y) PROVE FALSE
    <2>1. <<y, m>> \in Nat \X Nat /\ y < m
      BY <1>3
    <2> QED
      BY <1>2, <2>1
  <1> QED
    BY <1>3

\* A record is its header and the length of its name.
LEMMA RecordLen ==
  ASSUME NEW es \in Seq(Watcher!Events)
  PROVE  Len(es) \in Nat /\ \A i \in 1..Len(es) : es[i] \in Watcher!Events /\ es[i].len \in Nat
  <1>1. \A e \in Watcher!Events : e.len \in Nat
    BY WatcherAssumption DEF Watcher!Events
  <1> QED
    BY <1>1

\* A function gives the ends of the records es after `from'.
IsEnds(es, from, g) == /\ g \in [0..Len(es) -> Nat] /\ g[0] = from
                       /\ \A i \in 1..Len(es) : g[i] = g[i - 1] + 1 + es[i].len

\* There is one,
LEMMA SomeEnds ==
  ASSUME NEW es \in Seq(Watcher!Events), NEW from \in Nat
  PROVE  \E g : IsEnds(es, from, g)
  <1> DEFINE n == Len(es)
             Upto(k, g) == /\ g \in [0..k -> Nat] /\ g[0] = from
                           /\ \A i \in 1..k : g[i] = g[i - 1] + 1 + es[i].len
             S == {k \in 0..n : ~\E g : Upto(k, g)}
  <1>0. n \in Nat /\ \A i \in 1..n : es[i].len \in Nat
    BY RecordLen
  <1>1. S = {}
    <2> SUFFICES ASSUME S # {} PROVE FALSE
      OBVIOUS
    <2>1. PICK m \in S : \A y \in S : m <= y
      <3>1. S \in SUBSET Nat
        BY <1>0
      <3> QED
        BY <3>1, LeastNumber
    <2>2. m \in 0..n /\ ~\E g : Upto(m, g)
      OBVIOUS
    <2>3. CASE m = 0
      <3>1. Upto(0, [i \in 0..0 |-> from])
        OBVIOUS
      <3> QED
        BY <2>2, <2>3, <3>1
    <2>4. CASE m # 0
      <3>1. m - 1 \in 0..n /\ m - 1 \notin S
        <4>1. m - 1 \in 0..n /\ ~(m <= m - 1)
          BY <1>0, <2>2, <2>4
        <4> QED
          BY <2>1, <4>1
      <3>2. PICK g : Upto(m - 1, g)
        BY <3>1
      <3> DEFINE h == [i \in 0..m |-> IF i = m THEN g[m - 1] + 1 + es[m].len ELSE g[i]]
      <3>3. g[m - 1] \in Nat /\ es[m].len \in Nat
        BY <1>0, <2>2, <2>4, <3>2
      <3>4. h \in [0..m -> Nat]
        BY ONLY m \in 0..n, m # 0, <1>0, <3>2, <3>3
      <3>5. h[0] = from
        BY <2>2, <2>4, <3>2
      <3>6. \A i \in 1..m : h[i] = h[i - 1] + 1 + es[i].len
        BY <2>2, <3>2
      <3> HIDE DEF h
      <3>7. Upto(m, h)
        BY <3>4, <3>5, <3>6
      <3> QED
        BY <2>2, <3>7
    <2> QED
      BY <2>3, <2>4
  <1>2. \E g : Upto(n, g)
    <2> HIDE DEF Upto
    <2>1. n \in 0..n /\ n \notin S
      BY <1>0, <1>1
    <2> QED
      BY <2>1
  <1> QED
    BY <1>2 DEF IsEnds

\* and only one,
LEMMA OneEnds ==
  ASSUME NEW es \in Seq(Watcher!Events), NEW from \in Nat, NEW g, IsEnds(es, from, g),
         NEW h, h[0] = from, \A i \in 1..Len(es) : h[i] = h[i - 1] + 1 + es[i].len
  PROVE  \A i \in 0..Len(es) : h[i] = g[i]
  <1> DEFINE S == {i \in 0..Len(es) : h[i] # g[i]}
  <1> SUFFICES ASSUME S # {} PROVE FALSE
    OBVIOUS
  <1>0. Len(es) \in Nat
    BY RecordLen
  <1>1. S \in SUBSET Nat
    BY <1>0
  <1>2. PICK m \in S : \A y \in S : m <= y
    BY <1>1, LeastNumber
  <1>3. m \in 1..Len(es) /\ h[m] # g[m]
    BY <1>0 DEF IsEnds
  <1>4. m - 1 \in 0..Len(es) /\ ~(m <= m - 1)
    BY <1>0, <1>3
  <1>5. h[m - 1] = g[m - 1]
    BY <1>2, <1>4
  <1> QED
    BY <1>3, <1>5 DEF IsEnds

\* it is the one the model computes,
LEMMA EndsIs ==
  ASSUME NEW es \in Seq(Watcher!Events), NEW from \in Nat
  PROVE  IsEnds(es, from, Watcher!Ends(es, from))
  <1> DEFINE Eq(f) == f = [i \in 0..Len(es) |-> IF i = 0 THEN from
                                                ELSE f[i - 1] + 1 + es[i].len]
             e == Watcher!Ends(es, from)
  <1>0. Len(es) \in Nat /\ \A i \in 1..Len(es) : es[i].len \in Nat
    BY RecordLen
  <1>1. PICK g : IsEnds(es, from, g)
    BY SomeEnds
  <1>2. Eq(g)
    BY <1>0, <1>1 DEF IsEnds
  <1>3. e = CHOOSE f : Eq(f)
    BY DEF Watcher!Ends
  <1>4. Eq(e)
    BY <1>2, <1>3, Zenon
  <1> HIDE DEF e
  <1>5. DOMAIN e = 0..Len(es) /\ e[0] = from
    BY <1>0, <1>4
  <1>6. \A i \in 1..Len(es) : e[i] = e[i - 1] + 1 + es[i].len
    BY <1>0, <1>4
  <1>7. \A i \in 0..Len(es) : e[i] = g[i]
    BY <1>1, <1>5, <1>6, OneEnds
  <1>8. e = [i \in 0..Len(es) |-> e[i]]
    BY <1>4
  <1>9. e \in [0..Len(es) -> Nat]
    BY <1>1, <1>7, <1>8 DEF IsEnds
  <1>10. IsEnds(es, from, e)
    BY <1>5, <1>6, <1>9 DEF IsEnds
  <1> QED
    BY <1>10 DEF e

\* and it grows from record to record.
LEMMA EndsGrow ==
  ASSUME NEW es \in Seq(Watcher!Events), NEW from \in Nat, NEW g, IsEnds(es, from, g)
  PROVE  \A i, k \in 0..Len(es) : i < k => g[i] < g[k]
  <1> SUFFICES ASSUME NEW i \in 0..Len(es), NEW k \in 0..Len(es), i < k, ~(g[i] < g[k])
               PROVE  FALSE
    OBVIOUS
  <1> DEFINE S == {y \in 0..Len(es) : i < y /\ ~(g[i] < g[y])}
  <1>0. Len(es) \in Nat /\ \A y \in 1..Len(es) : es[y].len \in Nat
    BY RecordLen
  <1>1. S \in SUBSET Nat /\ k \in S
    BY <1>0
  <1>2. PICK m \in S : \A y \in S : m <= y
    BY <1>1, LeastNumber
  <1>3. m \in 1..Len(es) /\ i < m /\ ~(g[i] < g[m])
    BY <1>0
  <1>4. m - 1 \in 0..Len(es) /\ ~(m <= m - 1)
    BY <1>0, <1>3
  <1>5. m - 1 = i \/ g[i] < g[m - 1]
    BY <1>0, <1>2, <1>3, <1>4
  <1>6. /\ g[m] = g[m - 1] + 1 + es[m].len /\ es[m].len \in Nat
        /\ g[m - 1] \in Nat /\ g[i] \in Nat /\ g[m] \in Nat
    BY <1>0, <1>3, <1>4 DEF IsEnds
  <1>7. g[m - 1] = g[i] \/ g[i] < g[m - 1]
    BY <1>5
  <1> DEFINE a == g[i]
             b == g[m - 1]
             c == g[m]
             d == es[m].len
  <1>8. ~(a < c) /\ c = b + 1 + d /\ (b = a \/ a < b)
    BY ONLY <1>3, <1>6, <1>7
  <1>9. a \in Nat /\ b \in Nat /\ c \in Nat /\ d \in Nat
    BY ONLY <1>6
  <1> HIDE DEF a, b, c, d
  <1> QED
    BY ONLY <1>8, <1>9

\* The walk from `from' over the buffer b meets the records es and nothing else.
Walk(es, from, b) == \E g : /\ IsEnds(es, from, g) /\ g[Len(es)] = Len(b)
                            /\ \A i \in 1..Len(es) : b[g[i - 1] + 1] = es[i]

\* What was read and not shown is what is between the other two parts.
LEMMA Middle ==
  ASSUME NEW s \in Seq(Watcher!Events), NEW u \in Seq(Watcher!Events),
         NEW q \in Seq(Watcher!Events)
  PROVE  SubSeq(s \o u \o q, Len(s) + 1, Len(s \o u \o q) - Len(q)) = u
  <1> DEFINE a == s \o u \o q
             v == SubSeq(a, Len(s) + 1, Len(a) - Len(q))
  <1>1. /\ a \in Seq(Watcher!Events) /\ Len(a) = Len(s) + Len(u) + Len(q)
        /\ Len(s) \in Nat /\ Len(u) \in Nat /\ Len(q) \in Nat
        /\ \A i \in 1..Len(u) : a[Len(s) + i] = u[i]
    OBVIOUS
  <1> HIDE DEF a
  <1>2. Len(v) = Len(u) /\ \A i \in 1..Len(u) : v[i] = u[i]
    BY <1>1
  <1>3. v \in Seq(Watcher!Events)
    BY <1>1
  <1> HIDE DEF v
  <1>4. v = u
    BY <1>2, <1>3
  <1> QED
    BY <1>4 DEF v, a

LEMMA AppendLast ==
  ASSUME NEW s \in Seq(Watcher!Events), NEW q \in Seq(Watcher!Events),
         NEW e \in Watcher!Events
  PROVE  Append(s \o q, e) = s \o Append(q, e)
  <1> DEFINE a == Append(s \o q, e)
             b == s \o Append(q, e)
  <1>1. /\ a \in Seq(Watcher!Events) /\ b \in Seq(Watcher!Events)
        /\ Len(a) = Len(s) + Len(q) + 1 /\ Len(b) = Len(s) + Len(q) + 1
    OBVIOUS
  <1>2. \A i \in 1..Len(a) : a[i] = b[i]
    OBVIOUS
  <1> HIDE DEF a, b
  <1>3. a = b
    BY <1>1, <1>2
  <1> QED
    BY <1>3 DEF a, b

LEMMA Joined ==
  ASSUME NEW s \in Seq(Watcher!Events), NEW u \in Seq(Watcher!Events),
         NEW q \in Seq(Watcher!Events)
  PROVE  s \o (u \o q) = s \o u \o q
  <1> DEFINE a == s \o (u \o q)
             b == s \o u \o q
  <1>1. a \in Seq(Watcher!Events) /\ Len(a) = Len(s) + Len(u) + Len(q)
    OBVIOUS
  <1>2. b \in Seq(Watcher!Events) /\ Len(b) = Len(s) + Len(u) + Len(q)
    OBVIOUS
  <1>3. \A i \in 1..Len(s) + Len(u) + Len(q) : a[i] = b[i]
    OBVIOUS
  <1> HIDE DEF a, b
  <1>4. a = b
    BY <1>1, <1>2, <1>3
  <1> QED
    BY <1>4 DEF a, b

LEMMA ShiftFirst ==
  ASSUME NEW s \in Seq(Watcher!Events), NEW u \in Seq(Watcher!Events),
         NEW q \in Seq(Watcher!Events), u # <<>>
  PROVE  s \o u \o q = Append(s, Head(u)) \o Tail(u) \o q
  <1>1. s \o u = Append(s, Head(u)) \o Tail(u)
    <2> DEFINE a == s \o u
               b == Append(s, Head(u)) \o Tail(u)
    <2>1. a \in Seq(Watcher!Events) /\ Len(a) = Len(s) + Len(u)
      OBVIOUS
    <2>2. b \in Seq(Watcher!Events) /\ Len(b) = Len(s) + Len(u)
      OBVIOUS
    <2>3. \A i \in 1..Len(s) + Len(u) : a[i] = b[i]
      OBVIOUS
    <2> HIDE DEF a, b
    <2>4. a = b
      BY <2>1, <2>2, <2>3
    <2> QED
      BY <2>4 DEF a, b
  <1> QED
    BY <1>1

\* The property, with the records before the walk named.
LEMMA ShownBy ==
  ASSUME NEW u \in Seq(Watcher!Events), NEW from \in Nat, NEW b, Walk(u, from, b)
  PROVE  /\ Watcher!Ends(u, from)[Len(u)] = Len(b)
         /\ \A i \in 1..Len(u) : b[Watcher!Ends(u, from)[i - 1] + 1] = u[i]
  <1>1. PICK g : /\ IsEnds(u, from, g) /\ g[Len(u)] = Len(b)
                 /\ \A i \in 1..Len(u) : b[g[i - 1] + 1] = u[i]
    BY DEF Walk
  <1> DEFINE e == Watcher!Ends(u, from)
  <1>2. IsEnds(u, from, e)
    BY EndsIs
  <1> HIDE DEF e
  <1>3. \A i \in 0..Len(u) : e[i] = g[i]
    <2>1. e[0] = from /\ \A i \in 1..Len(u) : e[i] = e[i - 1] + 1 + u[i].len
      BY <1>2 DEF IsEnds
    <2> QED
      BY <1>1, <2>1, OneEnds
  <1>4. e[Len(u)] = Len(b) /\ \A i \in 1..Len(u) : b[e[i - 1] + 1] = u[i]
    <2>1. Len(u) \in Nat
      BY RecordLen
    <2>2. e[Len(u)] = Len(b)
      BY <1>1, <1>3, <2>1
    <2>3. \A i \in 1..Len(u) : e[i - 1] = g[i - 1]
      BY <1>3, <2>1
    <2> QED
      BY <1>1, <2>2, <2>3, Zenon
  <1> QED
    BY <1>4 DEF e

LEMMA ShownMeans ==
  ASSUME Watcher!IndInv
  PROVE  \E u \in Seq(Watcher!Events) : x7 = x8 \o u \o x3 /\ Walk(u, x5, x4)
  <1> DEFINE u == Watcher!Unshown
  <1>1. x5 \in Nat /\ x7 \in Seq(Watcher!Events) /\ x8 \in Seq(Watcher!Events) /\ x3 \in Seq(Watcher!Events)
    BY DEF Watcher!IndInv, Watcher!TypeOK, Watcher!QueueInv
  <1>2. x7 = x8 \o u \o x3
    BY DEF Watcher!IndInv, Watcher!EventsShown
  <1>3. u \in Seq(Watcher!Events)
    <2>1. Len(x8) + 1 \in 1..Len(x7) + 1 /\ Len(x7) - Len(x3) \in Int
      BY <1>1, <1>2
    <2> QED
      BY <1>1, <2>1 DEF Watcher!Unshown
  <1>4. IsEnds(u, x5, Watcher!Ends(u, x5))
    BY <1>1, <1>3, EndsIs
  <1>5. Walk(u, x5, x4)
    BY <1>4 DEF Walk, Watcher!IndInv, Watcher!EventsShown
  <1> QED
    BY <1>2, <1>3, <1>5

\* A walk at the end of its buffer has nothing left, and one that is not there
\* has a record before it.
LEMMA WalkEnds ==
  ASSUME NEW u \in Seq(Watcher!Events), NEW from \in Nat, NEW b, Walk(u, from, b)
  PROVE  /\ Len(b) \in Nat /\ from <= Len(b)
         /\ from >= Len(b) => u = <<>>
         /\ from < Len(b) => /\ u # <<>> /\ b[from + 1] = Head(u)
                             /\ Walk(Tail(u), from + 1 + Head(u).len, b)
  <1>1. PICK g : /\ IsEnds(u, from, g) /\ g[Len(u)] = Len(b)
                 /\ \A i \in 1..Len(u) : b[g[i - 1] + 1] = u[i]
    BY DEF Walk
  <1>2. Len(u) \in Nat /\ \A i \in 1..Len(u) : u[i].len \in Nat
    BY RecordLen
  <1>3. g \in [0..Len(u) -> Nat] /\ g[0] = from
    BY <1>1 DEF IsEnds
  <1>4. Len(b) \in Nat
    BY <1>1, <1>2, <1>3
  <1>5. u # <<>> => from < Len(b)
    <2> SUFFICES ASSUME u # <<>> PROVE from < Len(b)
      OBVIOUS
    <2>1. Len(u) \in 0..Len(u) /\ 0 \in 0..Len(u) /\ 0 < Len(u)
      BY <1>2
    <2>2. g[0] < g[Len(u)]
      BY <1>1, <2>1, EndsGrow
    <2> QED
      BY <1>1, <1>3, <2>2
  <1>6. u = <<>> => from = Len(b)
    BY <1>1, <1>3
  <1>7. ASSUME u # <<>>
        PROVE  b[from + 1] = Head(u) /\ Walk(Tail(u), from + 1 + Head(u).len, b)
    <2> DEFINE t == Tail(u)
               h == [i \in 0..Len(t) |-> g[i + 1]]
    <2>1. /\ t \in Seq(Watcher!Events) /\ Len(t) \in Nat /\ Len(t) = Len(u) - 1 /\ Head(u) = u[1]
          /\ \A i \in 1..Len(t) : t[i] = u[i + 1]
      BY <1>7
    <2> HIDE DEF t
    <2>2. b[from + 1] = Head(u)
      BY <1>1, <1>2, <1>3, <2>1
    <2>3. h \in [0..Len(t) -> Nat]
      BY <1>2, <1>3, <2>1
    <2>4. h[0] = from + 1 + Head(u).len
      <3>1. g[1] = g[1 - 1] + 1 + u[1].len
        BY <1>1, <1>2, <2>1 DEF IsEnds
      <3> QED
        BY <1>3, <2>1, <3>1
    <2>5. \A i \in 1..Len(t) : h[i] = h[i - 1] + 1 + t[i].len
      <3> SUFFICES ASSUME NEW i \in 1..Len(t) PROVE h[i] = h[i - 1] + 1 + t[i].len
        OBVIOUS
      <3>1. i + 1 \in 1..Len(u) /\ i - 1 \in 0..Len(t) /\ i \in 0..Len(t) /\ (i + 1) - 1 = i /\ (i - 1) + 1 = i
        BY <1>2, <2>1
      <3>2. g[i + 1] = g[(i + 1) - 1] + 1 + u[i + 1].len
        BY <1>1, <3>1 DEF IsEnds
      <3>3. h[i] = g[i + 1] /\ h[i - 1] = g[i]
        BY <3>1
      <3> QED
        BY <2>1, <3>1, <3>2, <3>3
    <2>6. h[Len(t)] = Len(b)
      BY <1>1, <2>1
    <2>7. \A i \in 1..Len(t) : b[h[i - 1] + 1] = t[i]
      <3> SUFFICES ASSUME NEW i \in 1..Len(t) PROVE b[h[i - 1] + 1] = t[i]
        OBVIOUS
      <3>1. i + 1 \in 1..Len(u) /\ i - 1 \in 0..Len(t) /\ (i + 1) - 1 = i /\ (i - 1) + 1 = i
        BY <1>2, <2>1
      <3>2. h[i - 1] = g[i]
        BY <3>1
      <3>3. b[g[(i + 1) - 1] + 1] = u[i + 1]
        BY <1>1, <3>1
      <3> QED
        BY <2>1, <3>1, <3>2, <3>3
    <2> HIDE DEF h
    <2>8. IsEnds(t, from + 1 + Head(u).len, h)
      BY <2>3, <2>4, <2>5 DEF IsEnds
    <2> QED
      BY <2>2, <2>6, <2>7, <2>8 DEF Walk, t
  <1> QED
    BY <1>3, <1>4, <1>5, <1>6, <1>7

LEMMA EmptyWalk == Walk(<<>>, 0, <<>>)
  <1>1. IsEnds(<<>>, 0, [i \in 0..0 |-> 0])
    BY DEF IsEnds
  <1> QED
    BY <1>1 DEF Walk

\* What read() leaves in the buffer is a walk over the events it took.
LEMMA ReadLays ==
  ASSUME NEW es \in Seq(Watcher!Events), NEW n \in 1..Len(es), NEW b,
         b = [u \in 1..Watcher!Ends(es, 0)[n] |-> Watcher!Unit(es, n, u)]
  PROVE  Walk(SubSeq(es, 1, n), 0, b) /\ Len(b) = Watcher!Ends(es, 0)[n]
  <1> DEFINE e == Watcher!Ends(es, 0)
             f == SubSeq(es, 1, n)
             g == [i \in 0..n |-> e[i]]
             At(u) == Watcher!Unit(es, n, u)
  <1>1. IsEnds(es, 0, e)
    BY EndsIs
  <1>2. b = [u \in 1..e[n] |-> At(u)]
    OBVIOUS
  <1>a. ASSUME NEW i \in 1..n PROVE At(e[i - 1] + 1) = es[CHOOSE k \in 1..n : e[i - 1] + 1 = e[k - 1] + 1]
    BY DEF Watcher!Unit
  <1> HIDE DEF e, At
  <1>3. Len(es) \in Nat /\ e \in [0..Len(es) -> Nat] /\ e[0] = 0
    BY <1>1, RecordLen DEF IsEnds
  <1>4. Len(f) = n /\ \A i \in 1..n : f[i] = es[i]
    BY <1>3
  <1> HIDE DEF f
  <1>5. g \in [0..n -> Nat] /\ \A i \in 0..n : g[i] = e[i]
    BY <1>3
  <1> HIDE DEF g
  <1>6. \A i \in 1..n : g[i] = g[i - 1] + 1 + f[i].len
    <2> SUFFICES ASSUME NEW i \in 1..n PROVE g[i] = g[i - 1] + 1 + f[i].len
      OBVIOUS
    <2>1. i \in 1..Len(es) /\ i - 1 \in 0..n
      BY <1>3
    <2>2. e[i] = e[i - 1] + 1 + es[i].len
      BY <1>1, <2>1 DEF IsEnds
    <2> QED
      BY <1>4, <1>5, <2>1, <2>2
  <1>7. IsEnds(f, 0, g)
    BY <1>3, <1>4, <1>5, <1>6 DEF IsEnds
  <1>8. e[n] \in Nat /\ Len(b) = e[n]
    <2>1. e[n] \in Nat
      BY <1>3
    <2> QED
      BY ONLY <1>2, <2>1
  <1>9. ASSUME NEW i \in 1..n PROVE b[g[i - 1] + 1] = f[i]
    <2>1. i - 1 \in 0..Len(es) /\ n \in 0..Len(es) /\ i - 1 < n /\ i - 1 \in 0..n
      BY <1>3
    <2>2. e[i - 1] < e[n] /\ e[i - 1] \in Nat
      BY <1>1, <1>3, <2>1, EndsGrow
    <2>3. \A k \in 1..n : e[i - 1] + 1 = e[k - 1] + 1 => k = i
      <3> SUFFICES ASSUME NEW k \in 1..n, e[i - 1] + 1 = e[k - 1] + 1, k # i PROVE FALSE
        OBVIOUS
      <3>1. k - 1 \in 0..Len(es) /\ (k - 1 < i - 1 \/ i - 1 < k - 1)
        BY <1>3
      <3>2. e[k - 1] < e[i - 1] \/ e[i - 1] < e[k - 1]
        BY <1>1, <2>1, <3>1, EndsGrow
      <3>3. e[k - 1] \in Nat
        BY <1>3, <3>1
      <3> QED
        BY ONLY <2>2, <3>2, <3>3, e[i - 1] + 1 = e[k - 1] + 1
    <2>4. (CHOOSE k \in 1..n : e[i - 1] + 1 = e[k - 1] + 1) = i
      BY <2>3
    <2>5. e[i - 1] + 1 \in 1..e[n]
      BY <1>8, <2>2
    <2>6. b[e[i - 1] + 1] = es[i]
      BY ONLY <1>2, <1>a, <2>4, <2>5, i \in 1..n
    <2> QED
      BY <1>4, <1>5, <2>1, <2>6
  <1>10. g[Len(f)] = Len(b)
    BY ONLY <1>4, <1>5, <1>8, n \in 1..Len(es), <1>3
  <1>11. Walk(f, 0, b)
    BY <1>4, <1>7, <1>9, <1>10 DEF Walk
  <1> QED
    BY <1>8, <1>11 DEF e, f

\* The invariant after a step, with the records before the walk named.
LEMMA WatcherAfter ==
  ASSUME Watcher!TypeOK', Watcher!QueueInv',
         NEW u \in Seq(Watcher!Events), x7' = x8' \o u \o x3', Walk(u, x5', x4')
  PROVE  Watcher!IndInv'
  <1>1. x5' \in Nat /\ x8' \in Seq(Watcher!Events) /\ x3' \in Seq(Watcher!Events)
    BY DEF Watcher!TypeOK, Watcher!QueueInv
  <1>2. Watcher!Unshown' = u
    BY <1>1, Middle DEF Watcher!Unshown
  <1>3. /\ Watcher!Ends(u, x5')[Len(u)] = Len(x4')
        /\ \A i \in 1..Len(u) : x4'[Watcher!Ends(u, x5')[i - 1] + 1] = u[i]
    BY <1>1, ShownBy
  <1>4. Watcher!EventsShown'
    BY <1>2, <1>3 DEF Watcher!EventsShown
  <1> QED
    BY <1>4 DEF Watcher!IndInv

\* Whatever happens to the files between two steps of the walk.
LEMMA WatcherStep == Watcher!IndInv /\ [Watcher!Next]_(Watcher!vars) => Watcher!IndInv'
  <1> SUFFICES ASSUME Watcher!IndInv, [Watcher!Next]_(Watcher!vars) PROVE Watcher!IndInv'
    OBVIOUS
  <1>t. Watcher!TypeOK /\ Watcher!QueueInv
    BY DEF Watcher!IndInv
  <1>u. PICK u \in Seq(Watcher!Events) : x7 = x8 \o u \o x3 /\ Walk(u, x5, x4)
    BY ShownMeans
  <1>s. /\ x5 \in Nat /\ x3 \in Seq(Watcher!Events) /\ Len(x3) \in Nat
        /\ x7 \in Seq(Watcher!Events) /\ x8 \in Seq(Watcher!Events)
    BY <1>t DEF Watcher!TypeOK, Watcher!QueueInv
  <1> USE WatcherAssumption
  <1>1. CASE Watcher!Watch
    <2>1. Watcher!TypeOK' /\ Watcher!QueueInv'
      BY <1>t, <1>1 DEF Watcher!Watch, Watcher!TypeOK, Watcher!QueueInv
    <2> QED
      BY <1>u, <1>1, <2>1, WatcherAfter DEF Watcher!Watch
  <1>2. CASE Watcher!WatchFails
    <2>1. Watcher!TypeOK' /\ Watcher!QueueInv'
      BY <1>t, <1>2 DEF Watcher!WatchFails, Watcher!TypeOK, Watcher!QueueInv
    <2> QED
      BY <1>u, <1>2, <2>1, WatcherAfter DEF Watcher!WatchFails
  <1>3. ASSUME NEW f \in 1..NumWatched, NEW m \in Masks, Watcher!Happens(f, m)
        PROVE  Watcher!IndInv'
    <2> DEFINE e == IF Len(x3) < MaxQueued THEN Watcher!Event(f, m) ELSE Watcher!Overflow
               merged == x3 # <<>> /\ (\/ x3[Len(x3)] = e
                                       \/ e = Watcher!Overflow /\ Watcher!Contains(x3, e))
    <2>1. /\ x3' = IF merged THEN x3 ELSE Append(x3, e)
          /\ x7' = IF merged THEN x7 ELSE Append(x7, e)
          /\ UNCHANGED <<x1, x2, x4, x5, x8>>
      BY <1>3 DEF Watcher!Happens
    <2>2. e \in Watcher!Events
      BY DEF Watcher!Event, Watcher!Overflow, Watcher!Events
    <2>3. Len(x3) = MaxQueued + 1 => merged
      BY <1>s, <1>t DEF Watcher!QueueInv
    <2>4. Len(x3) = MaxQueued => e = Watcher!Overflow
      OBVIOUS
    <2> HIDE DEF e, merged
    <2>5. CASE merged
      <3>1. Watcher!TypeOK' /\ Watcher!QueueInv'
        BY <1>t, <2>1, <2>5 DEF Watcher!TypeOK, Watcher!QueueInv
      <3> QED
        BY <1>u, <2>1, <2>5, <3>1, WatcherAfter
    <2>6. CASE ~merged
      <3>1. /\ x3' = Append(x3, e) /\ x3' \in Seq(Watcher!Events) /\ Len(x3') = Len(x3) + 1
            /\ x3'[Len(x3')] = e
            /\ x7' = Append(x7, e) /\ x7' \in Seq(Watcher!Events)
        BY <1>s, <2>1, <2>2, <2>6
      <3>2. Len(x3) <= MaxQueued
        BY <1>s, <1>t, <2>3, <2>6 DEF Watcher!TypeOK
      <3>3. Watcher!TypeOK'
        BY <1>s, <1>t, <2>1, <3>1, <3>2 DEF Watcher!TypeOK
      <3>4. Watcher!QueueInv'
        BY <1>s, <1>t, <2>1, <2>4, <3>1 DEF Watcher!QueueInv
      <3>5. x7' = x8' \o u \o x3'
        <4>1. Append(x8 \o u \o x3, e) = x8 \o u \o Append(x3, e)
          <5> DEFINE d == x8 \o u
          <5>1. d \in Seq(Watcher!Events)
            BY <1>s
          <5> HIDE DEF d
          <5>2. Append(d \o x3, e) = d \o Append(x3, e)
            BY ONLY <1>s, <2>2, <5>1, AppendLast
          <5> QED
            BY <5>2 DEF d
        <4> QED
          BY ONLY <1>u, <2>1, <3>1, <4>1, Zenon
      <3> QED
        BY <1>u, <2>1, <3>3, <3>4, <3>5, WatcherAfter
    <2> QED
      BY <2>5, <2>6
  <1>4. CASE Watcher!Read
    <2>1. PICK n \in 1..Len(x3) :
             /\ Watcher!Ends(x3, 0)[n] <= BufLen
             /\ x4' = [y \in 1..Watcher!Ends(x3, 0)[n] |-> Watcher!Unit(x3, n, y)]
             /\ x3' = SubSeq(x3, n + 1, Len(x3))
      BY <1>4 DEF Watcher!Read
    <2>2. x1 = "read" /\ x1' = "walk" /\ x5' = 0 /\ UNCHANGED <<x2, x6, x7, x8>>
      BY <1>4 DEF Watcher!Read
    <2> DEFINE v == SubSeq(x3, 1, n)
    <2>3. Walk(v, 0, x4') /\ Len(x4') = Watcher!Ends(x3, 0)[n]
      BY <1>s, <2>1, ReadLays
    <2>4. v \in Seq(Watcher!Events) /\ x3' \in Seq(Watcher!Events) /\ Len(x3') = Len(x3) - n
      BY <1>s, <2>1
    <2>5. x3 = v \o x3'
      BY <1>s, <2>1
    <2> HIDE DEF v
    <2>6. u = <<>>
      <3>1. x5 = 0 /\ Len(x4) = 0
        BY <1>t, <2>2 DEF Watcher!QueueInv
      <3> QED
        BY <1>u, <3>1, WalkEnds
    <2>7. x7' = x8' \o v \o x3'
      <3>1. x7 = x8 \o x3
        BY <1>u, <1>s, <2>6
      <3>2. x8 \o (v \o x3') = x8 \o v \o x3'
        BY ONLY <1>s, <2>4, Joined
      <3> QED
        BY ONLY <2>2, <2>5, <3>1, <3>2, Zenon
    <2>8. 0 <= Len(x4') /\ Len(x4') \in Nat
      BY <2>3, <2>4, WalkEnds
    <2>9. Watcher!TypeOK'
      <3>1. Len(x4') <= BufLen
        BY <2>1, <2>3
      <3>2. Len(x3') <= MaxQueued + 1
        BY <1>s, <1>t, <2>4 DEF Watcher!TypeOK
      <3>3. x5' \in 0..Len(x4')
        BY <2>2, <2>8
      <3> QED
        BY ONLY <1>t, <2>2, <3>1, <3>2, <3>3 DEF Watcher!TypeOK
    <2>10. Watcher!QueueInv'
      <3>1. Len(x3') # MaxQueued + 1
        BY <1>s, <1>t, <2>4 DEF Watcher!TypeOK
      <3> QED
        BY ONLY <1>t, <2>2, <2>4, <3>1 DEF Watcher!QueueInv
    <2> QED
      BY <2>2, <2>3, <2>4, <2>7, <2>9, <2>10, WatcherAfter
  <1>5. CASE Watcher!Display
    <2>1. /\ x1 = "walk" /\ x5 < Len(x4)
          /\ x8' = Append(x8, x4[x5 + 1])
          /\ x5' = x5 + 1 + x4[x5 + 1].len
          /\ UNCHANGED <<x1, x2, x3, x4, x6, x7>>
      BY <1>5 DEF Watcher!Display, Watcher!displayInotifyEvent
    <2>2. u # <<>> /\ x4[x5 + 1] = Head(u) /\ Walk(Tail(u), x5 + 1 + Head(u).len, x4)
      BY <1>s, <1>u, <2>1, WalkEnds
    <2>3. Head(u) \in Watcher!Events /\ Head(u).len \in Nat /\ Tail(u) \in Seq(Watcher!Events)
      BY <2>2, RecordLen
    <2>4. x5' \in Nat /\ x5' <= Len(x4') /\ Walk(Tail(u), x5', x4')
      <3>1. x5' \in Nat /\ Walk(Tail(u), x5', x4')
        BY <1>s, <2>1, <2>2, <2>3
      <3> QED
        BY <2>3, <3>1, WalkEnds
    <2>5. x8' \in Seq(Watcher!Events)
      BY <1>s, <2>1, <2>2, <2>3
    <2>6. x7' = x8' \o Tail(u) \o x3'
      <3>1. x8 \o u \o x3 = Append(x8, Head(u)) \o Tail(u) \o x3
        BY ONLY u \in Seq(Watcher!Events), <1>s, <2>2, ShiftFirst
      <3> QED
        BY ONLY <1>u, <2>1, <2>2, <3>1, Zenon
    <2>7. Watcher!TypeOK' /\ Watcher!QueueInv'
      BY <1>t, <2>1, <2>4, <2>5 DEF Watcher!TypeOK, Watcher!QueueInv
    <2> QED
      BY <2>3, <2>4, <2>6, <2>7, WatcherAfter
  <1>6. CASE Watcher!Displayed
    <2>1. /\ x1 = "walk" /\ x5 >= Len(x4) /\ x1' = "read" /\ x4' = <<>> /\ x5' = 0
          /\ UNCHANGED <<x2, x3, x6, x7, x8>>
      BY <1>6 DEF Watcher!Displayed
    <2>2. u = <<>>
      BY <1>s, <1>u, <2>1, WalkEnds
    <2>3. Walk(<<>>, 0, <<>>)
      BY EmptyWalk
    <2>4. Watcher!TypeOK' /\ Watcher!QueueInv'
      BY <1>t, <2>1 DEF Watcher!TypeOK, Watcher!QueueInv
    <2> QED
      BY <1>u, <2>1, <2>2, <2>3, <2>4, WatcherAfter
  <1>7. CASE UNCHANGED Watcher!vars
    <2>1. UNCHANGED <<x1, x2, x3, x4, x5, x7, x8>>
      BY <1>7 DEF Watcher!vars
    <2>2. Watcher!TypeOK' /\ Watcher!QueueInv'
      BY <1>t, <2>1 DEF Watcher!TypeOK, Watcher!QueueInv
    <2> QED
      BY <1>u, <2>1, <2>2, WatcherAfter
  <1> QED
    BY <1>1, <1>2, <1>3, <1>4, <1>5, <1>6, <1>7 DEF Watcher!Next, Watcher!Program

\* Every event the kernel queued is displayed once and in order, and the walk
\* over a buffer never leaves its records (inotify_demo.c lines 77-96), for any
\* lengths of names, buffer and queue and whatever arrives meanwhile.
THEOREM WatcherShowsAll == FamilySpec => []EventsShown
  <1> DEFINE P == program = "inotify_demo" => Watcher!IndInv
  <1>1. FamilyInit => P
    <2> SUFFICES ASSUME Watcher!Init PROVE Watcher!IndInv
      BY DEF FamilyInit
    <2>1. <<>> \in Seq(Watcher!Events) /\ Len(<<>>) = 0
      OBVIOUS
    <2>2. Watcher!TypeOK /\ Watcher!QueueInv
      BY <2>1, WatcherAssumption DEF Watcher!Init, Watcher!TypeOK, Watcher!QueueInv
    <2>3. Walk(<<>>, 0, <<>>)
      BY EmptyWalk
    <2>4. x7 = <<>> /\ x8 = <<>> /\ x3 = <<>> /\ x5 = 0 /\ x4 = <<>>
      BY DEF Watcher!Init
    <2>5. Watcher!Unshown = <<>>
      BY <2>4 DEF Watcher!Unshown
    <2>6. Watcher!Ends(<<>>, 0)[Len(<<>>)] = Len(<<>>)
      BY ONLY <2>1, <2>3, ShownBy
    <2>7. Watcher!EventsShown
      BY <2>4, <2>5, <2>6 DEF Watcher!EventsShown
    <2> QED
      BY <2>2, <2>7 DEF Watcher!IndInv
  <1>2. P /\ [FamilyNext]_all => P'
    <2> SUFFICES ASSUME P, [FamilyNext]_all, program' = "inotify_demo" PROVE Watcher!IndInv'
      OBVIOUS
    <2>1. program = "inotify_demo" /\ [Watcher!Next]_(Watcher!vars)
      <3>1. CASE FamilyNext
        BY <3>1 DEF FamilyNext, InEpoll, InSigio, InWatcher
      <3>2. CASE UNCHANGED all
        BY <3>2 DEF all, Watcher!vars
      <3> QED
        BY <3>1, <3>2
    <2> QED
      BY <2>1, WatcherStep
  <1>3. P => EventsShown
    BY DEF EventsShown, Watcher!IndInv
  <1> QED
    BY <1>1, <1>2, <1>3, PTL DEF FamilySpec
=============================================================================
