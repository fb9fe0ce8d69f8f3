--------------------------- MODULE PosixIpcProofs ---------------------------
(***************************************************************************)
(* The programs on POSIX IPC objects: what their run checks, for every     *)
(* value of the constants.  The variables of a program other than mq_      *)
(* notify_thread are x1, x2, ..., in the order in which its module         *)
(* declares them.                                                          *)
(***************************************************************************)
EXTENDS MCPosixIpc, Sequences, FiniteSetTheorems, TLAPS

-----------------------------------------------------------------------------
(* mq_notify_thread never registers twice and never leaves a message       *)
(* without a thread to take it.                                            *)

\* What the steps of other processes do to the registration: they use it up
\* exactly when a message arrives at an empty queue.
LEMMA OthersEffect ==
  ASSUME QueueTypeOK, Others
  PROVE  /\ QueueTypeOK'
         /\ \/ q = {} /\ reg /\ reg' = FALSE /\ notif' = notif + 1
            \/ /\ UNCHANGED <<reg, notif>>
               /\ q = {} /\ reg => q' = {}
  <1> USE DEF QueueTypeOK
  <1>1. ASSUME NEW m, NEW newPpc \in [Procs -> {"start", "blocked", "done", "failed"}],
               Take(m, newPpc)
        PROVE  /\ q' \subseteq Senders
               /\ ppc' \in [Procs -> {"start", "blocked", "done", "failed"}]
    BY <1>1 DEF Take, BlockedSenders
  <1>2. ASSUME NEW s \in Senders, Send(s) PROVE
         /\ QueueTypeOK'
         /\ \/ q = {} /\ reg /\ reg' = FALSE /\ notif' = notif + 1
            \/ /\ UNCHANGED <<reg, notif>>
               /\ q = {} /\ reg => q' = {}
    <2>1. CASE Cardinality(q) = MaxMsg
      BY <1>2, <2>1 DEF Send, Procs
    <2>2. CASE Cardinality(q) # MaxMsg /\ BlockedReceivers # {}
      BY <1>2, <2>2 DEF Send, Procs, BlockedReceivers
    <2>3. CASE Cardinality(q) # MaxMsg /\ BlockedReceivers = {}
      <3>1. /\ q' = q \cup {s} /\ ppc' = [ppc EXCEPT ![s] = "done"] /\ NotifyOnArrival
        BY <1>2, <2>3 DEF Send
      <3>2. q' \subseteq Senders
        BY <3>1
      <3>3. ppc' \in [Procs -> {"start", "blocked", "done", "failed"}]
        BY <3>1
      <3>4. CASE q = {} /\ reg
        <4>1. reg' = FALSE /\ notif' = notif + 1
          BY <3>1, <3>4 DEF NotifyOnArrival
        <4>2. notif' \in Nat
          BY <4>1
        <4>3. reg' \in BOOLEAN
          BY Zenon, <4>1
        <4> QED
          BY <3>2, <3>3, <3>4, <4>1, <4>2, <4>3
      <3>5. CASE ~(q = {} /\ reg)
        BY <3>1, <3>2, <3>3, <3>5 DEF NotifyOnArrival
      <3> QED
        BY <3>4, <3>5
    <2> QED
      BY <2>1, <2>2, <2>3
  <1>3. ASSUME NEW r \in Receivers, Receive(r) PROVE
         /\ QueueTypeOK'
         /\ UNCHANGED <<reg, notif>>
         /\ q = {} /\ reg => q' = {}
    <2>1. [ppc EXCEPT ![r] = "done"] \in [Procs -> {"start", "blocked", "done", "failed"}]
      OBVIOUS
    <2>2. CASE q = {}
      BY <1>3, <2>2 DEF Receive
    <2>3. CASE q # {}
      BY <1>1, <1>3, <2>1, <2>3 DEF Receive
    <2> QED
      BY <2>2, <2>3
  <1> QED
    BY <1>2, <1>3 DEF Others

\* The token argument: a step moves the right to register, never copies it.
LEMMA ThreadStep == IndInv /\ [Next]_vars => IndInv'
  <1> SUFFICES ASSUME IndInv, [Next]_vars PROVE IndInv'
    OBVIOUS
  <1> USE DEF IndInv, TypeOK, NeverBusy, Token, AttendedQueue
  <1>1. CASE MainSetup
    <2>1. reg = FALSE /\ notif = 0
      BY <1>1 DEF MainSetup, QueueTypeOK
    <2> QED
      BY <1>1, <2>1 DEF MainSetup, QueueTypeOK
  <1>2. CASE ThreadSetup
    <2>1. reg = FALSE /\ notif = 1 /\ mainPc = "pause"
      BY <1>2 DEF ThreadSetup, QueueTypeOK
    <2> QED
      BY <1>2, <2>1 DEF ThreadSetup, QueueTypeOK
  <1>3. CASE ThreadReceive
    <2>1. QueueTypeOK'
      BY <1>3 DEF ThreadReceive, QueueTypeOK, Take, BlockedSenders, Procs
    <2> QED
      BY <1>3, <2>1 DEF ThreadReceive
  <1>4. CASE ThreadEnd
    BY <1>4 DEF ThreadEnd, queueVars, QueueTypeOK
  <1>5. CASE OtherStep
    <2>1. /\ QueueTypeOK'
          /\ \/ q = {} /\ reg /\ reg' = FALSE /\ notif' = notif + 1
             \/ /\ UNCHANGED <<reg, notif>>
                /\ q = {} /\ reg => q' = {}
      BY <1>5, OthersEffect DEF OtherStep
    <2>2. UNCHANGED <<mainPc, draining, startEmpty>>
      BY <1>5 DEF OtherStep
    <2>3. Token'
      <3>1. CASE q = {} /\ reg /\ reg' = FALSE /\ notif' = notif + 1
        <4>1. notif = 0 /\ mainPc # "setup"
          BY <3>1 DEF QueueTypeOK
        <4> QED
          BY <2>2, <3>1, <4>1
      <3>2. CASE UNCHANGED <<reg, notif>>
        BY <2>2, <3>2
      <3> QED
        BY <2>1, <3>1, <3>2
    <2>4. AttendedQueue'
      BY <2>1, <2>2 DEF QueueTypeOK
    <2> QED
      BY <2>1, <2>2, <2>3, <2>4
  <1>6. CASE Fail
    <2>1. reg' \in BOOLEAN
      BY Zenon, <1>6 DEF Fail
    <2> QED
      BY <1>6, <2>1 DEF Fail, QueueTypeOK
  <1>7. CASE UNCHANGED vars
    BY <1>7 DEF vars, QueueTypeOK
  <1> QED
    BY <1>1, <1>2, <1>3, <1>4, <1>5, <1>6, <1>7 DEF Next, Threads

\* The invariant holds in every state.
THEOREM ThreadInvariant == Spec => []IndInv
  <1>1. Init => IndInv
    <2> SUFFICES ASSUME Init PROVE IndInv
      OBVIOUS
    <2> USE DEF Init, QueueInit
    <2>1. ppc \in [Procs -> {"start", "blocked", "done", "failed"}]
      OBVIOUS
    <2>2. reg \in BOOLEAN /\ startEmpty \in BOOLEAN
      BY Zenon
    <2>3. QueueTypeOK
      BY <2>1, <2>2 DEF QueueTypeOK
    <2> QED
      BY <2>2, <2>3 DEF IndInv, TypeOK, NeverBusy, Token, AttendedQueue
  <1> QED
    BY <1>1, ThreadStep, PTL DEF Spec

\* No thread is ever refused by mq_notify().
THEOREM ThreadNeverBusy == Spec => []NeverBusy
  BY ThreadInvariant, PTL DEF IndInv

\* No wake-up is lost.
THEOREM ThreadAttended == Spec => []AttendedQueue
  BY ThreadInvariant, PTL DEF IndInv

-----------------------------------------------------------------------------
\* A step of the family is a step of the program it names, or changes nothing.
LEMMA FamilyStep ==
  ASSUME [FamilyNext]_all
  PROVE  /\ kind' = kind
         /\ kind = "thread" => [Next]_vars
         /\ kind = "shm" => [Shm!Next]_(Shm!vars)
         /\ kind = "sem" => [Sem!Next]_(Sem!vars)
         /\ kind = "signal" => [Sig!Next]_(Sig!vars)
         /\ kind = "tools" => [Tools!Next]_(Tools!vars)
  <1>1. CASE FamilyNext
    BY <1>1 DEF FamilyNext, In, InThread, InShm, InSem, InSig, InTools
  <1>2. CASE UNCHANGED all
    BY <1>2 DEF all, Shm!vars, Sem!vars, Sig!vars, Tools!vars
  <1> QED
    BY <1>1, <1>2

-----------------------------------------------------------------------------
(* mq_notify_signal                                                        *)

\* What the steps of other processes do to its registration.
LEMMA SigOthersEffect ==
  ASSUME Sig!QueueTypeOK, Sig!Others
  PROVE  /\ Sig!QueueTypeOK'
         /\ \/ x1 = {} /\ x3 /\ x3' = FALSE /\ x4' = x4 + 1
            \/ /\ UNCHANGED <<x3, x4>>
               /\ x1 = {} /\ x3 => x1' = {}
  <1> USE DEF Sig!QueueTypeOK
  <1>1. ASSUME NEW m, NEW newPpc \in [Sig!Procs -> {"start", "blocked", "done", "failed"}],
               Sig!Take(m, newPpc)
        PROVE  /\ x1' \subseteq Senders
               /\ x2' \in [Sig!Procs -> {"start", "blocked", "done", "failed"}]
    BY <1>1 DEF Sig!Take, Sig!BlockedSenders
  <1>2. ASSUME NEW s \in Senders, Sig!Send(s) PROVE
         /\ Sig!QueueTypeOK'
         /\ \/ x1 = {} /\ x3 /\ x3' = FALSE /\ x4' = x4 + 1
            \/ /\ UNCHANGED <<x3, x4>>
               /\ x1 = {} /\ x3 => x1' = {}
    <2>1. CASE Sig!Cardinality(x1) = MaxMsg
      BY <1>2, <2>1 DEF Sig!Send, Sig!Procs
    <2>2. CASE Sig!Cardinality(x1) # MaxMsg /\ Sig!BlockedReceivers # {}
      BY <1>2, <2>2 DEF Sig!Send, Sig!Procs, Sig!BlockedReceivers
    <2>3. CASE Sig!Cardinality(x1) # MaxMsg /\ Sig!BlockedReceivers = {}
      <3>1. /\ x1' = x1 \cup {s} /\ x2' = [x2 EXCEPT ![s] = "done"] /\ Sig!NotifyOnArrival
        BY <1>2, <2>3 DEF Sig!Send
      <3>2. x1' \subseteq Senders
        BY <3>1
      <3>3. x2' \in [Sig!Procs -> {"start", "blocked", "done", "failed"}]
        BY <3>1
      <3>4. CASE x1 = {} /\ x3
        <4>1. x3' = FALSE /\ x4' = x4 + 1
          BY <3>1, <3>4 DEF Sig!NotifyOnArrival
        <4>2. x4' \in Nat
          BY <4>1
        <4>3. x3' \in BOOLEAN
          BY Zenon, <4>1
        <4> QED
          BY <3>2, <3>3, <3>4, <4>1, <4>2, <4>3
      <3>5. CASE ~(x1 = {} /\ x3)
        BY <3>1, <3>2, <3>3, <3>5 DEF Sig!NotifyOnArrival
      <3> QED
        BY <3>4, <3>5
    <2> QED
      BY <2>1, <2>2, <2>3
  <1>3. ASSUME NEW r \in Receivers, Sig!Receive(r) PROVE
         /\ Sig!QueueTypeOK'
         /\ UNCHANGED <<x3, x4>>
         /\ x1 = {} /\ x3 => x1' = {}
    <2>1. [x2 EXCEPT ![r] = "done"] \in [Sig!Procs -> {"start", "blocked", "done", "failed"}]
      OBVIOUS
    <2>2. CASE x1 = {}
      BY <1>3, <2>2 DEF Sig!Receive
    <2>3. CASE x1 # {}
      BY <1>1, <1>3, <2>1, <2>3 DEF Sig!Receive
    <2> QED
      BY <2>2, <2>3
  <1> QED
    BY <1>2, <1>3 DEF Sig!Others

\* The program is registered or notified whenever it sleeps.
LEMMA SigStep == Sig!IndInv /\ [Sig!Next]_(Sig!vars) => Sig!IndInv'
  <1> SUFFICES ASSUME Sig!IndInv, [Sig!Next]_(Sig!vars) PROVE Sig!IndInv'
    OBVIOUS
  <1> USE DEF Sig!IndInv, Sig!TypeOK, Sig!TokenInv, Sig!NeverBusy, Sig!SleepsOnEmpty
  <1>1. CASE Sig!Register
    <2>1. x8' \in BOOLEAN /\ x3' \in BOOLEAN
      BY Zenon, <1>1 DEF Sig!Register, Sig!MqNotify
    <2> QED
      BY <1>1, <2>1 DEF Sig!Register, Sig!MqNotify, Sig!QueueTypeOK
  <1>2. CASE Sig!Sigsuspend
    <2>1. x6' \in BOOLEAN
      BY Zenon, <1>2 DEF Sig!Sigsuspend
    <2> QED
      BY <1>2, <2>1 DEF Sig!Sigsuspend, Sig!QueueTypeOK
  <1>3. CASE Sig!Reregister
    <2>1. x3' \in BOOLEAN
      BY Zenon, <1>3 DEF Sig!Reregister, Sig!MqNotify
    <2> QED
      BY <1>3, <2>1 DEF Sig!Reregister, Sig!MqNotify, Sig!QueueTypeOK
  <1>4. CASE Sig!Drain
    <2>1. Sig!QueueTypeOK'
      BY <1>4 DEF Sig!Drain, Sig!QueueTypeOK, Sig!Take, Sig!BlockedSenders, Sig!Procs
    <2> QED
      BY <1>4, <2>1 DEF Sig!Drain
  <1>5. CASE Sig!Fail
    <2>1. x3' \in BOOLEAN
      BY Zenon, <1>5 DEF Sig!Fail
    <2> QED
      BY <1>5, <2>1 DEF Sig!Fail, Sig!QueueTypeOK
  <1>6. CASE Sig!OtherStep
    <2>1. UNCHANGED <<x5, x6, x7, x8>>
      BY <1>6 DEF Sig!OtherStep
    <2>2. /\ Sig!QueueTypeOK'
          /\ \/ x1 = {} /\ x3 /\ x3' = FALSE /\ x4' = x4 + 1
             \/ /\ UNCHANGED <<x3, x4>>
                /\ x1 = {} /\ x3 => x1' = {}
      BY <1>6, SigOthersEffect DEF Sig!OtherStep
    <2> QED
      BY <2>1, <2>2 DEF Sig!QueueTypeOK
  <1>7. CASE Sig!StraySignal
    <2>1. x6' \in BOOLEAN /\ x6' = TRUE
      BY Zenon, <1>7 DEF Sig!StraySignal
    <2>2. x7' \in 0..MaxStray /\ x7' # 0
      BY <1>7, FamilyAssumption DEF Sig!StraySignal
    <2> QED
      BY <1>7, <2>1, <2>2 DEF Sig!StraySignal, Sig!queueVars, Sig!QueueTypeOK
  <1>8. CASE UNCHANGED Sig!vars
    BY <1>8 DEF Sig!vars, Sig!QueueTypeOK
  <1> QED
    BY <1>1, <1>2, <1>3, <1>4, <1>5, <1>6, <1>7, <1>8 DEF Sig!Next, Sig!Program

\* The program never sleeps on a message, and meets EBUSY only after a stray
\* signal (mq_notify_signal.c lines 87-95).
THEOREM SignalSleepsOnEmpty == FamilySpec => []SleepsOnEmpty
  <1>1. FamilyInit => SleepsOnEmpty
    <2> SUFFICES ASSUME Sig!Init PROVE Sig!IndInv
      BY DEF FamilyInit, SleepsOnEmpty, Sig!IndInv
    <2> USE DEF Sig!Init, Sig!QueueInit
    <2>1. x3 \in BOOLEAN /\ x6 \in BOOLEAN /\ x8 \in BOOLEAN
      BY Zenon
    <2>2. Sig!QueueTypeOK
      BY <2>1 DEF Sig!QueueTypeOK
    <2> QED
      BY <2>1, <2>2, FamilyAssumption
      DEF Sig!IndInv, Sig!TypeOK, Sig!TokenInv, Sig!NeverBusy, Sig!SleepsOnEmpty
  <1>2. SleepsOnEmpty /\ [FamilyNext]_all => SleepsOnEmpty'
    <2> SUFFICES ASSUME SleepsOnEmpty, [FamilyNext]_all, kind' = "signal"
                 PROVE  Sig!IndInv'
      BY DEF SleepsOnEmpty, Sig!IndInv
    <2> QED
      BY FamilyStep, SigStep DEF SleepsOnEmpty
  <1> QED
    BY <1>1, <1>2, PTL DEF FamilySpec

-----------------------------------------------------------------------------
(* The semaphore tools                                                     *)

\* The instance counts as FiniteSets does.
LEMMA SemCardinality == \A S : Sem!Cardinality(S) = Cardinality(S)
  BY DEF Sem!Cardinality, Cardinality

\* Posters and waiters can be counted.
LEMMA SemDoneFinite ==
  ASSUME NEW s
  PROVE  /\ IsFiniteSet(Sem!Done(Posters, s)) /\ IsFiniteSet(Sem!Done(Waiters, s))
         /\ Cardinality(Sem!Done(Posters, s)) \in Nat
         /\ Cardinality(Sem!Done(Waiters, s)) \in Nat
  <1>1. Sem!Done(Posters, s) \subseteq Posters /\ Sem!Done(Waiters, s) \subseteq Waiters
    BY DEF Sem!Done
  <1> QED
    BY <1>1, FamilyAssumption, FS_Subset, FS_CardinalityType

\* Steps in which nobody posts or waits with success, and no value changes,
\* keep the balance of every semaphore.
LEMMA SemBalanceKept ==
  ASSUME Sem!Conserved, UNCHANGED <<x3, x4, x5>>,
         \A p \in Posters \cup Waiters :
            x1'[p] = "done" /\ x6'[p] \in 1..x3 <=> x1[p] = "done" /\ x6[p] \in 1..x3,
         \A p \in Posters \cup Waiters : x1[p] = "done" => x6'[p] = x6[p]
  PROVE  Sem!Conserved'
  <1>1. \A s \in 1..x3 : /\ Sem!Done(Posters, s)' = Sem!Done(Posters, s)
                         /\ Sem!Done(Waiters, s)' = Sem!Done(Waiters, s)
    BY DEF Sem!Done
  <1> QED
    BY <1>1 DEF Sem!Conserved

\* Every step keeps the balance, and semaphores are made before they are
\* opened.
LEMMA SemStep == Sem!IndInv /\ [Sem!Next]_(Sem!vars) => Sem!IndInv'
  <1> SUFFICES ASSUME Sem!IndInv, [Sem!Next]_(Sem!vars) PROVE Sem!IndInv'
    OBVIOUS
  <1>a. SemMax \in Nat /\ MaxSems \in Nat /\ SemValues \subseteq Nat
    BY FamilyAssumption
  <1>b. /\ \A p \in Posters : p \notin Waiters \cup Getters \cup SemCreators \cup SemUnlinkers
        /\ \A p \in Waiters : p \notin Getters \cup SemCreators \cup SemUnlinkers
    BY FamilyAssumption
  <1> USE <1>a, <1>b DEF Sem!IndInv, Sem!TypeOK, Sem!OpenInv, Sem!Move, Sem!Sems
  <1>0. Sem!Procs = SemCreators \cup Posters \cup Waiters \cup Getters \cup SemUnlinkers
    BY DEF Sem!Procs, Sem!Users
  <1>00. x2 \in 0..MaxSems /\ x2 <= x3 /\ x3 \in Nat /\ (x2 # 0 => x2 > 0)
    OBVIOUS
  <1>1. ASSUME NEW p \in Sem!Procs, NEW c \in BOOLEAN, NEW x \in BOOLEAN, NEW v \in SemValues,
               Sem!CreateOld(p, c, x, v)
        PROVE  Sem!IndInv'
    <2>0. UNCHANGED <<x2, x3, x4, x5, x7>> /\ x1[p] = "start"
      BY <1>1 DEF Sem!CreateOld
    <2>1. \/ x1' = [x1 EXCEPT ![p] = "failed"] /\ x6' = x6
          \/ x1' = [x1 EXCEPT ![p] = "done"] /\ x6' = [x6 EXCEPT ![p] = x2]
      BY <1>1 DEF Sem!CreateOld
    <2>3. Sem!TypeOK'
      BY <1>00, <2>0, <2>1, ZenonT(30)
    <2>4. Sem!OpenInv'
      BY <1>00, <2>0, <2>1
    <2>2. Sem!Conserved'
      BY <1>0, <1>1, SemBalanceKept, ZenonT(30) DEF Sem!CreateOld
    <2> QED
      BY <2>2, <2>3, <2>4
  <1>2. ASSUME NEW p \in Sem!Procs, NEW c \in BOOLEAN, NEW x \in BOOLEAN, NEW v \in SemValues,
               Sem!CreateNew(p, c, x, v)
        PROVE  Sem!IndInv'
    <2>1. CASE ~c \/ v > SemMax
      <3>1. Sem!TypeOK' /\ Sem!OpenInv'
        BY <1>2, <2>1 DEF Sem!CreateNew
      <3>2. Sem!Conserved'
        BY <1>0, <1>2, <2>1, SemBalanceKept DEF Sem!CreateNew
      <3> QED
        BY <3>1, <3>2
    <2>2. CASE ~(~c \/ v > SemMax)
      <3>1. /\ x3 < MaxSems /\ x3' = x3 + 1 /\ x2' = x3 + 1
            /\ x4' = [x4 EXCEPT ![x3 + 1] = v] /\ x5' = [x5 EXCEPT ![x3 + 1] = v]
            /\ x6' = [x6 EXCEPT ![p] = x3 + 1] /\ x1' = [x1 EXCEPT ![p] = "done"]
            /\ x7' = x7 /\ p \in SemCreators
        BY <1>2, <2>2 DEF Sem!CreateNew
      <3>2. x3' \in 0..MaxSems /\ x3 + 1 \in 1..MaxSems /\ v \in 0..SemMax
        BY <2>2, <3>1
      <3>3. Sem!TypeOK'
        BY <3>1, <3>2, SMTT(20)
      <3>4. Sem!OpenInv'
        <4>1. x6'[p] = x3 + 1 /\ x1'[p] = "done" /\ x3' = x3 + 1
          BY <3>1
        <4>2. \A y \in Sem!Procs : y # p => x6'[y] = x6[y] /\ x1'[y] = x1[y]
          BY <3>1
        <4>3. \A y \in Sem!Procs : x6[y] \in Nat /\ x6[y] <= x3 /\ x6[y] <= x3 + 1
          BY <1>00
        <4>4. x3 + 1 <= x3'
          BY <1>00, <4>1
        <4>5. ASSUME NEW y \in Sem!Procs
              PROVE  x6'[y] <= x3' /\ (x1'[y] = "opened" => x6'[y] > 0)
          <5>1. CASE y = p
            BY ONLY <4>1, <4>4, <5>1
          <5>2. CASE y # p
            <6>1. x6'[y] = x6[y] /\ x1'[y] = x1[y] /\ x6[y] <= x3 + 1
              BY <4>2, <4>3, <5>2
            <6> QED
              BY ONLY Sem!OpenInv, y \in Sem!Procs, <4>1, <6>1 DEF Sem!OpenInv
          <5> QED
            BY <5>1, <5>2
        <4> QED
          BY <4>5
      <3>5. \A s \in 1..x3 : /\ Sem!Done(Posters, s)' = Sem!Done(Posters, s)
                             /\ Sem!Done(Waiters, s)' = Sem!Done(Waiters, s)
        BY <1>0, <3>1, SMTT(20) DEF Sem!Done
      <3>6. ASSUME NEW s, s = x3 + 1
            PROVE  Sem!Done(Posters, s)' = {} /\ Sem!Done(Waiters, s)' = {}
        <4>1. \A u \in Posters \cup Waiters : x6'[u] = x6[u] /\ x6[u] <= x3 /\ x6[u] \in Nat
          BY <1>0, <3>1
        <4>2. ASSUME NEW u \in Posters \cup Waiters PROVE x6'[u] # s
          <5>1. x6'[u] \in Nat /\ x6'[u] <= x3
            BY <4>1
          <5> QED
            BY <1>00, <3>6, <5>1
        <4> QED
          BY <4>2 DEF Sem!Done
      <3>7. ASSUME NEW s \in 1..x3' PROVE
            x4'[s] = x5'[s] + Sem!Cardinality(Sem!Done(Posters, s)')
                            - Sem!Cardinality(Sem!Done(Waiters, s)')
        <4>1. CASE s \in 1..x3
          BY <3>1, <3>2, <3>5, <4>1 DEF Sem!Conserved
        <4>2. CASE s = x3 + 1
          <5>1. x4'[s] = v /\ x5'[s] = v /\ v \in Nat
            BY <3>1, <3>2, <4>2
          <5>2. Sem!Done(Posters, s)' = {} /\ Sem!Done(Waiters, s)' = {}
            BY <3>6, <4>2
          <5>3. Sem!Cardinality({}) = 0
            BY SemCardinality, FS_EmptySet
          <5> QED
            BY <5>1, <5>2, <5>3
        <4> QED
          BY <3>1, <4>1, <4>2
      <3>8. Sem!Conserved'
        BY <3>7 DEF Sem!Conserved
      <3> QED
        BY <3>3, <3>4, <3>8
    <2> QED
      BY <2>1, <2>2
  <1>3. ASSUME NEW p \in Sem!Procs, Sem!Open(p) PROVE Sem!IndInv'
    <2>0. UNCHANGED <<x2, x3, x4, x5, x7>> /\ x1[p] = "start"
      BY <1>3 DEF Sem!Open
    <2>1. \/ x1' = [x1 EXCEPT ![p] = "failed"] /\ x6' = x6
          \/ x2 # 0 /\ x1' = [x1 EXCEPT ![p] = "opened"] /\ x6' = [x6 EXCEPT ![p] = x2]
      BY <1>3 DEF Sem!Open
    <2>2. Sem!Conserved'
      BY <1>0, <1>3, SemBalanceKept DEF Sem!Open
    <2>3. Sem!TypeOK'
      BY <1>00, <2>0, <2>1, ZenonT(30)
    <2>4. Sem!OpenInv'
      BY <1>00, <2>0, <2>1
    <2> QED
      BY <2>2, <2>3, <2>4
  <1>4. ASSUME NEW p \in Sem!Procs, Sem!Post(p) PROVE Sem!IndInv'
    <2>0. p \in Posters /\ x1[p] = "opened" /\ x6[p] \in 1..x3 /\ x6[p] \in 1..MaxSems
      BY <1>4 DEF Sem!Post
    <2> PICK t : t = x6[p]
      OBVIOUS
    <2>1. CASE x4[x6[p]] = SemMax
      <3>1. Sem!TypeOK' /\ Sem!OpenInv'
        BY <1>4, <2>1 DEF Sem!Post
      <3>2. Sem!Conserved'
        BY <1>0, <1>4, <2>1, SemBalanceKept DEF Sem!Post
      <3> QED
        BY <3>1, <3>2
    <2>2. CASE x4[x6[p]] # SemMax
      <3>1. /\ x1' = [x1 EXCEPT ![p] = "done"] /\ x4' = [x4 EXCEPT ![x6[p]] = @ + 1]
            /\ UNCHANGED <<x2, x3, x5, x6, x7>>
        BY <1>4, <2>2 DEF Sem!Post
      <3>2. x4[x6[p]] + 1 \in 0..SemMax
        BY <2>0, <2>2, SMTT(20)
      <3>3. Sem!TypeOK' /\ Sem!OpenInv'
        BY <2>0, <3>1, <3>2
      <3>4. /\ Sem!Done(Posters, t)' = Sem!Done(Posters, t) \cup {p}
            /\ p \notin Sem!Done(Posters, t)
        BY <2>0, <3>1, SMTT(20) DEF Sem!Done
      <3>5. Cardinality(Sem!Done(Posters, t)') = Cardinality(Sem!Done(Posters, t)) + 1
        BY <3>4, SemDoneFinite, FS_AddElement, ZenonT(30)
      <3>6. \A s \in 1..x3 : /\ Sem!Done(Waiters, s)' = Sem!Done(Waiters, s)
                             /\ s # t => Sem!Done(Posters, s)' = Sem!Done(Posters, s)
        BY <2>0, <3>1, SMTT(20) DEF Sem!Done
      <3>7. ASSUME NEW s \in 1..x3 PROVE
            x4'[s] = x5[s] + Sem!Cardinality(Sem!Done(Posters, s)')
                           - Sem!Cardinality(Sem!Done(Waiters, s)')
        <4>1. CASE s = t
          <5>1. x4'[s] = x4[s] + 1 /\ x4[s] \in Nat /\ x5[s] \in Nat
            BY <2>0, <3>1, <4>1
          <5>2. x4[s] = x5[s] + Cardinality(Sem!Done(Posters, s))
                              - Cardinality(Sem!Done(Waiters, s))
            BY <2>0, SemCardinality DEF Sem!Conserved
          <5>3. Sem!Cardinality(Sem!Done(Posters, s)') = Cardinality(Sem!Done(Posters, s)) + 1
            BY <3>5, <4>1, SemCardinality
          <5>4. Sem!Cardinality(Sem!Done(Waiters, s)') = Cardinality(Sem!Done(Waiters, s))
            BY <3>6, SemCardinality
          <5>5. /\ Cardinality(Sem!Done(Posters, s)) \in Nat
                /\ Cardinality(Sem!Done(Waiters, s)) \in Nat
            BY SemDoneFinite
          <5>6. \A v, i, a, b \in Nat : v = i + a - b => v + 1 = i + (a + 1) - b
            OBVIOUS
          <5> QED
            BY ONLY <5>1, <5>2, <5>3, <5>4, <5>5, <5>6
        <4>2. CASE s # t
          BY <3>1, <3>6, <4>2 DEF Sem!Conserved
        <4> QED
          BY <4>1, <4>2
      <3>8. Sem!Conserved'
        BY <3>1, <3>7 DEF Sem!Conserved
      <3> QED
        BY <3>3, <3>8
    <2> QED
      BY <2>1, <2>2
  <1>5. ASSUME NEW p \in Sem!Procs, Sem!Wait(p) PROVE Sem!IndInv'
    <2>0. p \in Waiters /\ x1[p] = "opened" /\ x6[p] \in 1..x3 /\ x6[p] \in 1..MaxSems
      BY <1>5 DEF Sem!Wait
    <2>1. /\ x1' = [x1 EXCEPT ![p] = "done"] /\ x4' = [x4 EXCEPT ![x6[p]] = @ - 1]
          /\ UNCHANGED <<x2, x3, x5, x6, x7>> /\ x4[x6[p]] > 0
      BY <1>5 DEF Sem!Wait
    <2>2. x4[x6[p]] - 1 \in 0..SemMax
      BY <2>0, <2>1, SMTT(20)
    <2>3. Sem!TypeOK' /\ Sem!OpenInv'
      <3>1. Sem!TypeOK'
        <4>1. x4' \in [1..MaxSems -> 0..SemMax]
          BY <2>0, <2>1, <2>2
        <4>2. x1' \in [Sem!Procs -> {"start", "opened", "done", "failed", "killed"}]
          BY <2>1
        <4> QED
          BY <2>1, <4>1, <4>2
      <3>2. Sem!OpenInv'
        BY <2>0, <2>1, SMTT(20)
      <3> QED
        BY <3>1, <3>2
    <2> PICK t : t = x6[p]
      OBVIOUS
    <2>4. /\ Sem!Done(Waiters, t)' = Sem!Done(Waiters, t) \cup {p}
          /\ p \notin Sem!Done(Waiters, t)
      BY <2>0, <2>1, SMTT(20) DEF Sem!Done
    <2>5. Cardinality(Sem!Done(Waiters, t)') = Cardinality(Sem!Done(Waiters, t)) + 1
      BY <2>4, SemDoneFinite, FS_AddElement, ZenonT(30)
    <2>6. \A s \in 1..x3 : /\ Sem!Done(Posters, s)' = Sem!Done(Posters, s)
                           /\ s # t => Sem!Done(Waiters, s)' = Sem!Done(Waiters, s)
      BY <2>0, <2>1, SMTT(20) DEF Sem!Done
    <2>7. ASSUME NEW s \in 1..x3 PROVE
          x4'[s] = x5[s] + Sem!Cardinality(Sem!Done(Posters, s)')
                         - Sem!Cardinality(Sem!Done(Waiters, s)')
      <3>1. CASE s = t
        <4>1. x4'[s] = x4[s] - 1 /\ x4[s] \in Nat /\ x5[s] \in Nat
          BY <2>0, <2>1, <3>1
        <4>2. x4[s] = x5[s] + Cardinality(Sem!Done(Posters, s))
                            - Cardinality(Sem!Done(Waiters, s))
          BY <2>0, SemCardinality DEF Sem!Conserved
        <4>3. Sem!Cardinality(Sem!Done(Posters, s)') = Cardinality(Sem!Done(Posters, s))
          BY <2>6, SemCardinality
        <4>4. Sem!Cardinality(Sem!Done(Waiters, s)') = Cardinality(Sem!Done(Waiters, s)) + 1
          BY <2>5, <3>1, SemCardinality
        <4>5. /\ Cardinality(Sem!Done(Posters, s)) \in Nat
              /\ Cardinality(Sem!Done(Waiters, s)) \in Nat
          BY SemDoneFinite
        <4>6. \A v, i, a, b \in Nat : v = i + a - b => v - 1 = i + a - (b + 1)
          OBVIOUS
        <4> QED
          BY ONLY <4>1, <4>2, <4>3, <4>4, <4>5, <4>6
      <3>2. CASE s # t
        BY <2>1, <2>6, <3>2 DEF Sem!Conserved
      <3> QED
        BY <3>1, <3>2
    <2>8. Sem!Conserved'
      BY <2>1, <2>7 DEF Sem!Conserved
    <2> QED
      BY <2>3, <2>8
  <1>6. ASSUME NEW p \in Sem!Procs, Sem!GetValue(p) PROVE Sem!IndInv'
    <2>0. p \in Getters /\ x1[p] = "opened" /\ x6[p] \in 1..MaxSems
      BY <1>6 DEF Sem!GetValue
    <2>3. x4[x6[p]] \in -1..SemMax
      BY <2>0
    <2>1. Sem!TypeOK' /\ Sem!OpenInv'
      BY <1>6, <2>0, <2>3 DEF Sem!GetValue
    <2>2. Sem!Conserved'
      BY <1>0, <1>6, SemBalanceKept DEF Sem!GetValue
    <2> QED
      BY <2>1, <2>2
  <1>7. ASSUME NEW p \in Sem!Procs, Sem!Unlink(p) PROVE Sem!IndInv'
    <2>1. Sem!TypeOK' /\ Sem!OpenInv'
      BY <1>7 DEF Sem!Unlink
    <2>2. Sem!Conserved'
      BY <1>0, <1>7, SemBalanceKept DEF Sem!Unlink
    <2> QED
      BY <2>1, <2>2
  <1>8. ASSUME NEW p \in Sem!Procs, Sem!Kill(p) PROVE Sem!IndInv'
    <2>1. Sem!TypeOK' /\ Sem!OpenInv'
      BY <1>8 DEF Sem!Kill
    <2>2. Sem!Conserved'
      BY <1>0, <1>8, SemBalanceKept DEF Sem!Kill
    <2> QED
      BY <2>1, <2>2
  <1>9. CASE UNCHANGED Sem!vars
    <2>1. Sem!TypeOK' /\ Sem!OpenInv'
      BY <1>9 DEF Sem!vars
    <2>2. Sem!Conserved'
      BY <1>9, SemBalanceKept DEF Sem!vars
    <2> QED
      BY <2>1, <2>2
  <1> QED
    <2> HIDE DEF Sem!IndInv
    <2>1. ASSUME NEW p \in Sem!Procs, Sem!Tool(p) PROVE Sem!IndInv'
      <3>1. CASE \E c, x \in BOOLEAN, v \in SemValues :
                    Sem!CreateOld(p, c, x, v) \/ Sem!CreateNew(p, c, x, v)
        <4>1. PICK c \in BOOLEAN, x \in BOOLEAN, v \in SemValues :
                    Sem!CreateOld(p, c, x, v) \/ Sem!CreateNew(p, c, x, v)
          BY <3>1, Zenon
        <4> QED
          BY Zenon, <1>1, <1>2, <4>1
      <3> QED
        BY Zenon, <1>3, <1>4, <1>5, <1>6, <1>7, <2>1, <3>1 DEF Sem!Tool
    <2> QED
      BY Zenon, <1>8, <1>9, <2>1 DEF Sem!Next

\* No post is lost and none wakes two (psem_post.c line 21, psem_wait.c line
\* 22), for any number of semaphores and processes.
THEOREM SemConserved == FamilySpec => []Conserved
  <1>1. FamilyInit => Conserved
    <2> SUFFICES ASSUME Sem!Init PROVE Sem!IndInv
      BY DEF FamilyInit, Conserved, Sem!IndInv
    <2> QED
      BY FamilyAssumption
      DEF Sem!Init, Sem!IndInv, Sem!TypeOK, Sem!OpenInv, Sem!Conserved, Sem!Sems
  <1>2. Conserved /\ [FamilyNext]_all => Conserved'
    <2> SUFFICES ASSUME Conserved, [FamilyNext]_all, kind' = "sem" PROVE Sem!IndInv'
      BY DEF Conserved, Sem!IndInv
    <2> QED
      BY FamilyStep, SemStep DEF Conserved
  <1> QED
    BY <1>1, <1>2, PTL DEF FamilySpec

-----------------------------------------------------------------------------
(* The shared memory tools                                                 *)

\* p opens object o, an old one or, if p creates it, a new one.
LEMMA ShmOpened ==
  ASSUME Shm!IndInv,
         NEW p \in Shm!Procs \ Unlinkers, x3[p] = "open",
         NEW o \in Nat \ {0}, Shm!Opened(p, o),
         \/ o <= Len(x2) /\ x2' = x2 /\ x8' = x8 /\ x1' = x1
         \/ /\ o = Len(x2) + 1 /\ x2' = Append(x2, <<>>) /\ x8' = Append(x8, p)
            /\ x1' = o /\ p \in Creators,
         UNCHANGED <<x5, x6, x7, x9>>
  PROVE  Shm!IndInv'
  <1> USE FamilyAssumption DEF Shm!IndInv, Shm!Changers, Shm!Ended, Shm!Move, Shm!Active
  <1>1. /\ x3' = [x3 EXCEPT ![p] = "opened"] /\ x4' = [x4 EXCEPT ![p] = o]
        /\ x10' = x10 \cup
             {u \in Shm!Users(o) \cup {p} : \E r \in (Shm!Users(o) \cup {p}) \ {u} :
                                              u \in Shm!Changers \/ r \in Shm!Changers}
    BY DEF Shm!Opened
  <1>2. /\ Len(x2') \in Nat /\ Len(x2) <= Len(x2') /\ o \in 1..Len(x2')
        /\ \A i \in 1..Len(x2) : x2'[i] = x2[i] /\ x8'[i] = x8[i]
        /\ x2' \in Seq(Seq(Shm!Unit)) /\ x8' \in Seq(Creators \cup Writers)
        /\ Len(x2') = Len(x8')
    <2>1. /\ x2 \in Seq(Seq(Shm!Unit)) /\ x8 \in Seq(Creators \cup Writers)
          /\ Len(x2) = Len(x8) /\ Len(x2) \in Nat
      BY DEF Shm!TypeOK
    <2>2. CASE o <= Len(x2) /\ x2' = x2 /\ x8' = x8 /\ x1' = x1
      BY <2>1, <2>2
    <2>3. CASE /\ o = Len(x2) + 1 /\ x2' = Append(x2, <<>>) /\ x8' = Append(x8, p)
               /\ x1' = o /\ p \in Creators
      <3>1. <<>> \in Seq(Shm!Unit)
        OBVIOUS
      <3> QED
        BY <2>1, <2>3, <3>1
    <2> QED
      BY <2>2, <2>3
  <1>3. Shm!TypeOK'
    <2>1. x2' \in Seq(Seq(Shm!Unit)) /\ x8' \in Seq(Shm!Changers) /\ Len(x2') = Len(x8')
      BY <1>2
    <2>2. x1' \in 0..Len(x2')
      BY <1>2 DEF Shm!TypeOK
    <2>3. x4' \in [Shm!Procs -> 0..Len(x2')]
      BY <1>1, <1>2 DEF Shm!TypeOK
    <2>4. x10' \subseteq Shm!Procs
      BY <1>1 DEF Shm!TypeOK, Shm!Users
    <2> QED
      BY <1>1, <2>1, <2>2, <2>3, <2>4 DEF Shm!TypeOK
  <1>4. \A i \in Shm!Procs : i # p => x3'[i] = x3[i] /\ x4'[i] = x4[i]
    BY <1>1 DEF Shm!TypeOK
  <1>5. x3'[p] = "opened" /\ x4'[p] = o /\ x10 \subseteq x10'
    BY <1>1 DEF Shm!TypeOK
  <1>6. Shm!SharingInv'
    <2>1. \A i \in Shm!Procs \ Unlinkers : Shm!Active(i)' \/ x3'[i] = "done" => x4'[i] > 0
      BY <1>4, <1>5 DEF Shm!SharingInv
    <2>2. ASSUME NEW a \in Shm!Changers, NEW b \in Shm!Procs,
                 a # b, Shm!Active(a)', Shm!Active(b)', x4'[a] = x4'[b]
          PROVE  {a, b} \subseteq x10'
      <3>0. a \in Shm!Procs
        BY DEF Shm!Procs
      <3>1. CASE a # p /\ b # p
        BY <1>4, <1>5, <2>2, <3>0, <3>1 DEF Shm!SharingInv
      <3>2. CASE a = p
        <4>1. b \in Shm!Users(o)
          BY <1>4, <1>5, <2>2, <3>2 DEF Shm!Users
        <4> QED
          BY <1>1, <2>2, <3>2, <4>1
      <3>3. CASE b = p
        <4>1. a \in Shm!Users(o)
          BY <1>4, <1>5, <2>2, <3>0, <3>3 DEF Shm!Users
        <4> QED
          BY <1>1, <2>2, <3>3, <4>1
      <3> QED
        BY <3>1, <3>2, <3>3
    <2>3. \A u \in Unlinkers : ~Shm!Active(u)'
      BY <1>4 DEF Shm!SharingInv, Shm!Procs
    <2> QED
      BY <2>1, <2>2, <2>3 DEF Shm!SharingInv
  <1>7. \A i \in Writers \cup Readers \cup Creators : i \in Shm!Procs
    BY DEF Shm!Procs
  <1>8. \A i \in Shm!Procs \ Unlinkers : x3[i] \in {"copy", "print", "done"}
           => x4[i] \in 1..Len(x2) /\ x4'[i] = x4[i] /\ x3'[i] = x3[i] /\ i # p
    <2> SUFFICES ASSUME NEW i \in Shm!Procs \ Unlinkers, x3[i] \in {"copy", "print", "done"}
                 PROVE  x4[i] \in 1..Len(x2) /\ x4'[i] = x4[i] /\ x3'[i] = x3[i] /\ i # p
      OBVIOUS
    <2>1. x4[i] > 0
      BY DEF Shm!SharingInv
    <2>2. x4[i] \in 0..Len(x2) /\ Len(x2) \in Nat
      BY DEF Shm!TypeOK
    <2> QED
      BY <1>4, <2>1, <2>2
  <1>9. Shm!LastInv'
    <2>1. ASSUME NEW i \in 1..Len(x2'), x8'[i] \in Writers
          PROVE  x4'[x8'[i]] = i /\ x3'[x8'[i]] \notin {"open", "opened"}
      <3>1. i \in 1..Len(x2) /\ x8'[i] = x8[i]
        BY <1>2, <2>1, SMTT(20) DEF Shm!TypeOK
      <3>2. x8[i] # p
        BY <2>1, <3>1 DEF Shm!LastInv
      <3> QED
        BY <1>4, <1>7, <2>1, <3>1, <3>2 DEF Shm!LastInv
    <2>2. ASSUME NEW w \in Writers, x3'[w] = "copy"
          PROVE  x8'[x4'[w]] = w \/ (w \in x10' /\ x8'[x4'[w]] \in x10')
      <3>1. x3[w] = "copy" /\ x4'[w] = x4[w] /\ x8'[x4'[w]] = x8[x4[w]]
        BY <1>2, <1>4, <1>5, <1>7, <1>8, <2>2
      <3> QED
        BY <1>5, <3>1 DEF Shm!LastInv
    <2> QED
      BY <2>1, <2>2 DEF Shm!LastInv
  <1>10. Shm!CopyInv'
    <2>1. ASSUME NEW w \in Writers, x3'[w] = "copy"
          PROVE  x3[w] = "copy" /\ x4'[w] = x4[w] /\ x2'[x4'[w]] = x2[x4[w]]
      BY <1>2, <1>4, <1>5, <1>7, <1>8, <2>1
    <2>2. ASSUME NEW r \in Readers, x3'[r] = "print"
          PROVE  x3[r] = "print" /\ x4'[r] = x4[r] /\ x2'[x4'[r]] = x2[x4[r]]
                   /\ x8'[x4'[r]] = x8[x4[r]]
      BY <1>2, <1>4, <1>5, <1>7, <1>8, <2>2
    <2> QED
      BY <1>5, <2>1, <2>2 DEF Shm!CopyInv
  <1>11. Shm!PrintInv'
    BY <1>4, <1>5, <1>7 DEF Shm!PrintInv
  <1>12. Shm!WholeMessage' /\ Shm!ReadsWhole' /\ Shm!FaultsOnlyMixed'
    <2>1. ASSUME NEW w \in Writers, x3'[w] = "done"
          PROVE  x3[w] = "done" /\ x4'[w] = x4[w] /\ x2'[x4'[w]] = x2[x4[w]]
                   /\ x8'[x4'[w]] = x8[x4[w]]
      BY <1>2, <1>4, <1>5, <1>7, <1>8, <2>1
    <2>2. Shm!WholeMessage'
      BY <1>5, <2>1 DEF Shm!WholeMessage, Shm!Message
    <2>3. Shm!ReadsWhole'
      BY <1>4, <1>5, <1>7 DEF Shm!ReadsWhole, Shm!Message
    <2>4. Shm!FaultsOnlyMixed'
      BY <1>4, <1>5 DEF Shm!FaultsOnlyMixed
    <2> QED
      BY <2>2, <2>3, <2>4
  <1> QED
    BY <1>3, <1>6, <1>9, <1>10, <1>11, <1>12

\* Which objects the processes at work have.
LEMMA ShmObjects ==
  ASSUME Shm!IndInv
  PROVE  /\ Len(x2) \in Nat /\ Len(x8) = Len(x2)
         /\ \A i \in Creators \cup Writers \cup Readers : i \in Shm!Procs \ Unlinkers
         /\ \A i \in Shm!Procs \ Unlinkers : x3[i] \in {"opened", "copy", "print", "done"}
              => x4[i] \in 1..Len(x2)
         /\ \A i \in 1..Len(x2) : x2[i] \in Seq(Shm!Unit) /\ Len(x2[i]) \in Nat
  <1> USE DEF Shm!IndInv
  <1>1. Len(x2) \in Nat /\ Len(x8) = Len(x2)
    BY DEF Shm!TypeOK
  <1>2. \A i \in Creators \cup Writers \cup Readers : i \in Shm!Procs \ Unlinkers
    BY FamilyAssumption DEF Shm!Procs
  <1>3. ASSUME NEW i \in Shm!Procs \ Unlinkers, x3[i] \in {"opened", "copy", "print", "done"}
        PROVE  x4[i] \in 1..Len(x2)
    <2>1. x4[i] > 0
      BY <1>3 DEF Shm!SharingInv, Shm!Active, Shm!Ended
    <2>2. x4[i] \in 0..Len(x2)
      BY DEF Shm!TypeOK
    <2> QED
      BY <1>1, <2>1, <2>2
  <1>4. \A i \in 1..Len(x2) : x2[i] \in Seq(Shm!Unit) /\ Len(x2[i]) \in Nat
    BY DEF Shm!TypeOK
  <1> QED
    BY <1>1, <1>2, <1>3, <1>4

\* p resizes its object to k units: what others that are alone have there is
\* not touched, since nobody else at work on the object is alone.
LEMMA ShmResized ==
  ASSUME Shm!IndInv, NEW p \in Shm!Changers, NEW k \in Nat, NEW to,
         x3[p] = "opened", Shm!Resize(p, k), Shm!Move(p, to),
         x5' = IF p \in Writers THEN [x5 EXCEPT ![p] = k] ELSE x5,
         to = "failed" \/ (to = "done" /\ p \in Creators)
           \/ (to = "copy" /\ p \in Writers /\ k > 0 /\ k = MsgLen[p]),
         UNCHANGED <<x1, x4, x6, x7, x9, x10>>
  PROVE  Shm!IndInv'
  <1> USE FamilyAssumption DEF Shm!IndInv, Shm!Ended, Shm!Active
  <1>0. PICK o : o = x4[p]
    OBVIOUS
  <1>1. p \in Shm!Procs \ Unlinkers /\ p \in Creators \cup Writers /\ p \notin Readers
    BY DEF Shm!Changers, Shm!Procs
  <1>2. o \in 1..Len(x2) /\ Len(x2) \in Nat /\ x2[o] \in Seq(Shm!Unit)
    BY <1>0, <1>1, ShmObjects
  <1>3. /\ x3' = [x3 EXCEPT ![p] = to] /\ x8' = [x8 EXCEPT ![o] = p]
        /\ x2' = [x2 EXCEPT ![o] = [i \in 1..k |-> IF i <= Len(x2[o]) THEN x2[o][i] ELSE Zero]]
    BY <1>0 DEF Shm!Move, Shm!Resize
  <1>4. [i \in 1..k |-> IF i <= Len(x2[o]) THEN x2[o][i] ELSE Zero] \in Seq(Shm!Unit)
    <2>1. \A i \in 1..k : (IF i <= Len(x2[o]) THEN x2[o][i] ELSE Zero) \in Shm!Unit
      BY <1>2 DEF Shm!Unit
    <2> QED
      BY <2>1
  <1>5. /\ Len(x2') = Len(x2) /\ Len(x8') = Len(x2) /\ Len(x2'[o]) = k /\ x8'[o] = p
        /\ \A i \in 1..Len(x2) : i # o => x2'[i] = x2[i] /\ x8'[i] = x8[i]
        /\ x2' \in Seq(Seq(Shm!Unit)) /\ x8' \in Seq(Shm!Changers)
    BY <1>2, <1>3, <1>4 DEF Shm!TypeOK
  <1>6. /\ \A i \in Shm!Procs : i # p => x3'[i] = x3[i] /\ x5'[i] = x5[i]
        /\ x3'[p] = to
    BY <1>1, <1>3 DEF Shm!TypeOK
  <1>7. x6[p] = 0
    BY <1>1 DEF Shm!PrintInv
  <1>8. Shm!TypeOK'
    <2>1. x3' \in [Shm!Procs -> {"open", "opened", "copy", "print"} \cup Shm!Ended]
      BY <1>1, <1>3 DEF Shm!TypeOK
    <2>2. x5' \in [Shm!Procs -> Nat]
      BY DEF Shm!TypeOK
    <2>3. \A i \in Shm!Procs : x6'[i] \in 0..x5'[i]
      <3>1. 0 \in 0..x5'[p]
        BY <1>1, <2>2
      <3> QED
        BY <1>6, <1>7, <3>1 DEF Shm!TypeOK
    <2> QED
      BY <1>5, <2>1, <2>2, <2>3 DEF Shm!TypeOK
  <1>9. \A i \in Shm!Procs : i # p /\ x4[i] = o /\ Shm!Active(i) => i \in x10 /\ p \in x10
    BY <1>0 DEF Shm!SharingInv
  <1>10. Shm!SharingInv'
    <2>1. \A i \in Shm!Procs : Shm!Active(i)' => Shm!Active(i)
      BY <1>6
    <2>2. \A i \in Shm!Changers : i \in Shm!Procs
      BY DEF Shm!Changers, Shm!Procs
    <2>3. \A i \in Shm!Procs \ Unlinkers : Shm!Active(i)' \/ x3'[i] = "done" => x4[i] > 0
      BY <1>0, <1>2, <1>6, <2>1 DEF Shm!SharingInv
    <2>4. \A u \in Unlinkers : u \in Shm!Procs
      BY DEF Shm!Procs
    <2> QED
      BY <2>1, <2>2, <2>3, <2>4 DEF Shm!SharingInv
  <1>11. Shm!LastInv'
    <2>1. ASSUME NEW i \in 1..Len(x2), x8'[i] \in Writers
          PROVE  x4[x8'[i]] = i /\ x3'[x8'[i]] \notin {"open", "opened"}
      <3>1. CASE i = o
        BY <1>0, <1>5, <1>6, <3>1
      <3>2. CASE i # o
        <4>1. x8'[i] = x8[i] /\ x8[i] \in Shm!Procs
          BY <1>5, <2>1, <3>2 DEF Shm!Procs
        <4> QED
          BY <1>6, <2>1, <4>1 DEF Shm!LastInv
      <3> QED
        BY <3>1, <3>2
    <2>2. ASSUME NEW w \in Writers, x3'[w] = "copy"
          PROVE  x8'[x4[w]] = w \/ (w \in x10 /\ x8'[x4[w]] \in x10)
      <3>0. w \in Shm!Procs \ Unlinkers
        BY DEF Shm!Procs
      <3>1. CASE w = p
        BY <1>0, <1>5, <3>1
      <3>2. CASE w # p
        <4>1. x3[w] = "copy" /\ x4[w] \in 1..Len(x2)
          BY <1>6, <2>2, <3>0, <3>2, ShmObjects
        <4>2. CASE x4[w] = o
          BY <1>5, <1>9, <3>0, <3>2, <4>1, <4>2
        <4>3. CASE x4[w] # o
          BY <1>5, <4>1, <4>3 DEF Shm!LastInv
        <4> QED
          BY <4>2, <4>3
      <3> QED
        BY <3>1, <3>2
    <2> QED
      BY <1>5, <2>1, <2>2 DEF Shm!LastInv
  <1>12. Shm!CopyInv'
    <2>1. ASSUME NEW w \in Writers, x3'[w] = "copy"
          PROVE  /\ x5'[w] = MsgLen[w] /\ x6[w] < x5'[w]
                 /\ w \notin x10 => /\ Len(x2'[x4[w]]) = MsgLen[w]
                                    /\ \A i \in 1..x6[w] : x2'[x4[w]][i] = w
      <3>0. w \in Shm!Procs \ Unlinkers
        BY DEF Shm!Procs
      <3>1. CASE w = p
        <4>1. to = "copy" /\ k > 0 /\ k = MsgLen[p] /\ x5'[p] = k
          BY <1>6, <2>1, <3>0, <3>1 DEF Shm!TypeOK
        <4> QED
          BY <1>0, <1>5, <1>7, <3>1, <4>1
      <3>2. CASE w # p
        <4>1. x3[w] = "copy" /\ x4[w] \in 1..Len(x2) /\ x5'[w] = x5[w]
          BY <1>6, <2>1, <3>0, <3>2, ShmObjects
        <4>2. CASE x4[w] = o
          BY <1>9, <3>0, <3>2, <4>1, <4>2 DEF Shm!CopyInv
        <4>3. CASE x4[w] # o
          BY <1>5, <4>1, <4>3 DEF Shm!CopyInv
        <4> QED
          BY <4>2, <4>3
      <3> QED
        BY <3>1, <3>2
    <2>2. ASSUME NEW r \in Readers, x3'[r] = "print"
          PROVE  /\ x6[r] < x5'[r]
                 /\ r \notin x10 => /\ x9[r] = x8'[x4[r]]
                                    /\ x5'[r] = Len(x2'[x4[r]])
                                    /\ x7[r] = SubSeq(x2'[x4[r]], 1, x6[r])
      <3>0. r \in Shm!Procs \ Unlinkers /\ r # p
        BY <1>1 DEF Shm!Procs
      <3>1. x3[r] = "print" /\ x4[r] \in 1..Len(x2) /\ x5'[r] = x5[r]
        BY <1>6, <2>2, <3>0, ShmObjects
      <3>2. CASE x4[r] = o
        BY <1>9, <3>0, <3>1, <3>2 DEF Shm!CopyInv
      <3>3. CASE x4[r] # o
        BY <1>5, <3>1, <3>3 DEF Shm!CopyInv
      <3> QED
        BY <3>2, <3>3
    <2> QED
      BY <2>1, <2>2 DEF Shm!CopyInv
  <1>13. Shm!PrintInv'
    <2>1. \A i \in Creators \cup Writers \cup Readers : i \in Shm!Procs
      BY DEF Shm!Procs
    <2>2. \A r \in Readers : r # p /\ x3'[r] = x3[r]
      BY <1>1, <1>6, <2>1
    <2>3. \A i \in Shm!Procs \ (Writers \cup Readers) : x6[i] = 0 /\ x5'[i] = 0
      BY <1>6 DEF Shm!PrintInv
    <2>4. \A w \in Writers : x3'[w] # "print" /\ (x3'[w] \in {"open", "opened"} => x6[w] = 0)
      BY <1>6, <1>7, <2>1 DEF Shm!PrintInv
    <2>5. ASSUME NEW r \in Readers, NEW w \in Writers,
                 x3'[r] = "done" /\ r \notin x10 /\ x9[r] = w
          PROVE  x3'[w] \in Shm!Ended
      <3>1. x3[w] \in Shm!Ended
        BY <2>2, <2>5 DEF Shm!PrintInv
      <3> QED
        BY <1>6, <2>1, <3>1
    <2> QED
      BY <2>2, <2>3, <2>4, <2>5 DEF Shm!PrintInv
  <1>14. Shm!WholeMessage'
    <2> SUFFICES ASSUME NEW w \in Writers, x3'[w] = "done", w \notin x10, x8'[x4[w]] = w
                 PROVE  x2'[x4[w]] = Shm!Message(w)
      BY DEF Shm!WholeMessage, Shm!Message
    <2>1. w # p /\ w \in Shm!Procs \ Unlinkers
      BY <1>1, <1>6 DEF Shm!Procs
    <2>2. x3[w] = "done" /\ x4[w] \in 1..Len(x2)
      BY <1>6, <2>1, ShmObjects
    <2>3. x4[w] # o
      BY <1>5, <2>1
    <2> QED
      BY <1>5, <2>2, <2>3 DEF Shm!WholeMessage
  <1>15. Shm!ReadsWhole'
    <2> SUFFICES ASSUME NEW r \in Readers, NEW w \in Writers,
                        x3'[r] = "done" /\ r \notin x10,
                        x9[r] = w /\ x3'[w] = "done" /\ w \notin x10
                 PROVE  x7[r] = Shm!Message(w)
      BY DEF Shm!ReadsWhole, Shm!Message
    <2>1. r # p /\ w # p /\ r \in Shm!Procs /\ w \in Shm!Procs
      BY <1>1, <1>6 DEF Shm!Procs
    <2> QED
      BY <1>6, <2>1 DEF Shm!ReadsWhole
  <1>16. Shm!FaultsOnlyMixed'
    <2>1. x3'[p] = "done" => x6[p] = 0 /\ x5'[p] = 0
      BY <1>1, <1>6, <1>7 DEF Shm!PrintInv
    <2> QED
      BY <1>6, <2>1 DEF Shm!FaultsOnlyMixed
  <1> QED
    BY <1>8, <1>10, <1>11, <1>12, <1>13, <1>14, <1>15, <1>16

\* One element of a sequence replaced.
LEMMA SeqExcept ==
  ASSUME NEW S, NEW s \in Seq(S), NEW i \in 1..Len(s), NEW e \in S
  PROVE  /\ [s EXCEPT ![i] = e] \in Seq(S) /\ Len([s EXCEPT ![i] = e]) = Len(s)
         /\ [s EXCEPT ![i] = e][i] = e
         /\ \A k \in 1..Len(s) : k # i => [s EXCEPT ![i] = e][k] = s[k]
  OBVIOUS

\* A unit of a writer's memcpy(): a writer that is alone stores it, and one
\* that is not spoils nothing that counts.
LEMMA ShmCopied ==
  ASSUME Shm!IndInv, NEW w \in Writers, Shm!WriteCopy(w)
  PROVE  Shm!IndInv'
  <1> USE FamilyAssumption DEF Shm!IndInv, Shm!Ended, Shm!Active
  <1>0. PICK o, n : o = x4[w] /\ n = x6[w] + 1
    OBVIOUS
  <1>1. w \in Shm!Procs \ Unlinkers /\ w \in Shm!Changers /\ w \notin Readers
          /\ x3[w] = "copy" /\ x6[w] < x5[w]
    BY DEF Shm!WriteCopy, Shm!Procs, Shm!Changers
  <1>2. /\ o \in 1..Len(x2) /\ Len(x2) \in Nat /\ x2[o] \in Seq(Shm!Unit)
        /\ Len(x2[o]) \in Nat
    BY <1>0, <1>1, ShmObjects
  <1>3. x6' = [x6 EXCEPT ![w] = n] /\ UNCHANGED <<x1, x4, x5, x7, x8, x9, x10>>
    BY <1>0 DEF Shm!WriteCopy
  <1>4. n \in Nat /\ n <= x5[w] /\ x6'[w] = n /\ x5[w] \in Nat /\ x6[w] \in Nat
    BY <1>0, <1>1, <1>3 DEF Shm!TypeOK
  <1>5. PICK to : /\ x3' = [x3 EXCEPT ![w] = to]
                  /\ to \in {"copy", "done", "sigbus"}
                  /\ to = "copy" => n # x5[w]
                  /\ to = "done" => n = x5[w]
                  /\ \/ n <= Len(x2[o]) /\ x2' = [x2 EXCEPT ![o][n] = w] /\ to # "sigbus"
                     \/ ~(n <= Len(x2[o])) /\ x2' = x2
    <2>1. x6'[w] = n
      BY <1>4
    <2> QED
      BY <1>0, <2>1, ZenonT(30) DEF Shm!WriteCopy, Shm!Move
  <1>6. /\ Len(x2') = Len(x2) /\ Len(x2'[o]) = Len(x2[o])
        /\ \A i \in 1..Len(x2) : i # o => x2'[i] = x2[i]
        /\ x2' \in Seq(Seq(Shm!Unit))
        /\ \A i \in 1..Len(x2[o]) : i # n => x2'[o][i] = x2[o][i]
        /\ n <= Len(x2[o]) => x2'[o][n] = w
    <2>1. CASE n <= Len(x2[o]) /\ x2' = [x2 EXCEPT ![o][n] = w]
      <3>1. n \in 1..Len(x2[o])
        BY <1>0, <1>2, <1>4, <2>1
      <3>2. w \in Shm!Unit
        BY DEF Shm!Unit
      <3>3. [x2[o] EXCEPT ![n] = w] \in Seq(Shm!Unit)
        BY <1>2, <3>1, <3>2
      <3>4. x2' = [x2 EXCEPT ![o] = [x2[o] EXCEPT ![n] = w]]
        BY <2>1
      <3>5. x2 \in Seq(Seq(Shm!Unit))
        BY DEF Shm!TypeOK
      <3>6. x2'[o] = [x2[o] EXCEPT ![n] = w] /\ Len(x2') = Len(x2) /\ x2' \in Seq(Seq(Shm!Unit))
        <4>1. PICK e \in Seq(Shm!Unit) : e = [x2[o] EXCEPT ![n] = w]
          BY <3>3
        <4>2. x2' = [x2 EXCEPT ![o] = e]
          BY <3>4, <4>1
        <4>3. x2'[o] = e /\ Len(x2') = Len(x2) /\ x2' \in Seq(Seq(Shm!Unit))
          BY <1>2, <3>5, <4>2, SeqExcept
        <4> QED
          BY <4>1, <4>3
      <3>7. \A i \in 1..Len(x2) : i # o => x2'[i] = x2[i]
        BY <1>2, <3>3, <3>4, <3>5, SeqExcept
      <3>8. /\ Len([x2[o] EXCEPT ![n] = w]) = Len(x2[o]) /\ [x2[o] EXCEPT ![n] = w][n] = w
            /\ \A i \in 1..Len(x2[o]) : i # n => [x2[o] EXCEPT ![n] = w][i] = x2[o][i]
        BY <1>2, <3>1, <3>2, SeqExcept
      <3> QED
        BY <3>6, <3>7, <3>8
    <2>2. CASE ~(n <= Len(x2[o])) /\ x2' = x2
      BY <1>2, <2>2 DEF Shm!TypeOK
    <2> QED
      BY <1>5, <2>1, <2>2
  <1>7. /\ \A i \in Shm!Procs : i # w => x3'[i] = x3[i] /\ x6'[i] = x6[i]
        /\ x3'[w] = to
    BY <1>1, <1>3, <1>5 DEF Shm!TypeOK
  <1>8. w \notin x10 => n <= Len(x2[o]) /\ to # "sigbus" /\ Len(x2[o]) = MsgLen[w]
                          /\ x5[w] = MsgLen[w] /\ \A i \in 1..x6[w] : x2[o][i] = w
    BY <1>0, <1>1, <1>4, <1>5 DEF Shm!CopyInv
  <1>9. Shm!TypeOK'
    <2>1. x3' \in [Shm!Procs -> {"open", "opened", "copy", "print"} \cup Shm!Ended]
      BY <1>1, <1>5 DEF Shm!TypeOK
    <2>2. x6' \in [Shm!Procs -> Nat]
      BY <1>3, <1>4 DEF Shm!TypeOK
    <2>3. \A i \in Shm!Procs : x6'[i] \in 0..x5[i]
      BY <1>4, <1>7 DEF Shm!TypeOK
    <2> QED
      BY <1>3, <1>6, <2>1, <2>2, <2>3 DEF Shm!TypeOK
  <1>10. \A i \in Shm!Procs : i # w /\ x4[i] = o /\ Shm!Active(i) => i \in x10 /\ w \in x10
    BY <1>0, <1>1 DEF Shm!SharingInv
  <1>11. Shm!SharingInv'
    <2>1. \A i \in Shm!Procs : Shm!Active(i)' => Shm!Active(i)
      BY <1>1, <1>7
    <2>2. \A i \in Shm!Changers \cup Unlinkers : i \in Shm!Procs
      BY DEF Shm!Changers, Shm!Procs
    <2>3. \A i \in Shm!Procs \ Unlinkers : Shm!Active(i)' \/ x3'[i] = "done" => x4[i] > 0
      BY <1>0, <1>2, <1>7, <2>1 DEF Shm!SharingInv
    <2> QED
      BY <1>3, <2>1, <2>2, <2>3 DEF Shm!SharingInv
  <1>12. Shm!LastInv'
    <2>1. ASSUME NEW i \in 1..Len(x2), x8[i] \in Writers
          PROVE  x4[x8[i]] = i /\ x3'[x8[i]] \notin {"open", "opened"}
      <3>1. x8[i] \in Shm!Procs
        BY <2>1 DEF Shm!Procs
      <3> QED
        BY <1>5, <1>7, <2>1, <3>1 DEF Shm!LastInv
    <2>2. ASSUME NEW i \in Writers, x3'[i] = "copy" PROVE x3[i] = "copy"
      <3>1. i \in Shm!Procs
        BY DEF Shm!Procs
      <3> QED
        BY <1>1, <1>7, <2>2, <3>1
    <2> QED
      BY <1>3, <1>6, <2>1, <2>2 DEF Shm!LastInv
  <1>13. Shm!CopyInv'
    <2>1. ASSUME NEW i \in Writers, x3'[i] = "copy"
          PROVE  /\ x5[i] = MsgLen[i] /\ x6'[i] < x5[i]
                 /\ i \notin x10 => /\ Len(x2'[x4[i]]) = MsgLen[i]
                                    /\ \A j \in 1..x6'[i] : x2'[x4[i]][j] = i
      <3>0. i \in Shm!Procs \ Unlinkers
        BY DEF Shm!Procs
      <3>1. CASE i = w
        <4>1. x6'[w] < x5[w]
          BY <1>4, <1>5, <1>7, <2>1, <3>1
        <4>2. ASSUME w \notin x10, NEW j \in 1..n PROVE x2'[o][j] = w
          <5>1. j \in 1..Len(x2[o])
            BY <1>2, <1>4, <1>8, <4>2
          <5>2. CASE j = n
            BY <1>6, <1>8, <4>2, <5>2
          <5>3. CASE j # n
            <6>1. j \in 1..x6[w]
              BY <1>0, <1>4, <5>3
            <6> QED
              BY <1>6, <1>8, <4>2, <5>1, <5>3, <6>1
          <5> QED
            BY <5>2, <5>3
        <4>3. x5[w] = MsgLen[w]
          BY <1>1 DEF Shm!CopyInv
        <4> QED
          BY <1>0, <1>4, <1>6, <1>8, <3>1, <4>1, <4>2, <4>3
      <3>2. CASE i # w
        <4>1. x3[i] = "copy" /\ x4[i] \in 1..Len(x2) /\ x6'[i] = x6[i]
          BY <1>7, <2>1, <3>0, <3>2, ShmObjects
        <4>2. CASE x4[i] = o
          BY <1>10, <3>0, <3>2, <4>1, <4>2 DEF Shm!CopyInv
        <4>3. CASE x4[i] # o
          BY <1>6, <4>1, <4>3 DEF Shm!CopyInv
        <4> QED
          BY <4>2, <4>3
      <3> QED
        BY <3>1, <3>2
    <2>2. ASSUME NEW r \in Readers, x3'[r] = "print"
          PROVE  /\ x6'[r] < x5[r]
                 /\ r \notin x10 => /\ x9[r] = x8[x4[r]]
                                    /\ x5[r] = Len(x2'[x4[r]])
                                    /\ x7[r] = SubSeq(x2'[x4[r]], 1, x6'[r])
      <3>0. r \in Shm!Procs \ Unlinkers /\ r # w
        BY <1>1 DEF Shm!Procs
      <3>1. x3[r] = "print" /\ x4[r] \in 1..Len(x2) /\ x6'[r] = x6[r]
        BY <1>7, <2>2, <3>0, ShmObjects
      <3>2. CASE x4[r] = o
        BY <1>10, <3>0, <3>1, <3>2 DEF Shm!CopyInv
      <3>3. CASE x4[r] # o
        BY <1>6, <3>1, <3>3 DEF Shm!CopyInv
      <3> QED
        BY <3>2, <3>3
    <2> QED
      BY <1>3, <2>1, <2>2 DEF Shm!CopyInv
  <1>14. Shm!PrintInv'
    <2>1. \A i \in Creators \cup Writers \cup Readers : i \in Shm!Procs
      BY DEF Shm!Procs
    <2>2. \A r \in Readers : r # w /\ x3'[r] = x3[r] /\ x6'[r] = x6[r]
      BY <1>1, <1>7, <2>1
    <2>3. \A i \in Shm!Procs \ (Writers \cup Readers) : x6'[i] = 0 /\ x5[i] = 0
      BY <1>7 DEF Shm!PrintInv
    <2>4. \A i \in Writers : x3'[i] # "print" /\ (x3'[i] \in {"open", "opened"} => x6'[i] = 0)
      BY <1>5, <1>7, <2>1 DEF Shm!PrintInv
    <2>5. ASSUME NEW r \in Readers, NEW i \in Writers,
                 x3'[r] = "done" /\ r \notin x10 /\ x9[r] = i
          PROVE  x3'[i] \in Shm!Ended
      <3>1. x3[i] \in Shm!Ended
        BY <2>2, <2>5 DEF Shm!PrintInv
      <3> QED
        BY <1>1, <1>7, <2>1, <3>1
    <2> QED
      BY <1>3, <2>2, <2>3, <2>4, <2>5 DEF Shm!PrintInv
  <1>15. Shm!WholeMessage'
    <2> SUFFICES ASSUME NEW i \in Writers, x3'[i] = "done", i \notin x10, x8[x4[i]] = i
                 PROVE  x2'[x4[i]] = Shm!Message(i)
      BY <1>3 DEF Shm!WholeMessage, Shm!Message
    <2>0. i \in Shm!Procs \ Unlinkers
      BY DEF Shm!Procs
    <2>1. CASE i = w
      <3>1. n = MsgLen[w] /\ Len(x2'[o]) = MsgLen[w] /\ x2'[o] \in Seq(Shm!Unit)
        BY <1>2, <1>5, <1>6, <1>7, <1>8, <2>1
      <3>2. ASSUME NEW j \in 1..MsgLen[w] PROVE x2'[o][j] = w
        <4>1. CASE j = n
          BY <1>6, <1>8, <2>1, <4>1
        <4>2. CASE j # n
          <5>1. j \in 1..x6[w] /\ j \in 1..Len(x2[o])
            BY <1>0, <1>4, <1>6, <3>1, <4>2
          <5> QED
            BY <1>6, <1>8, <2>1, <4>2, <5>1
        <4> QED
          BY <4>1, <4>2
      <3>3. x2'[o] = [j \in 1..MsgLen[w] |-> w]
        BY <3>1, <3>2
      <3> QED
        BY <1>0, <2>1, <3>3 DEF Shm!Message
    <2>2. CASE i # w
      <3>1. x3[i] = "done" /\ x4[i] \in 1..Len(x2)
        BY <1>7, <2>0, <2>2, ShmObjects
      <3>2. x4[i] # o
        BY <1>0, <1>1, <2>2 DEF Shm!LastInv
      <3> QED
        BY <1>6, <3>1, <3>2 DEF Shm!WholeMessage
    <2> QED
      BY <2>1, <2>2
  <1>16. Shm!ReadsWhole'
    <2> SUFFICES ASSUME NEW r \in Readers, NEW i \in Writers,
                        x3'[r] = "done" /\ r \notin x10,
                        x9[r] = i /\ x3'[i] = "done" /\ i \notin x10
                 PROVE  x7[r] = Shm!Message(i)
      BY <1>3 DEF Shm!ReadsWhole, Shm!Message
    <2>1. r # w /\ r \in Shm!Procs /\ i \in Shm!Procs
      BY <1>1 DEF Shm!Procs
    <2>2. x3[r] = "done"
      BY <1>7, <2>1
    <2>3. i # w
      BY <1>1, <2>2 DEF Shm!PrintInv
    <2> QED
      BY <1>7, <2>1, <2>2, <2>3 DEF Shm!ReadsWhole
  <1>17. Shm!FaultsOnlyMixed'
    <2>1. x3'[w] = "done" => ~(x6'[w] < x5[w])
      BY <1>4, <1>5, <1>7
    <2>2. x3'[w] = "sigbus" => w \in x10
      BY <1>7, <1>8
    <2> QED
      BY <1>3, <1>7, <2>1, <2>2 DEF Shm!FaultsOnlyMixed
  <1> QED
    BY <1>9, <1>11, <1>12, <1>13, <1>14, <1>15, <1>16, <1>17

\* A step of a reader, or one that ends a process, leaves the objects and the
\* writers' marks as they are.
LEMMA ShmReads ==
  ASSUME Shm!IndInv, NEW r \in Readers, Shm!ReadStat(r) \/ Shm!ReadPrint(r)
  PROVE  Shm!IndInv'
  <1> USE FamilyAssumption DEF Shm!IndInv, Shm!Ended, Shm!Active
  <1>0. PICK o, n : o = x4[r] /\ n = x6[r] + 1
    OBVIOUS
  <1>1. /\ r \in Shm!Procs \ Unlinkers /\ r \notin Writers \cup Creators
        /\ \A i \in Creators \cup Writers \cup Readers : i \in Shm!Procs
    BY DEF Shm!Procs
  <1>2. /\ o \in 1..Len(x2) /\ Len(x2) \in Nat /\ x2[o] \in Seq(Shm!Unit)
        /\ Len(x2[o]) \in Nat /\ x8[o] \in Shm!Changers /\ x3[r] \in {"opened", "print"}
    <2>1. x3[r] \in {"opened", "print"}
      BY DEF Shm!ReadStat, Shm!ReadPrint
    <2>2. o \in 1..Len(x2)
      BY <1>0, <1>1, <2>1, ShmObjects
    <2> QED
      BY <2>1, <2>2, ShmObjects DEF Shm!TypeOK
  <1>3. x6[r] \in Nat /\ x5[r] \in Nat /\ x7[r] \in Seq(Shm!Unit) /\ x6[r] \in 0..x5[r]
    BY <1>1 DEF Shm!TypeOK
  \* What the step does to the reader itself.
  <1> DEFINE to == x3'[r]
             l == x5'[r]
             m == x6'[r]
             u == x7'[r]
             s == x9'[r]
  <1>4.   /\ x3' = [x3 EXCEPT ![r] = to] /\ x5' = [x5 EXCEPT ![r] = l]
          /\ x6' = [x6 EXCEPT ![r] = m] /\ x7' = [x7 EXCEPT ![r] = u]
          /\ x9' = [x9 EXCEPT ![r] = s]
          /\ to \in {"failed", "print", "done"}
          /\ l \in Nat /\ m \in 0..l /\ u \in Seq(Shm!Unit) /\ s \in Shm!Changers \cup {Zero}
          /\ to = "print" => m < l
          /\ to \in {"print", "done"} /\ r \notin x10 =>
               s = x8[o] /\ l = Len(x2[o]) /\ u = SubSeq(x2[o], 1, m)
          /\ to = "done" /\ r \notin x10 => m = l
    <2>1. CASE Shm!ReadStat(r)
      <3>1. x3' = [x3 EXCEPT ![r] = IF Len(x2[o]) = 0 THEN "failed" ELSE "print"]
        <4>1. x5'[r] = Len(x2[o])
          BY <1>0, <1>1, <2>1 DEF Shm!ReadStat, Shm!TypeOK
        <4> QED
          BY <2>1, <4>1 DEF Shm!ReadStat, Shm!Move
      <3>2. x6[r] = 0 /\ x7[r] = <<>>
        BY <1>1, <2>1 DEF Shm!ReadStat, Shm!PrintInv
      <3>3. /\ x5' = [x5 EXCEPT ![r] = Len(x2[o])] /\ x9' = [x9 EXCEPT ![r] = x8[o]]
            /\ x6' = [x6 EXCEPT ![r] = 0] /\ x7' = [x7 EXCEPT ![r] = <<>>]
        BY <1>0, <2>1, <3>2 DEF Shm!ReadStat, Shm!TypeOK
      <3>4. <<>> = SubSeq(x2[o], 1, 0) /\ <<>> \in Seq(Shm!Unit)
        BY <1>2
      <3>5. /\ to = (IF Len(x2[o]) = 0 THEN "failed" ELSE "print")
            /\ l = Len(x2[o]) /\ m = 0 /\ u = <<>> /\ s = x8[o]
        BY <1>1, <3>1, <3>3 DEF Shm!TypeOK
      <3> HIDE DEF to, l, m, u, s
      <3> QED
        BY <1>2, <3>1, <3>3, <3>4, <3>5
    <2>2. CASE Shm!ReadPrint(r)
      <3>1. x3[r] = "print" /\ x6[r] < x5[r] /\ n <= x5[r] /\ n \in Nat
        BY <1>0, <1>3, <2>2 DEF Shm!ReadPrint
      <3>2. UNCHANGED <<x5, x9>> /\ x9[r] \in Shm!Changers \cup {Zero}
        BY <2>2 DEF Shm!ReadPrint, Shm!TypeOK
      <3>3. x5' = [x5 EXCEPT ![r] = x5[r]] /\ x9' = [x9 EXCEPT ![r] = x9[r]]
        BY <1>1, <3>2 DEF Shm!TypeOK
      <3>4. r \notin x10 => /\ x9[r] = x8[o] /\ x5[r] = Len(x2[o])
                            /\ x7[r] = SubSeq(x2[o], 1, x6[r])
        BY <1>0, <3>1 DEF Shm!CopyInv
      <3>5. ASSUME NEW e \in Shm!Unit, x6' = [x6 EXCEPT ![r] = n],
                   x7' = [x7 EXCEPT ![r] = Append(x7[r], e)],
                   Shm!Move(r, IF n = x5[r] THEN "done" ELSE "print"),
                   r \notin x10 => e = x2[o][n]
            PROVE  /\ x6' = [x6 EXCEPT ![r] = n] /\ n \in 0..x5[r]
                   /\ x7' = [x7 EXCEPT ![r] = Append(x7[r], e)]
                   /\ x3' = [x3 EXCEPT ![r] = IF n = x5[r] THEN "done" ELSE "print"]
                   /\ Append(x7[r], e) \in Seq(Shm!Unit)
                   /\ r \notin x10 => Append(x7[r], e) = SubSeq(x2[o], 1, n)
        <4>1. Append(x7[r], e) \in Seq(Shm!Unit)
          BY <1>3
        <4>2. ASSUME r \notin x10 PROVE Append(x7[r], e) = SubSeq(x2[o], 1, n)
          <5>1. n \in 1..Len(x2[o]) /\ n - 1 = x6[r]
            BY <1>0, <1>3, <3>1, <3>4, <4>2
          <5> QED
            BY <1>2, <3>4, <3>5, <4>2, <5>1
        <4> QED
          BY <3>1, <3>5, <4>1, <4>2 DEF Shm!Move
      <3>6. CASE n <= Len(x2[o])
        <4>1. x2[o][n] \in Shm!Unit
          BY <1>0, <1>2, <1>3, <3>6
        <4>2. /\ x6' = [x6 EXCEPT ![r] = n] /\ x7' = [x7 EXCEPT ![r] = Append(x7[r], x2[o][n])]
              /\ Shm!Move(r, IF n = x5[r] THEN "done" ELSE "print")
          BY <1>0, <2>2, <3>6 DEF Shm!ReadPrint
        <4>3. /\ n \in 0..x5[r]
              /\ x3' = [x3 EXCEPT ![r] = IF n = x5[r] THEN "done" ELSE "print"]
              /\ Append(x7[r], x2[o][n]) \in Seq(Shm!Unit)
              /\ r \notin x10 => Append(x7[r], x2[o][n]) = SubSeq(x2[o], 1, n)
          BY <3>5, <4>1, <4>2
        <4>4. /\ to = (IF n = x5[r] THEN "done" ELSE "print") /\ l = x5[r] /\ m = n
              /\ u = Append(x7[r], x2[o][n]) /\ s = x9[r]
          BY <1>1, <3>2, <4>2, <4>3 DEF Shm!TypeOK
        <4> HIDE DEF to, l, m, u, s
        <4>5. /\ x3' = [x3 EXCEPT ![r] = to] /\ x5' = [x5 EXCEPT ![r] = l]
              /\ x6' = [x6 EXCEPT ![r] = m] /\ x7' = [x7 EXCEPT ![r] = u]
              /\ x9' = [x9 EXCEPT ![r] = s]
          BY <3>3, <4>2, <4>3, <4>4
        <4>6. /\ to \in {"failed", "print", "done"} /\ l \in Nat /\ m \in 0..l
              /\ to = "print" => m < l
              /\ to = "done" => m = l
          BY <1>3, <3>1, <4>3, <4>4
        <4> QED
          BY <3>2, <3>4, <4>3, <4>4, <4>5, <4>6
      <3>7. CASE ~(n <= Len(x2[o]))
        <4>1. r \in x10
          BY <1>2, <3>1, <3>4, <3>7
        <4>2. CASE /\ x6' = [x6 EXCEPT ![r] = n] /\ x7' = [x7 EXCEPT ![r] = Append(x7[r], Zero)]
                   /\ Shm!Move(r, IF n = x5[r] THEN "done" ELSE "print")
          <5>1. Zero \in Shm!Unit
            BY DEF Shm!Unit
          <5>2. /\ n \in 0..x5[r]
                /\ x3' = [x3 EXCEPT ![r] = IF n = x5[r] THEN "done" ELSE "print"]
                /\ Append(x7[r], Zero) \in Seq(Shm!Unit)
            BY <3>5, <4>1, <4>2, <5>1
          <5>3. /\ to = (IF n = x5[r] THEN "done" ELSE "print") /\ l = x5[r] /\ m = n
                /\ u = Append(x7[r], Zero) /\ s = x9[r]
            BY <1>1, <3>2, <4>2, <5>2 DEF Shm!TypeOK
          <5> HIDE DEF to, l, m, u, s
          <5>4. /\ x3' = [x3 EXCEPT ![r] = to] /\ x5' = [x5 EXCEPT ![r] = l]
                /\ x6' = [x6 EXCEPT ![r] = m] /\ x7' = [x7 EXCEPT ![r] = u]
                /\ x9' = [x9 EXCEPT ![r] = s]
            BY <3>3, <4>2, <5>2, <5>3
          <5>5. /\ to \in {"failed", "print", "done"} /\ l \in Nat /\ m \in 0..l
                /\ to = "print" => m < l
            BY <1>3, <3>1, <5>2, <5>3
          <5> QED
            BY <3>2, <4>1, <5>2, <5>3, <5>4, <5>5
        <4>3. CASE Shm!Move(r, "done") /\ UNCHANGED <<x6, x7>>
          <5>1. x6' = [x6 EXCEPT ![r] = x6[r]] /\ x7' = [x7 EXCEPT ![r] = x7[r]]
            BY <1>1, <4>3 DEF Shm!TypeOK
          <5>2. x3' = [x3 EXCEPT ![r] = "done"]
            BY <4>3 DEF Shm!Move
          <5>3. to = "done" /\ l = x5[r] /\ m = x6[r] /\ u = x7[r] /\ s = x9[r]
            BY <1>1, <3>2, <4>3, <5>2 DEF Shm!TypeOK
          <5> HIDE DEF to, l, m, u, s
          <5> QED
            BY <1>3, <3>2, <3>3, <4>1, <5>1, <5>2, <5>3
        <4> QED
          BY <1>0, <2>2, <3>7, <4>2, <4>3 DEF Shm!ReadPrint
      <3> QED
        BY <3>6, <3>7
    <2> QED
      BY <2>1, <2>2
  <1> HIDE DEF to, l, m, u, s
  <1>5. UNCHANGED <<x1, x2, x4, x8, x10>>
    BY DEF Shm!ReadStat, Shm!ReadPrint
  <1>6. /\ x3'[r] = to /\ x5'[r] = l /\ x6'[r] = m /\ x7'[r] = u /\ x9'[r] = s
        /\ m \in Nat
        /\ \A i \in Shm!Procs : i # r => x3'[i] = x3[i] /\ x5'[i] = x5[i] /\ x6'[i] = x6[i]
        /\ \A i \in Readers : i # r => x7'[i] = x7[i] /\ x9'[i] = x9[i]
    BY <1>1, <1>4 DEF Shm!TypeOK
  <1>7. Shm!TypeOK'
    <2>1. x3' \in [Shm!Procs -> {"open", "opened", "copy", "print"} \cup Shm!Ended]
      BY <1>4 DEF Shm!TypeOK
    <2>2. x5' \in [Shm!Procs -> Nat] /\ x6' \in [Shm!Procs -> Nat]
      BY <1>4, <1>6 DEF Shm!TypeOK
    <2>3. \A i \in Shm!Procs : x6'[i] \in 0..x5'[i]
      BY <1>4, <1>6 DEF Shm!TypeOK
    <2>4. x7' \in [Readers -> Seq(Shm!Unit)] /\ x9' \in [Readers -> Shm!Changers \cup {Zero}]
      BY <1>4 DEF Shm!TypeOK
    <2> QED
      BY <1>5, <2>1, <2>2, <2>3, <2>4 DEF Shm!TypeOK
  <1>8. Shm!SharingInv'
    <2>1. \A i \in Shm!Procs : Shm!Active(i)' => Shm!Active(i)
      BY <1>2, <1>6
    <2>2. \A i \in Shm!Changers \cup Unlinkers : i \in Shm!Procs
      BY DEF Shm!Changers, Shm!Procs
    <2>3. \A i \in Shm!Procs \ Unlinkers : Shm!Active(i)' \/ x3'[i] = "done" => x4[i] > 0
      BY <1>0, <1>2, <1>6, <2>1 DEF Shm!SharingInv
    <2> QED
      BY <1>5, <2>1, <2>2, <2>3 DEF Shm!SharingInv
  <1>9. \A w \in Writers : x3'[w] = x3[w] /\ x5'[w] = x5[w] /\ x6'[w] = x6[w]
    BY <1>1, <1>6
  <1>10. Shm!LastInv'
    BY <1>5, <1>9 DEF Shm!LastInv
  <1>11. Shm!CopyInv'
    <2>1. ASSUME NEW i \in Readers, x3'[i] = "print"
          PROVE  /\ x6'[i] < x5'[i]
                 /\ i \notin x10 => /\ x9'[i] = x8[x4[i]]
                                    /\ x5'[i] = Len(x2[x4[i]])
                                    /\ x7'[i] = SubSeq(x2[x4[i]], 1, x6'[i])
      <3>1. CASE i = r
        BY <1>0, <1>4, <1>6, <2>1, <3>1
      <3>2. CASE i # r
        BY <1>1, <1>6, <2>1, <3>2 DEF Shm!CopyInv
      <3> QED
        BY <3>1, <3>2
    <2> QED
      BY <1>5, <1>9, <2>1 DEF Shm!CopyInv
  \* The writer before a reader that is alone and done has ended.
  <1>12. ASSUME to = "done", r \notin x10, s \in Writers
         PROVE  x3[s] \in Shm!Ended /\ x4[s] = o /\ x8[o] = s
    <2>1. x8[o] = s
      BY <1>4, <1>12
    <2>2. x4[s] = o /\ x3[s] \notin {"open", "opened"} /\ x3[s] # "print"
      BY <1>2, <1>12, <2>1 DEF Shm!LastInv, Shm!PrintInv
    <2>3. s \in Shm!Procs /\ s \in Shm!Changers /\ s # r
      BY <1>1, <1>12 DEF Shm!Changers
    <2>4. ~Shm!Active(s)
      BY <1>0, <1>1, <1>2, <1>12, <2>2, <2>3 DEF Shm!SharingInv
    <2> QED
      BY <2>1, <2>2, <2>4
  <1>13. Shm!PrintInv'
    <2>1. \A i \in Shm!Procs \ (Writers \cup Readers) : x6'[i] = 0 /\ x5'[i] = 0
      BY <1>6 DEF Shm!PrintInv
    <2>2. \A i \in Readers : x3'[i] \in {"open", "opened"} => x6'[i] = 0 /\ x7'[i] = <<>>
      BY <1>1, <1>4, <1>6 DEF Shm!PrintInv
    <2>3. ASSUME NEW i \in Readers, NEW w \in Writers,
                 x3'[i] = "done" /\ i \notin x10 /\ x9'[i] = w
          PROVE  x3'[w] \in Shm!Ended
      <3>1. CASE i = r
        BY <1>6, <1>9, <1>12, <2>3, <3>1
      <3>2. CASE i # r
        BY <1>1, <1>6, <1>9, <2>3, <3>2 DEF Shm!PrintInv
      <3> QED
        BY <3>1, <3>2
    <2> QED
      BY <1>5, <1>9, <2>1, <2>2, <2>3 DEF Shm!PrintInv
  <1>14. Shm!WholeMessage'
    BY <1>5, <1>9 DEF Shm!WholeMessage, Shm!Message
  <1>15. Shm!ReadsWhole'
    <2> SUFFICES ASSUME NEW i \in Readers, NEW w \in Writers,
                        x3'[i] = "done" /\ i \notin x10,
                        x9'[i] = w /\ x3'[w] = "done" /\ w \notin x10
                 PROVE  x7'[i] = Shm!Message(w)
      BY <1>5 DEF Shm!ReadsWhole, Shm!Message
    <2>1. CASE i = r
      <3>1. to = "done" /\ s = w /\ x3[w] = "done"
        BY <1>6, <1>9, <2>1
      <3>2. x4[w] = o /\ x8[o] = w
        BY <1>12, <2>1, <3>1
      <3>3. x2[o] = Shm!Message(w)
        BY <3>1, <3>2 DEF Shm!WholeMessage
      <3>4. u = SubSeq(x2[o], 1, Len(x2[o]))
        BY <1>4, <2>1, <3>1
      <3>5. SubSeq(x2[o], 1, Len(x2[o])) = x2[o]
        BY <1>2
      <3> QED
        BY <1>6, <2>1, <3>3, <3>4, <3>5
    <2>2. CASE i # r
      BY <1>1, <1>6, <1>9, <2>2 DEF Shm!ReadsWhole
    <2> QED
      BY <2>1, <2>2
  <1>16. Shm!FaultsOnlyMixed'
    <2>1. x3'[r] = "done" /\ x6'[r] < x5'[r] => r \in x10
      BY <1>4, <1>6
    <2>2. x3'[r] # "sigbus"
      BY <1>4, <1>6
    <2> QED
      BY <1>5, <1>6, <2>1, <2>2 DEF Shm!FaultsOnlyMixed
  <1> QED
    BY <1>7, <1>8, <1>10, <1>11, <1>13, <1>14, <1>15, <1>16

\* A process that ends without touching an object disturbs nothing.
LEMMA ShmEnds ==
  ASSUME Shm!IndInv, NEW p \in Shm!Procs, NEW to,
         x3[p] \notin Shm!Ended, Shm!Move(p, to),
         to \in {"failed", "killed"} \/ (to = "done" /\ p \in Unlinkers),
         x1' \in {x1, 0}, UNCHANGED <<x2, x4, x5, x6, x7, x8, x9, x10>>
  PROVE  Shm!IndInv'
  <1> USE FamilyAssumption DEF Shm!IndInv, Shm!Ended, Shm!Active, Shm!Changers
  <1>1. x3' = [x3 EXCEPT ![p] = to] /\ x3'[p] = to
          /\ \A i \in Shm!Procs : i # p => x3'[i] = x3[i]
    BY DEF Shm!Move, Shm!TypeOK
  <1>2. \A i \in Creators \cup Writers \cup Readers \cup Unlinkers : i \in Shm!Procs
    BY DEF Shm!Procs
  <1>3. Shm!TypeOK'
    BY <1>1 DEF Shm!TypeOK
  <1>4. Shm!SharingInv'
    BY <1>1, <1>2 DEF Shm!SharingInv
  <1>5. Shm!LastInv'
    BY <1>1, <1>2 DEF Shm!LastInv
  <1>6. Shm!CopyInv'
    BY <1>1, <1>2 DEF Shm!CopyInv
  <1>7. Shm!PrintInv'
    BY <1>1, <1>2 DEF Shm!PrintInv
  <1>8. Shm!WholeMessage'
    BY <1>1, <1>2 DEF Shm!WholeMessage, Shm!Message
  <1>9. Shm!ReadsWhole'
    BY <1>1, <1>2 DEF Shm!ReadsWhole, Shm!Message
  <1>10. Shm!FaultsOnlyMixed'
    BY <1>1, <1>2 DEF Shm!FaultsOnlyMixed, Shm!PrintInv
  <1> QED
    BY <1>3, <1>4, <1>5, <1>6, <1>7, <1>8, <1>9, <1>10

\* Every step of the shared memory tools.
LEMMA ShmStep == Shm!IndInv /\ [Shm!Next]_(Shm!vars) => Shm!IndInv'
  <1> SUFFICES ASSUME Shm!IndInv, [Shm!Next]_(Shm!vars) PROVE Shm!IndInv'
    OBVIOUS
  <1>0. /\ \A i \in Creators \cup Writers \cup Readers : i \in Shm!Procs \ Unlinkers
        /\ \A u \in Unlinkers : u \in Shm!Procs
        /\ Len(x2) \in Nat /\ x1 \in 0..Len(x2)
    BY ShmObjects DEF Shm!Procs, Shm!IndInv, Shm!TypeOK
  <1>1. ASSUME NEW p \in Creators, Shm!CreateOpen(p) PROVE Shm!IndInv'
    <2>0. x3[p] = "open" /\ UNCHANGED <<x5, x6, x7, x9>>
      BY <1>1 DEF Shm!CreateOpen
    <2>1. CASE x1 # 0 /\ Shm!Opened(p, x1) /\ UNCHANGED <<x1, x2, x8>>
      BY <1>0, <2>0, <2>1, ShmOpened
    <2>2. CASE /\ x1' = Len(x2) + 1 /\ x2' = Append(x2, <<>>) /\ x8' = Append(x8, p)
               /\ Shm!Opened(p, x1')
      <3>1. PICK o : o = Len(x2) + 1
        OBVIOUS
      <3>2. Shm!Opened(p, o) /\ o \in Nat \ {0}
        BY <1>0, <2>2, <3>1
      <3> QED
        BY <1>0, <2>0, <2>2, <3>1, <3>2, ShmOpened
    <2>3. CASE Shm!Move(p, "failed") /\ UNCHANGED <<x1, x2, x4, x8, x10>>
      BY <1>0, <2>0, <2>3, ShmEnds DEF Shm!Ended
    <2> QED
      BY <1>1, <2>1, <2>2, <2>3 DEF Shm!CreateOpen
  <1>2. ASSUME NEW p \in Creators, Shm!CreateResize(p) PROVE Shm!IndInv'
    <2>1. PICK k \in Sizes : /\ x3[p] = "opened" /\ Shm!Resize(p, k)
                             /\ Shm!Move(p, IF k = 0 THEN "failed" ELSE "done")
                             /\ UNCHANGED <<x1, x4, x5, x6, x7, x9, x10>>
      BY <1>2 DEF Shm!CreateResize
    <2>2. k \in Nat /\ p \notin Writers /\ p \in Shm!Changers
      BY FamilyAssumption DEF Shm!Changers
    <2> QED
      BY <2>1, <2>2, ShmResized
  <1>3. ASSUME NEW p \in Writers \cup Readers, Shm!OpenExisting(p) PROVE Shm!IndInv'
    <2>1. CASE x1 = 0
      BY <1>0, <1>3, <2>1, ShmEnds DEF Shm!OpenExisting, Shm!Ended
    <2>2. CASE x1 # 0
      BY <1>0, <1>3, <2>2, ShmOpened DEF Shm!OpenExisting
    <2> QED
      BY <2>1, <2>2
  <1>4. ASSUME NEW w \in Writers, Shm!WriteResize(w) PROVE Shm!IndInv'
    <2>1. MsgLen[w] \in Nat /\ w \in Shm!Changers
      BY FamilyAssumption DEF Shm!Changers
    <2>2. /\ x3[w] = "opened" /\ Shm!Resize(w, MsgLen[w])
          /\ x5' = [x5 EXCEPT ![w] = MsgLen[w]]
          /\ Shm!Move(w, IF MsgLen[w] = 0 THEN "failed" ELSE "copy")
          /\ UNCHANGED <<x1, x4, x6, x7, x9, x10>>
      BY <1>4 DEF Shm!WriteResize
    <2>3. x5' = IF w \in Writers THEN [x5 EXCEPT ![w] = MsgLen[w]] ELSE x5
      BY <2>2
    <2>4. CASE MsgLen[w] = 0
      <3>1. Shm!Move(w, "failed")
        BY <2>2, <2>4
      <3> QED
        BY <2>1, <2>2, <2>3, <3>1, ShmResized
    <2>5. CASE MsgLen[w] # 0
      <3>1. Shm!Move(w, "copy") /\ MsgLen[w] > 0
        BY <2>1, <2>2, <2>5
      <3> QED
        BY <2>1, <2>2, <2>3, <3>1, ShmResized
    <2> QED
      BY <2>4, <2>5
  <1>5. ASSUME NEW w \in Writers, Shm!WriteCopy(w) PROVE Shm!IndInv'
    BY <1>5, ShmCopied
  <1>6. ASSUME NEW r \in Readers, Shm!ReadStat(r) \/ Shm!ReadPrint(r) PROVE Shm!IndInv'
    BY <1>6, ShmReads
  <1>7. ASSUME NEW u \in Unlinkers, Shm!Unlink(u) PROVE Shm!IndInv'
    BY <1>0, <1>7, ShmEnds DEF Shm!Unlink, Shm!Ended
  <1>8. ASSUME NEW p \in Shm!Procs, Shm!Kill(p) PROVE Shm!IndInv'
    BY <1>8, ShmEnds DEF Shm!Kill
  <1>9. CASE UNCHANGED Shm!vars
    BY <1>9
    DEF Shm!vars, Shm!IndInv, Shm!TypeOK, Shm!SharingInv, Shm!LastInv, Shm!CopyInv, Shm!PrintInv,
        Shm!WholeMessage, Shm!ReadsWhole, Shm!FaultsOnlyMixed, Shm!Message, Shm!Active
  <1> QED
    BY <1>1, <1>2, <1>3, <1>4, <1>5, <1>6, <1>7, <1>8, <1>9 DEF Shm!Next

\* A writer that was alone leaves its string, a reader that was alone prints
\* it (pshm_write.c lines 20-51, pshm_read.c lines 20-39), for any number of
\* processes, objects and any lengths.
THEOREM ShmWholeMessages == FamilySpec => []WholeMessages
  <1>1. FamilyInit => WholeMessages
    <2> SUFFICES ASSUME Shm!Init PROVE Shm!IndInv
      BY DEF FamilyInit, WholeMessages, Shm!IndInv
    <2>1. Shm!TypeOK
      <3>1. <<>> \in Seq(Seq(Shm!Unit)) /\ <<>> \in Seq(Shm!Changers) /\ <<>> \in Seq(Shm!Unit)
        OBVIOUS
      <3>2. Len(<<>>) = 0
        OBVIOUS
      <3> QED
        BY <3>1, <3>2 DEF Shm!Init, Shm!TypeOK, Shm!Ended
    <2>2. \A i \in Creators \cup Writers \cup Readers \cup Unlinkers : i \in Shm!Procs
      BY DEF Shm!Procs
    <2>3. \A i \in Shm!Procs : x3[i] = "open" /\ x5[i] = 0 /\ x6[i] = 0
      BY DEF Shm!Init
    <2>4. Len(x2) = 0 /\ \A r \in Readers : x7[r] = <<>>
      BY DEF Shm!Init
    <2> QED
      BY <2>1, <2>2, <2>3, <2>4
      DEF Shm!IndInv, Shm!SharingInv, Shm!LastInv, Shm!CopyInv, Shm!PrintInv, Shm!WholeMessage,
          Shm!ReadsWhole, Shm!FaultsOnlyMixed, Shm!Active, Shm!Ended, Shm!Changers
  <1>2. WholeMessages /\ [FamilyNext]_all => WholeMessages'
    <2> SUFFICES ASSUME WholeMessages, [FamilyNext]_all, kind' = "shm" PROVE Shm!IndInv'
      BY DEF WholeMessages, Shm!IndInv
    <2> QED
      BY FamilyStep, ShmStep DEF WholeMessages
  <1> QED
    BY <1>1, <1>2, PTL DEF FamilySpec

-----------------------------------------------------------------------------
(* The queue tools lose, duplicate and mix up no message.                  *)

\* The instance counts as FiniteSets does.
LEMMA ToolsCardinality == \A S : Tools!Cardinality(S) = Cardinality(S)
  BY DEF Tools!Cardinality, Cardinality

\* The elements of a sequence.
LEMMA ToolsToSet ==
  ASSUME NEW m \in Seq(QSenders)
  PROVE  \A e : e \in Tools!ToSet(m) <=> \E i \in 1..Len(m) : m[i] = e
  <1>1. DOMAIN m = 1..Len(m)
    OBVIOUS
  <1> QED
    BY <1>1 DEF Tools!ToSet

\* Concatenation, place by place.
LEMMA CatPlaces ==
  ASSUME NEW S, NEW a \in Seq(S), NEW b \in Seq(S)
  PROVE  /\ a \o b \in Seq(S) /\ Len(a \o b) = Len(a) + Len(b)
         /\ \A i \in 1..Len(a) : (a \o b)[i] = a[i]
         /\ \A i \in 1..Len(b) : (a \o b)[Len(a) + i] = b[i]
  OBVIOUS

\* In an ordered queue the messages that go before a new one are its first.
LEMMA ToolsBefore ==
  ASSUME NEW m \in Seq(QSenders), NEW s \in QSenders, Tools!Ordered(m)
  PROVE  /\ Cardinality(Tools!Before(m, s)) \in 0..Len(m)
         /\ Tools!Before(m, s) = 1..Cardinality(Tools!Before(m, s))
  <1> PICK B : B = Tools!Before(m, s)
    OBVIOUS
  <1>1. B \subseteq 1..Len(m) /\ Len(m) \in Nat
    BY DEF Tools!Before
  <1>2. ASSUME NEW i \in B, NEW j \in 1..i PROVE j \in B
    <2>1. i \in 1..Len(m) /\ j \in 1..Len(m) /\ j \in Nat /\ i \in Nat /\ j <= i
      BY <1>1
    <2>2. Prio[m[i]] >= Prio[s]
      BY DEF Tools!Before
    <2>3. m[i] \in QSenders /\ m[j] \in QSenders
      BY <2>1
    <2>4. Prio[m[i]] \in Nat /\ Prio[m[j]] \in Nat /\ Prio[s] \in Nat
      BY <2>3, ToolsAssumption
    <2>5. Prio[m[j]] >= Prio[m[i]]
      BY <2>1, <2>4 DEF Tools!Ordered
    <2>6. Prio[m[j]] >= Prio[s]
      BY <2>2, <2>4, <2>5
    <2> QED
      BY <2>1, <2>6 DEF Tools!Before
  <1>3. /\ IsFiniteSet(1..Len(m)) /\ Cardinality(1..Len(m)) = Len(m)
    BY <1>1, FS_Interval
  <1>4. IsFiniteSet(B) /\ Cardinality(B) \in Nat /\ Cardinality(B) <= Len(m)
    BY <1>1, <1>3, FS_Subset, FS_CardinalityType
  <1>5. ASSUME NEW i \in B PROVE i \in 1..Cardinality(B)
    <2>1. i \in Nat /\ i >= 1
      BY <1>1
    <2>2. 1..i \in SUBSET B /\ Cardinality(1..i) = i
      BY <1>2, <2>1, FS_Interval
    <2>3. i <= Cardinality(B)
      BY <1>4, <2>2, FS_Subset
    <2> QED
      BY <1>4, <2>1, <2>3
  <1>6. IsFiniteSet(1..Cardinality(B)) /\ Cardinality(1..Cardinality(B)) = Cardinality(B)
    BY <1>4, FS_Interval
  <1>7. B \in SUBSET (1..Cardinality(B))
    BY <1>5
  <1>8. 1..Cardinality(B) = B
    BY <1>6, <1>7, FS_Subset
  <1> QED
    BY <1>1, <1>4, <1>8

\* What the insertion keeps.
LEMMA ToolsInsert ==
  ASSUME NEW m \in Seq(QSenders), NEW s \in QSenders, Tools!Ordered(m), Tools!Once(m),
         s \notin Tools!ToSet(m)
  PROVE  /\ Tools!Insert(m, s) \in Seq(QSenders) /\ Len(Tools!Insert(m, s)) = Len(m) + 1
         /\ Tools!Ordered(Tools!Insert(m, s)) /\ Tools!Once(Tools!Insert(m, s))
         /\ Tools!ToSet(Tools!Insert(m, s)) = Tools!ToSet(m) \cup {s}
  <1> PICK t : t = Tools!Insert(m, s)
    BY Zenon
  <1> PICK k : k = Cardinality(Tools!Before(m, s))
    BY Zenon
  <1>0. /\ t \in Seq(QSenders) /\ Len(t) = Len(m) + 1 /\ Len(m) \in Nat
        /\ k \in 0..Len(m) /\ t[k + 1] = s
        /\ \A i \in 1..k : t[i] = m[i] /\ Prio[m[i]] >= Prio[s]
        /\ \A i \in (k + 1)..Len(m) : t[i + 1] = m[i] /\ ~(Prio[m[i]] >= Prio[s])
    <2>1. k \in 0..Len(m) /\ Tools!Before(m, s) = 1..k /\ Len(m) \in Nat
      BY ToolsBefore
    <2>2. Tools!Insert(m, s) = SubSeq(m, 1, k) \o <<s>> \o SubSeq(m, k + 1, Len(m))
      <3>1. (k + 1) - 1 = k
        BY <2>1
      <3> QED
        BY <3>1, ToolsCardinality DEF Tools!Insert, Tools!InsertAt
    <2> PICK a : a = SubSeq(m, 1, k)
      OBVIOUS
    <2> PICK b : b = SubSeq(m, k + 1, Len(m))
      OBVIOUS
    <2>3. a \in Seq(QSenders) /\ Len(a) = k /\ \A i \in 1..k : a[i] = m[i]
      BY <2>1
    <2>4. b \in Seq(QSenders) /\ Len(b) = Len(m) - k /\ \A i \in 1..(Len(m) - k) : b[i] = m[k + i]
      BY <2>1
    <2> PICK u : u = a \o <<s>>
      OBVIOUS
    <2>c. <<s>> \in Seq(QSenders) /\ Len(<<s>>) = 1 /\ <<s>>[1] = s /\ 1 \in 1..1
      OBVIOUS
    <2>a. u \in Seq(QSenders) /\ Len(u) = k + 1 /\ u[k + 1] = s /\ \A i \in 1..k : u[i] = a[i]
      BY ONLY <2>3, <2>c, CatPlaces, u = a \o <<s>>
    <2>10. t = u \o b
      BY <2>2
    <2>d. t \in Seq(QSenders) /\ Len(t) = (k + 1) + Len(b)
      <3>1. u \o b \in Seq(QSenders) /\ Len(u \o b) = Len(u) + Len(b)
        BY ONLY <2>4, <2>a, CatPlaces
      <3> QED
        BY ONLY <2>a, <3>1, <2>10
    <2>5. t \in Seq(QSenders) /\ Len(t) = Len(m) + 1
      BY ONLY <2>1, <2>4, <2>d
    <2>b. /\ \A i \in 1..(k + 1) : t[i] = u[i]
          /\ \A j \in 1..Len(b) : t[k + 1 + j] = b[j]
      <3>1. /\ \A i \in 1..Len(u) : (u \o b)[i] = u[i]
            /\ \A j \in 1..Len(b) : (u \o b)[Len(u) + j] = b[j]
        BY ONLY <2>4, <2>a, CatPlaces
      <3> QED
        BY ONLY <2>a, <3>1, <2>10
    <2>6. t[k + 1] = s /\ \A i \in 1..k : t[i] = m[i]
      <3>1. \A i \in 1..k : i \in 1..(k + 1)
        BY <2>1
      <3> QED
        BY ONLY <2>1, <2>3, <2>a, <2>b, <3>1
    <2>7. ASSUME NEW i \in (k + 1)..Len(m) PROVE t[i + 1] = m[i]
      <3>1. i - k \in 1..Len(b) /\ k + 1 + (i - k) = i + 1 /\ k + (i - k) = i
        BY ONLY <2>1, <2>4, i \in (k + 1)..Len(m)
      <3>2. t[k + 1 + (i - k)] = b[i - k] /\ b[i - k] = m[k + (i - k)]
        BY <2>4, <2>b, <3>1
      <3> QED
        BY <3>1, <3>2
    <2>8. \A i \in 1..Len(m) : i \in 1..k <=> Prio[m[i]] >= Prio[s]
      BY <2>1 DEF Tools!Before
    <2>9. (\A i \in 1..k : i \in 1..Len(m)) /\ \A i \in (k + 1)..Len(m) : i \in 1..Len(m) /\ i \notin 1..k
      BY <2>1
    <2> QED
      BY <2>1, <2>5, <2>6, <2>7, <2>8, <2>9
  <1>1. t \in Seq(QSenders) /\ Len(t) = Len(m) + 1 /\ Len(m) \in Nat
    BY <1>0
  <1>2. /\ k \in 0..Len(m) /\ t[k + 1] = s
        /\ \A i \in 1..k : t[i] = m[i] /\ Prio[m[i]] >= Prio[s]
        /\ \A i \in (k + 1)..Len(m) : t[i + 1] = m[i] /\ ~(Prio[m[i]] >= Prio[s])
    BY <1>0
  <1>3. ASSUME NEW a \in 1..Len(t)
        PROVE  \/ a = k + 1 /\ t[a] = s
               \/ a \in 1..k /\ a \in 1..Len(m) /\ t[a] = m[a] /\ Prio[m[a]] >= Prio[s]
               \/ /\ a - 1 \in (k + 1)..Len(m) /\ a - 1 \in 1..Len(m)
                  /\ t[a] = m[a - 1] /\ ~(Prio[m[a - 1]] >= Prio[s])
    <2>1. CASE a = k + 1
      BY <1>2, <2>1
    <2>2. CASE a <= k
      <3>1. a \in 1..k /\ a \in 1..Len(m)
        BY <1>1, <1>2, <2>2
      <3> QED
        BY <1>2, <3>1
    <2>3. CASE a > k + 1
      <3>1. a - 1 \in (k + 1)..Len(m) /\ a - 1 \in 1..Len(m) /\ (a - 1) + 1 = a
        BY <1>1, <1>2, <2>3
      <3>2. t[(a - 1) + 1] = m[a - 1] /\ ~(Prio[m[a - 1]] >= Prio[s])
        BY <1>2, <3>1
      <3> QED
        BY <3>1, <3>2
    <2> QED
      BY <1>1, <1>2, <2>1, <2>2, <2>3
  <1>4. \A i \in 1..Len(m) : m[i] \in QSenders /\ m[i] # s /\ Prio[m[i]] \in Nat /\ Prio[s] \in Nat
    BY ToolsToSet, ToolsAssumption
  <1>5. Tools!Ordered(t)
    <2> SUFFICES ASSUME NEW a \in 1..Len(t), NEW b \in 1..Len(t), a < b
                 PROVE  Prio[t[a]] >= Prio[t[b]]
      BY DEF Tools!Ordered
    <2>1. CASE a = k + 1 /\ t[a] = s
      <3>1. b - 1 \in 1..Len(m) /\ t[b] = m[b - 1] /\ ~(Prio[m[b - 1]] >= Prio[s])
        BY <1>1, <1>2, <1>3, <2>1
      <3>2. \A x, y \in Nat : ~(x >= y) => y >= x
        OBVIOUS
      <3> QED
        BY <1>4, <2>1, <3>1, <3>2
    <2>2. CASE a \in 1..k /\ a \in 1..Len(m) /\ t[a] = m[a] /\ Prio[m[a]] >= Prio[s]
      <3>1. CASE b = k + 1 /\ t[b] = s
        BY <2>2, <3>1
      <3>2. CASE b \in 1..Len(m) /\ t[b] = m[b]
        BY <2>2, <3>2 DEF Tools!Ordered
      <3>3. CASE b - 1 \in (k + 1)..Len(m) /\ b - 1 \in 1..Len(m) /\ t[b] = m[b - 1]
        <4>1. a < b - 1
          BY <1>1, <1>2, <2>2, <3>3
        <4> QED
          BY <2>2, <3>3, <4>1 DEF Tools!Ordered
      <3> QED
        BY <1>3, <3>1, <3>2, <3>3
    <2>3. CASE a - 1 \in (k + 1)..Len(m) /\ a - 1 \in 1..Len(m) /\ t[a] = m[a - 1]
      <3>1. ~(b = k + 1) /\ b \notin 1..k
        BY <1>1, <1>2, <2>3
      <3>2. b - 1 \in 1..Len(m) /\ t[b] = m[b - 1]
        BY <1>3, <3>1
      <3>3. a - 1 < b - 1
        BY <1>1, <1>2
      <3> QED
        BY <2>3, <3>2, <3>3 DEF Tools!Ordered
    <2> QED
      BY <1>3, <2>1, <2>2, <2>3
  <1>6. Tools!Once(t)
    <2> SUFFICES ASSUME NEW a \in 1..Len(t), NEW b \in 1..Len(t), t[a] = t[b]
                 PROVE  a = b
      BY DEF Tools!Once
    <2>1. CASE a = k + 1 /\ t[a] = s
      BY <1>3, <1>4, <2>1
    <2>2. CASE a \in 1..k /\ a \in 1..Len(m) /\ t[a] = m[a]
      <3>1. t[b] # s
        BY <1>4, <2>2
      <3>2. CASE b \in 1..Len(m) /\ t[b] = m[b]
        BY <2>2, <3>2 DEF Tools!Once
      <3>3. CASE b - 1 \in (k + 1)..Len(m) /\ b - 1 \in 1..Len(m) /\ t[b] = m[b - 1]
        <4>1. a # b - 1
          BY <1>1, <1>2, <2>2, <3>3
        <4> QED
          BY <2>2, <3>3, <4>1 DEF Tools!Once
      <3> QED
        BY <1>3, <3>1, <3>2, <3>3
    <2>3. CASE a - 1 \in (k + 1)..Len(m) /\ a - 1 \in 1..Len(m) /\ t[a] = m[a - 1]
      <3>1. t[b] # s
        BY <1>4, <2>3
      <3>2. CASE b \in 1..k /\ b \in 1..Len(m) /\ t[b] = m[b]
        <4>1. a - 1 # b
          BY <1>1, <1>2, <2>3, <3>2
        <4> QED
          BY <2>3, <3>2, <4>1 DEF Tools!Once
      <3>3. CASE b - 1 \in 1..Len(m) /\ t[b] = m[b - 1]
        <4>1. a - 1 = b - 1
          BY <2>3, <3>3 DEF Tools!Once
        <4> QED
          BY <1>1, <4>1
      <3> QED
        BY <1>3, <3>1, <3>2, <3>3
    <2> QED
      BY <1>3, <2>1, <2>2, <2>3
  <1>7. Tools!ToSet(t) = Tools!ToSet(m) \cup {s}
    <2>1. ASSUME NEW e \in Tools!ToSet(t) PROVE e \in Tools!ToSet(m) \cup {s}
      <3>1. PICK a \in 1..Len(t) : t[a] = e
        BY <1>1, ToolsToSet
      <3> QED
        BY <1>3, <3>1, ToolsToSet
    <2>2. s \in Tools!ToSet(t)
      <3>1. k + 1 \in 1..Len(t)
        BY <1>1, <1>2
      <3> QED
        BY <1>1, <1>2, <3>1, ToolsToSet
    <2>3. ASSUME NEW e \in Tools!ToSet(m) PROVE e \in Tools!ToSet(t)
      <3>1. PICK i \in 1..Len(m) : m[i] = e
        BY ToolsToSet
      <3>2. CASE i <= k
        <4>1. i \in 1..k /\ i \in 1..Len(t)
          BY <1>1, <1>2, <3>2
        <4>2. t[i] = e
          BY <1>2, <3>1, <4>1
        <4> QED
          BY <1>1, <4>1, <4>2, ToolsToSet
      <3>3. CASE i > k
        <4>1. i \in (k + 1)..Len(m) /\ i + 1 \in 1..Len(t)
          BY <1>1, <1>2, <3>3
        <4>2. t[i + 1] = e
          BY <1>2, <3>1, <4>1
        <4> QED
          BY <1>1, <4>1, <4>2, ToolsToSet
      <3> QED
        BY <1>1, <1>2, <3>2, <3>3
    <2> QED
      BY <2>1, <2>2, <2>3
  <1> QED
    BY <1>1, <1>5, <1>6, <1>7

\* What is left when the first message is taken.
LEMMA ToolsTail ==
  ASSUME NEW m \in Seq(QSenders), m # <<>>, Tools!Ordered(m), Tools!Once(m)
  PROVE  /\ Tail(m) \in Seq(QSenders) /\ Len(Tail(m)) = Len(m) - 1 /\ Head(m) \in QSenders
         /\ Tools!Ordered(Tail(m)) /\ Tools!Once(Tail(m))
         /\ Tools!ToSet(m) = Tools!ToSet(Tail(m)) \cup {Head(m)}
         /\ Head(m) \notin Tools!ToSet(Tail(m))
  <1> PICK t : t = Tail(m)
    OBVIOUS
  <1>1. /\ t \in Seq(QSenders) /\ Len(t) = Len(m) - 1 /\ Len(m) \in Nat /\ Len(m) >= 1
        /\ Head(m) = m[1] /\ Head(m) \in QSenders
    OBVIOUS
  <1>2. \A i \in 1..Len(t) : t[i] = m[i + 1] /\ i + 1 \in 1..Len(m)
    BY <1>1
  <1>3. Tools!Ordered(t)
    <2> SUFFICES ASSUME NEW a \in 1..Len(t), NEW b \in 1..Len(t), a < b
                 PROVE  Prio[t[a]] >= Prio[t[b]]
      BY DEF Tools!Ordered
    <2>1. a + 1 < b + 1
      BY <1>1
    <2> QED
      BY <1>2, <2>1 DEF Tools!Ordered
  <1>4. Tools!Once(t)
    <2> SUFFICES ASSUME NEW a \in 1..Len(t), NEW b \in 1..Len(t), t[a] = t[b]
                 PROVE  a = b
      BY DEF Tools!Once
    <2>1. a + 1 = b + 1
      BY <1>2 DEF Tools!Once
    <2> QED
      BY <1>1, <2>1
  <1>5. Head(m) \notin Tools!ToSet(t)
    <2> SUFFICES ASSUME NEW i \in 1..Len(t), t[i] = m[1] PROVE FALSE
      BY <1>1, ToolsToSet
    <2>1. 1 \in 1..Len(m) /\ i + 1 # 1
      BY <1>1
    <2> QED
      BY <1>2, <2>1 DEF Tools!Once
  <1>6. Tools!ToSet(m) = Tools!ToSet(t) \cup {Head(m)}
    <2>1. ASSUME NEW e \in Tools!ToSet(m) PROVE e \in Tools!ToSet(t) \cup {Head(m)}
      <3>1. PICK i \in 1..Len(m) : m[i] = e
        BY ToolsToSet
      <3>2. CASE i = 1
        BY <1>1, <3>1, <3>2
      <3>3. CASE i # 1
        <4>1. i - 1 \in 1..Len(t) /\ (i - 1) + 1 = i
          BY <1>1, <3>3
        <4>2. t[i - 1] = e
          BY <1>2, <3>1, <4>1
        <4> QED
          BY <1>1, <4>1, <4>2, ToolsToSet
      <3> QED
        BY <3>2, <3>3
    <2>2. ASSUME NEW e \in Tools!ToSet(t) PROVE e \in Tools!ToSet(m)
      <3>1. PICK i \in 1..Len(t) : t[i] = e
        BY <1>1, ToolsToSet
      <3>2. m[i + 1] = e /\ i + 1 \in 1..Len(m)
        BY <1>2, <3>1
      <3> QED
        BY <3>2, ToolsToSet
    <2>3. Head(m) \in Tools!ToSet(m)
      <3>1. 1 \in 1..Len(m)
        BY <1>1
      <3> QED
        BY <1>1, <3>1, ToolsToSet
    <2> QED
      BY <2>1, <2>2, <2>3
  <1> QED
    BY <1>1, <1>3, <1>4, <1>5, <1>6

\* A step changes the messages of one queue.
LEMMA ToolsSetMsgs ==
  ASSUME x3 \in Seq(Tools!Queue), NEW i \in 1..Len(x3), NEW m \in Seq(QSenders),
         x3' = [x3 EXCEPT ![i].msgs = m]
  PROVE  /\ x3' \in Seq(Tools!Queue) /\ Len(x3') = Len(x3)
         /\ x3'[i].msgs = m /\ x3'[i].attr = x3[i].attr
         /\ \A j \in 1..Len(x3) : j # i => x3'[j] = x3[j]
  <1> PICK e : e = [x3[i] EXCEPT !.msgs = m]
    OBVIOUS
  <1>1. x3[i] \in Tools!Queue
    OBVIOUS
  <1>2. e \in Tools!Queue /\ e.msgs = m /\ e.attr = x3[i].attr
    BY <1>1 DEF Tools!Queue
  <1>3. x3' = [x3 EXCEPT ![i] = e]
    OBVIOUS
  <1> QED
    BY <1>2, <1>3, SeqExcept

\* A queue does not change when nobody starts to wait for it, or has sent to
\* it or received from it.
LEMMA ToolsElsewhere ==
  ASSUME NEW j \in 1..Len(x3), Tools!DeliveredFrom(j),
         x3'[j].msgs = x3[j].msgs, x3'[j].attr = x3[j].attr,
         \A y \in Tools!Procs :
           \/ x1'[y] = x1[y] /\ x4'[y] = x4[y] /\ x5'[y] = x5[y]
           \/ /\ y \in QSenders \cup QReceivers =>
                   /\ ~Tools!Took(y) \/ x4[y] # j
                   /\ ~Tools!Took(y)' \/ x4'[y] # j
              /\ x1'[y] # "blocked" \/ x4'[y] # j
  PROVE  Tools!DeliveredFrom(j)'
  <1>0. QSenders \subseteq Tools!Procs /\ QReceivers \subseteq Tools!Procs
    BY DEF Tools!Procs, Tools!Users
  <1>1. Tools!Sent(j)' = Tools!Sent(j)
    BY <1>0 DEF Tools!Sent, Tools!Took
  <1>2. Tools!Received(j)' = Tools!Received(j)
    BY <1>0 DEF Tools!Received, Tools!Took
  <1>3. \A r \in Tools!Received(j) : x5'[r] = x5[r]
    BY <1>0 DEF Tools!Received, Tools!Took
  <1>4. Tools!Got(j)' = Tools!Got(j)
    BY <1>2, <1>3 DEF Tools!Got
  <1>5. Tools!Waiting(j)' \subseteq Tools!Waiting(j)
    BY DEF Tools!Waiting
  <1> PICK m : m = x3[j].msgs
    OBVIOUS
  <1>6. Tools!SentOnce(j, m)'
    BY <1>1, <1>2, <1>3, <1>4 DEF Tools!DeliveredFrom, Tools!SentOnce
  <1>7. Tools!WaitsForCause(j, m)'
    BY <1>5 DEF Tools!DeliveredFrom, Tools!WaitsForCause
  <1> QED
    BY <1>6, <1>7 DEF Tools!DeliveredFrom

\* A sender waits for a place in a full queue, a receiver for a message in an
\* empty one.
LEMMA ToolsWaits ==
  ASSUME Tools!TypeOK, NEW p \in QSenders \cup QReceivers, x1[p] = "opened",
         NEW i \in 1..Len(x3), i = x4[p], NEW m \in Seq(QSenders), m = x3[i].msgs,
         Tools!DeliveredFrom(i), x1' = [x1 EXCEPT ![p] = "blocked"], UNCHANGED <<x3, x4, x5>>,
         IF p \in QReceivers THEN m = <<>> ELSE Len(m) = x3[i].attr.maxmsg
  PROVE  Tools!DeliveredFrom(i)'
  <1>0. p \in Tools!Procs /\ QSenders \subseteq Tools!Procs /\ QReceivers \subseteq Tools!Procs
    BY DEF Tools!Procs, Tools!Users
  <1>1. \A y \in Tools!Procs : x1'[y] = IF y = p THEN "blocked" ELSE x1[y]
    BY <1>0 DEF Tools!TypeOK
  <1>2. Tools!Sent(i)' = Tools!Sent(i) /\ Tools!Received(i)' = Tools!Received(i)
    BY <1>0, <1>1 DEF Tools!Sent, Tools!Received, Tools!Took
  <1>3. Tools!Got(i)' = Tools!Got(i)
    BY <1>2 DEF Tools!Got
  <1>4. \A y \in Tools!Waiting(i)' : y = p \/ y \in Tools!Waiting(i)
    BY <1>1 DEF Tools!Waiting
  <1>5. Tools!SentOnce(i, m)'
    BY <1>2, <1>3 DEF Tools!DeliveredFrom, Tools!SentOnce
  <1>6. Tools!WaitsForCause(i, m)'
    BY <1>4 DEF Tools!DeliveredFrom, Tools!WaitsForCause
  <1> QED
    BY <1>5, <1>6 DEF Tools!DeliveredFrom

\* A message goes to a receiver that waits.
LEMMA ToolsHandsOver ==
  ASSUME Tools!TypeOK, NEW p \in QSenders, x1[p] = "opened", NEW r \in QReceivers,
         NEW i \in 1..Len(x3), i = x4[p], i = x4[r], x1[r] = "blocked",
         NEW m \in Seq(QSenders), m = x3[i].msgs, Tools!DeliveredFrom(i),
         x1' = [x1 EXCEPT ![p] = "done", ![r] = "received"], x5' = [x5 EXCEPT ![r] = p],
         UNCHANGED <<x3, x4>>
  PROVE  Tools!DeliveredFrom(i)'
  <1>0. /\ p \in Tools!Procs /\ r \in Tools!Procs /\ p # r /\ p \notin QReceivers
        /\ r \notin QSenders /\ QSenders \subseteq Tools!Procs /\ QReceivers \subseteq Tools!Procs
    BY ToolsAssumption DEF Tools!Procs, Tools!Users
  <1>1. \A y \in Tools!Procs : /\ x1'[y] = IF y = p THEN "done" ELSE IF y = r THEN "received" ELSE x1[y]
                               /\ x5'[y] = IF y = r THEN p ELSE x5[y]
    BY <1>0 DEF Tools!TypeOK
  <1>2. Tools!Sent(i)' = Tools!Sent(i) \cup {p} /\ p \notin Tools!Sent(i)
    BY <1>0, <1>1 DEF Tools!Sent
  <1>3. Tools!Received(i)' = Tools!Received(i) \cup {r} /\ r \notin Tools!Received(i)
    BY <1>0, <1>1 DEF Tools!Received, Tools!Took
  <1>4. \A t \in Tools!Received(i) : t \in Tools!Procs /\ t # r /\ x5'[t] = x5[t]
    BY <1>0, <1>1, <1>3 DEF Tools!Received, Tools!Took
  <1>5. Tools!Got(i)' = Tools!Got(i) \cup {p}
    BY <1>0, <1>1, <1>3, <1>4 DEF Tools!Got
  <1>6. m = <<>> /\ Tools!ToSet(m) = {}
    <2>1. r \in Tools!Waiting(i)
      BY <1>0 DEF Tools!Waiting
    <2>2. m = <<>>
      BY <2>1 DEF Tools!DeliveredFrom, Tools!WaitsForCause
    <2>3. 1..Len(m) = {}
      BY <2>2
    <2> QED
      BY <2>2, <2>3, ToolsToSet
  <1>7. \A t \in Tools!Received(i) : x5[t] \in Tools!Got(i)
    BY DEF Tools!Got
  <1>8. Tools!SentOnce(i, m)
    BY DEF Tools!DeliveredFrom
  <1>9. Tools!SentOnce(i, m)'
    <2>1. Tools!Sent(i)' = Tools!ToSet(m) \cup Tools!Got(i)'
      BY <1>2, <1>5, <1>8 DEF Tools!SentOnce
    <2>2. \A t \in Tools!Received(i) : x5[t] # p
      BY <1>2, <1>7, <1>8 DEF Tools!SentOnce
    <2>3. ASSUME NEW t \in Tools!Received(i)', NEW u \in Tools!Received(i)', x5'[t] = x5'[u]
          PROVE  t = u
      BY <1>0, <1>1, <1>3, <1>4, <1>8, <2>2, <2>3 DEF Tools!SentOnce
    <2> QED
      BY <1>6, <2>1, <2>3 DEF Tools!SentOnce
  <1>10. Tools!Waiting(i)' \subseteq Tools!Waiting(i)
    <2>1. \A y \in Tools!Procs : x1'[y] = "blocked" => x1[y] = "blocked"
      BY <1>1
    <2> QED
      BY <2>1 DEF Tools!Waiting
  <1>11. Tools!WaitsForCause(i, m)'
    BY <1>10 DEF Tools!DeliveredFrom, Tools!WaitsForCause
  <1> QED
    BY <1>9, <1>11 DEF Tools!DeliveredFrom

\* A message goes into the queue.
LEMMA ToolsStores ==
  ASSUME Tools!TypeOK, NEW p \in QSenders, x1[p] = "opened",
         NEW i \in 1..Len(x3), i = x4[p], NEW m \in Seq(QSenders), m = x3[i].msgs,
         x3[i].attr.maxmsg \in Nat, Tools!DeliveredFrom(i), Tools!Once(m),
         Len(m) # x3[i].attr.maxmsg,
         \A r \in QReceivers : ~(x1[r] = "blocked" /\ x4[r] = i),
         x3'[i].msgs = Tools!Insert(m, p), x3'[i].attr = x3[i].attr,
         x1' = [x1 EXCEPT ![p] = "done"], UNCHANGED <<x4, x5>>
  PROVE  Tools!DeliveredFrom(i)' /\ Tools!Once(x3'[i].msgs)
  <1>0. /\ p \in Tools!Procs /\ p \notin QReceivers
        /\ QSenders \subseteq Tools!Procs /\ QReceivers \subseteq Tools!Procs
    BY ToolsAssumption DEF Tools!Procs, Tools!Users
  <1>1. \A y \in Tools!Procs : x1'[y] = IF y = p THEN "done" ELSE x1[y]
    BY <1>0 DEF Tools!TypeOK
  <1>2. Tools!Sent(i)' = Tools!Sent(i) \cup {p} /\ p \notin Tools!Sent(i)
    BY <1>0, <1>1 DEF Tools!Sent
  <1>3. Tools!Received(i)' = Tools!Received(i)
    BY <1>0, <1>1 DEF Tools!Received, Tools!Took
  <1>4. Tools!Got(i)' = Tools!Got(i)
    BY <1>3 DEF Tools!Got
  <1>5. Tools!SentOnce(i, m) /\ Tools!Ordered(m) /\ Len(m) <= x3[i].attr.maxmsg
    BY DEF Tools!DeliveredFrom
  <1>6. p \notin Tools!ToSet(m) /\ p \notin Tools!Got(i)
    BY <1>2, <1>5 DEF Tools!SentOnce
  <1> PICK t : t = Tools!Insert(m, p)
    BY Zenon
  <1>7. /\ t \in Seq(QSenders) /\ Len(t) = Len(m) + 1 /\ Tools!Ordered(t) /\ Tools!Once(t)
        /\ Tools!ToSet(t) = Tools!ToSet(m) \cup {p}
    BY <1>5, <1>6, ToolsInsert
  <1>8. Tools!SentOnce(i, t)'
    <2>1. \A r \in Tools!Received(i) : x5[r] # p
      BY <1>6 DEF Tools!Got
    <2>2. Tools!Sent(i)' = Tools!ToSet(t) \cup Tools!Got(i)'
      BY <1>2, <1>4, <1>5, <1>7 DEF Tools!SentOnce
    <2> QED
      BY <1>3, <1>5, <1>7, <2>1, <2>2 DEF Tools!SentOnce
  <1>9. Tools!Waiting(i) = {}
    <2>1. ASSUME NEW y \in Tools!Waiting(i) PROVE FALSE
      <3>1. y \notin QReceivers
        BY DEF Tools!Waiting
      <3> QED
        BY <3>1 DEF Tools!DeliveredFrom, Tools!WaitsForCause
    <2> QED
      BY <2>1
  <1>10. Tools!Waiting(i)' = {}
    BY <1>1, <1>9 DEF Tools!Waiting
  <1>11. Tools!WaitsForCause(i, t)'
    BY <1>10 DEF Tools!WaitsForCause
  <1>12. Len(t) <= x3[i].attr.maxmsg
    BY <1>5, <1>7
  <1> QED
    BY <1>7, <1>8, <1>11, <1>12 DEF Tools!DeliveredFrom

\* The first message leaves the queue, and that of a sender that waits, if any,
\* takes the place.
LEMMA ToolsTakes ==
  ASSUME Tools!TypeOK, Tools!OpenInv, NEW p \in QReceivers, x1[p] = "opened",
         NEW i \in 1..Len(x3), i = x4[p], NEW m \in Seq(QSenders), m = x3[i].msgs, m # <<>>,
         Tools!DeliveredFrom(i), Tools!Once(m),
         x3'[i].attr = x3[i].attr, x3[i].attr.maxmsg \in Nat,
         x5' = [x5 EXCEPT ![p] = Head(m)], x4' = x4,
         \/ /\ \A s \in QSenders : ~(x1[s] = "blocked" /\ x4[s] = i)
            /\ x3'[i].msgs = Tail(m) /\ x1' = [x1 EXCEPT ![p] = "received"]
         \/ \E s \in QSenders :
              /\ x1[s] = "blocked" /\ x4[s] = i
              /\ x3'[i].msgs = Tools!Insert(Tail(m), s)
              /\ x1' = [x1 EXCEPT ![p] = "received", ![s] = "done"]
  PROVE  Tools!DeliveredFrom(i)' /\ Tools!Once(x3'[i].msgs) /\ x3'[i].msgs \in Seq(QSenders)
  <1>0. /\ p \in Tools!Procs /\ p \notin QSenders
        /\ QSenders \subseteq Tools!Procs /\ QReceivers \subseteq Tools!Procs
    BY ToolsAssumption DEF Tools!Procs, Tools!Users
  <1>1. Tools!SentOnce(i, m) /\ Tools!Ordered(m) /\ Len(m) <= x3[i].attr.maxmsg
    BY DEF Tools!DeliveredFrom
  <1> PICK h : h = Head(m)
    BY Zenon
  <1> PICK l : l = Tail(m)
    BY Zenon
  <1>2. /\ l \in Seq(QSenders) /\ Len(l) = Len(m) - 1 /\ h \in QSenders
        /\ Tools!Ordered(l) /\ Tools!Once(l)
        /\ Tools!ToSet(m) = Tools!ToSet(l) \cup {h} /\ h \notin Tools!ToSet(l)
    BY <1>1, ToolsTail
  <1>3. \A y \in Tools!Procs : x5'[y] = IF y = p THEN h ELSE x5[y]
    BY <1>0 DEF Tools!TypeOK
  <1>4. \A y \in Tools!Waiting(i) : y \in QSenders /\ Len(m) = x3[i].attr.maxmsg
    <2> SUFFICES ASSUME NEW y \in Tools!Waiting(i)
                 PROVE  y \in QSenders /\ Len(m) = x3[i].attr.maxmsg
      BY Zenon
    <2>1. y \notin QReceivers /\ Len(m) = x3[i].attr.maxmsg
      BY DEF Tools!DeliveredFrom, Tools!WaitsForCause
    <2>2. y \in Tools!Users /\ y \notin QGetters
      BY DEF Tools!Waiting, Tools!OpenInv
    <2> QED
      BY <2>1, <2>2 DEF Tools!Users
  <1>5. \A t \in Tools!Received(i) : t \in Tools!Procs /\ t # p
    BY <1>0 DEF Tools!Received, Tools!Took
  <1>6. \A t \in Tools!Received(i) : x5[t] # h /\ x5[t] \notin Tools!ToSet(l) /\ x5[t] \in Tools!Got(i)
    BY <1>1, <1>2 DEF Tools!SentOnce, Tools!Got
  <1>7. h \notin Tools!Got(i)
    BY <1>6 DEF Tools!Got
  <1>8. ASSUME Tools!Received(i)' = Tools!Received(i) \cup {p}
        PROVE  /\ Tools!Got(i)' = Tools!Got(i) \cup {h}
               /\ \A t, u \in Tools!Received(i)' : x5'[t] = x5'[u] => t = u
               /\ \A t \in Tools!Received(i)' : x5'[t] = h \/ x5'[t] \in Tools!Got(i)
    <2>1. \A t \in Tools!Received(i) : x5'[t] = x5[t]
      BY <1>3, <1>5
    <2>2. x5'[p] = h
      BY <1>0, <1>3
    <2>3. Tools!Got(i)' = Tools!Got(i) \cup {h}
      BY <1>8, <2>1, <2>2 DEF Tools!Got
    <2>4. ASSUME NEW t \in Tools!Received(i)', NEW u \in Tools!Received(i)', x5'[t] = x5'[u]
          PROVE  t = u
      BY <1>1, <1>6, <1>8, <2>1, <2>2, <2>4 DEF Tools!SentOnce
    <2>5. \A t \in Tools!Received(i)' : x5'[t] = h \/ x5'[t] \in Tools!Got(i)
      BY <1>6, <1>8, <2>1, <2>2
    <2> QED
      BY <2>3, <2>4, <2>5
  <1>9. CASE /\ \A s \in QSenders : ~(x1[s] = "blocked" /\ x4[s] = i)
             /\ x3'[i].msgs = Tail(m) /\ x1' = [x1 EXCEPT ![p] = "received"]
    <2>1. \A y \in Tools!Procs : x1'[y] = IF y = p THEN "received" ELSE x1[y]
      BY <1>0, <1>9 DEF Tools!TypeOK
    <2>2. Tools!Sent(i)' = Tools!Sent(i)
      BY <1>0, <2>1 DEF Tools!Sent
    <2>3. Tools!Received(i)' = Tools!Received(i) \cup {p}
      BY <1>0, <2>1 DEF Tools!Received, Tools!Took
    <2>4. Tools!SentOnce(i, l)'
      <3>1. Tools!Sent(i)' = Tools!ToSet(l) \cup Tools!Got(i)'
        BY <1>1, <1>2, <1>8, <2>2, <2>3 DEF Tools!SentOnce
      <3>2. \A t \in Tools!Received(i)' : x5'[t] \notin Tools!ToSet(l)
        BY <1>0, <1>2, <1>3, <1>5, <1>6, <2>3
      <3> QED
        BY <1>8, <2>3, <3>1, <3>2 DEF Tools!SentOnce
    <2>5. Tools!Waiting(i) = {}
      BY <1>4, <1>9 DEF Tools!Waiting
    <2>6. Tools!Waiting(i)' = {}
      BY <2>1, <2>5 DEF Tools!Waiting
    <2>7. Tools!WaitsForCause(i, l)'
      BY <2>6 DEF Tools!WaitsForCause
    <2>8. Len(l) <= x3[i].attr.maxmsg
      BY <1>1, <1>2
    <2>9. x3'[i].msgs = l
      BY <1>9
    <2> QED
      BY <1>2, <2>4, <2>7, <2>8, <2>9 DEF Tools!DeliveredFrom
  <1>10. ASSUME NEW s \in QSenders, x1[s] = "blocked", x4[s] = i,
                x3'[i].msgs = Tools!Insert(Tail(m), s),
                x1' = [x1 EXCEPT ![p] = "received", ![s] = "done"]
         PROVE  Tools!DeliveredFrom(i)' /\ Tools!Once(x3'[i].msgs) /\ x3'[i].msgs \in Seq(QSenders)
    <2>0. s \in Tools!Procs /\ s # p /\ s \notin QReceivers
      BY <1>0, ToolsAssumption
    <2>1. \A y \in Tools!Procs : x1'[y] = IF y = p THEN "received" ELSE IF y = s THEN "done" ELSE x1[y]
      BY <1>0, <1>10, <2>0 DEF Tools!TypeOK
    <2>2. Tools!Sent(i)' = Tools!Sent(i) \cup {s} /\ s \notin Tools!Sent(i)
      <3>1. \A y \in QSenders : x1'[y] = IF y = s THEN "done" ELSE x1[y]
        BY <1>0, <2>1
      <3>2. \A y \in QSenders : x1'[y] = "done" /\ x4'[y] = i
                                <=> y = s \/ (x1[y] = "done" /\ x4[y] = i)
        BY <1>10, <3>1
      <3>3. Tools!Sent(i)' = Tools!Sent(i) \cup {s}
        BY <3>2 DEF Tools!Sent
      <3> QED
        BY <1>10, <3>3 DEF Tools!Sent
    <2>3. Tools!Received(i)' = Tools!Received(i) \cup {p}
      BY <1>0, <2>0, <2>1 DEF Tools!Received, Tools!Took
    <2>4. s \notin Tools!ToSet(m) /\ s \notin Tools!Got(i)
      BY <1>1, <2>2 DEF Tools!SentOnce
    <2> PICK t : t = Tools!Insert(l, s)
      BY Zenon
    <2>5. /\ t \in Seq(QSenders) /\ Len(t) = Len(l) + 1 /\ Tools!Ordered(t) /\ Tools!Once(t)
          /\ Tools!ToSet(t) = Tools!ToSet(l) \cup {s}
      BY <1>2, <2>4, ToolsInsert
    <2>6. x3'[i].msgs = t
      BY <1>10
    <2>7. Tools!SentOnce(i, t)'
      <3>1. Tools!Sent(i)' = Tools!ToSet(t) \cup Tools!Got(i)'
        BY <1>1, <1>2, <1>8, <2>2, <2>3, <2>5 DEF Tools!SentOnce
      <3>2. \A u \in Tools!Received(i)' : x5'[u] \notin Tools!ToSet(t)
        <4>1. h # s
          BY <1>2, <2>4
        <4>2. \A u \in Tools!Received(i) : x5'[u] = x5[u] /\ x5[u] # s
          BY <1>3, <1>5, <1>6, <2>4
        <4>3. x5'[p] = h
          BY <1>0, <1>3
        <4> QED
          BY <1>2, <1>6, <2>3, <2>5, <4>1, <4>2, <4>3
      <3> QED
        BY <1>8, <2>3, <3>1, <3>2 DEF Tools!SentOnce
    <2>8. s \in Tools!Waiting(i)
      BY <1>10, <2>0 DEF Tools!Waiting
    <2>9. Len(t) = x3[i].attr.maxmsg
      <3>1. Len(m) = x3[i].attr.maxmsg
        BY <1>4, <2>8
      <3> QED
        BY <1>2, <2>5, <3>1
    <2>10. \A y \in Tools!Waiting(i)' : y \in QSenders
      BY <1>4, <2>1 DEF Tools!Waiting
    <2>11. Tools!WaitsForCause(i, t)'
      <3>1. \A y \in Tools!Waiting(i)' : y \notin QReceivers
        BY <2>10, ToolsAssumption
      <3> QED
        BY <2>9, <3>1 DEF Tools!WaitsForCause
    <2>12. Len(t) <= x3[i].attr.maxmsg
      BY <2>9
    <2> QED
      BY <2>5, <2>6, <2>7, <2>11, <2>12 DEF Tools!DeliveredFrom
  <1> QED
    BY <1>9, <1>10

\* Every step keeps the queues in order.
LEMMA ToolsStep == Tools!IndInv /\ [Tools!Next]_(Tools!vars) => Tools!IndInv'
  <1> SUFFICES ASSUME Tools!IndInv, [Tools!Next]_(Tools!vars) PROVE Tools!IndInv'
    OBVIOUS
  <1>a. /\ x3 \in Seq(Tools!Queue) /\ Len(x3) <= MaxQueues /\ x2 \in 0..Len(x3) /\ Len(x3) \in Nat
        /\ x1 \in [Tools!Procs -> {"start", "opened", "blocked", "received", "done", "failed",
                                   "denied", "lost"}]
        /\ x4 \in [Tools!Procs -> 0..Len(x3)]
        /\ x5 \in [Tools!Procs -> Tools!Procs \cup Nat]
    BY DEF Tools!IndInv, Tools!TypeOK
  <1>b. Tools!TypeOK /\ Tools!OpenInv /\ Tools!LostOnlyByWrite
    BY DEF Tools!IndInv, Tools!Delivered
  <1>c. \A i \in 1..Len(x3) : Tools!DeliveredFrom(i) /\ Tools!Once(x3[i].msgs)
    BY DEF Tools!IndInv, Tools!Delivered
  <1>d. \A i \in 1..Len(x3) : /\ x3[i].msgs \in Seq(QSenders) /\ x3[i].attr.maxmsg \in Nat
                              /\ x3[i].attr.msgsize \in Nat
    <2>1. \A i \in 1..Len(x3) : x3[i] \in Tools!Queue
      BY <1>a
    <2> QED
      BY <2>1 DEF Tools!Queue
  <1>e. /\ QCreators \subseteq Tools!Procs /\ QSenders \subseteq Tools!Procs
        /\ QReceivers \subseteq Tools!Procs /\ QGetters \subseteq Tools!Procs
        /\ QUnlinkers \subseteq Tools!Procs /\ Tools!Users \subseteq Tools!Procs
    BY DEF Tools!Procs, Tools!Users
  \* One process moves on and no message with it.
  <1>f. ASSUME NEW p \in Tools!Procs, NEW to \in {"opened", "done", "failed", "denied"},
               x1[p] \notin {"received", "done", "lost"}, x1' = [x1 EXCEPT ![p] = to],
               p \in QSenders \cup QReceivers => to # "done",
               \A y \in Tools!Procs : y # p => x4'[y] = x4[y] /\ x5'[y] = x5[y],
               NEW j \in 1..Len(x3), x3'[j] = x3[j]
        PROVE  Tools!DeliveredFrom(j)' /\ Tools!Once(x3'[j].msgs)
    <2>1. \A y \in Tools!Procs : x1'[y] = IF y = p THEN to ELSE x1[y]
      BY <1>a, <1>f
    <2>2. Tools!DeliveredFrom(j)'
      BY <1>c, <1>f, <2>1, ToolsElsewhere DEF Tools!Took
    <2> QED
      BY <1>c, <1>f, <2>2
  <1>g. ASSUME NEW p \in Tools!Procs, NEW to \in {"opened", "done", "failed", "denied"},
               x1[p] \notin {"received", "done", "lost"}, x1' = [x1 EXCEPT ![p] = to],
               p \in QSenders \cup QReceivers => to # "done",
               \A y \in Tools!Procs : y # p => x4'[y] = x4[y] /\ x5'[y] = x5[y],
               x3' = x3, x2' \in 0..Len(x3), x4' \in [Tools!Procs -> 0..Len(x3)],
               x5' \in [Tools!Procs -> Tools!Procs \cup Nat],
               to = "opened" => p \in Tools!Users /\ x4'[p] > 0,
               p \in QReceivers => x5'[p] = x5[p]
        PROVE  Tools!IndInv'
    <2>1. Tools!TypeOK'
      BY <1>a, <1>g DEF Tools!TypeOK
    <2>2. Tools!OpenInv'
      <3>1. \A y \in Tools!Procs : x1'[y] = IF y = p THEN to ELSE x1[y]
        BY <1>a, <1>g
      <3> QED
        BY <1>b, <1>g, <3>1 DEF Tools!OpenInv
    <2>3. \A j \in 1..Len(x3) : Tools!DeliveredFrom(j)' /\ Tools!Once(x3'[j].msgs)
      BY <1>f, <1>g
    <2>4. Tools!LostOnlyByWrite'
      BY <1>a, <1>b, <1>e, <1>g DEF Tools!LostOnlyByWrite, Tools!Took
    <2> QED
      BY <1>g, <2>1, <2>2, <2>3, <2>4 DEF Tools!IndInv, Tools!Delivered
  \* Whatever happens is about one queue.
  <1>h. ASSUME NEW i \in 1..Len(x3), x2' = x2, x4' = x4, x3' \in Seq(Tools!Queue),
               Len(x3') = Len(x3), \A j \in 1..Len(x3) : j # i => x3'[j] = x3[j],
               x5' \in [Tools!Procs -> Tools!Procs \cup Nat],
               x1' \in [Tools!Procs -> {"start", "opened", "blocked", "received", "done", "failed",
                                        "denied", "lost"}],
               \A y \in Tools!Procs :
                 \/ x1'[y] = x1[y] /\ x5'[y] = x5[y]
                 \/ /\ x4[y] = i
                    /\ \/ x1'[y] \in {"received", "done"}
                       \/ /\ x1[y] = "opened" /\ x1'[y] = "blocked" /\ y \notin QGetters
                          /\ x5'[y] = x5[y],
               Tools!DeliveredFrom(i)', Tools!Once(x3'[i].msgs)
        PROVE  Tools!IndInv'
    <2>1. Tools!TypeOK'
      BY <1>a, <1>h DEF Tools!TypeOK
    <2>2. Tools!OpenInv'
      BY <1>b, <1>h DEF Tools!OpenInv
    <2>3. ASSUME NEW j \in 1..Len(x3), j # i
          PROVE  Tools!DeliveredFrom(j)' /\ Tools!Once(x3'[j].msgs)
      <3>1. Tools!DeliveredFrom(j)'
        BY <1>c, <1>h, <2>3, ToolsElsewhere
      <3> QED
        BY <1>c, <1>h, <2>3, <3>1
    <2>4. Tools!LostOnlyByWrite'
      BY <1>b, <1>e, <1>h DEF Tools!LostOnlyByWrite, Tools!Took
    <2> QED
      BY <1>h, <2>1, <2>2, <2>3, <2>4 DEF Tools!IndInv, Tools!Delivered
  <1>1. ASSUME NEW p \in Tools!Procs, NEW c \in BOOLEAN, NEW x \in BOOLEAN,
               Tools!CreateOld(p, c, x)
        PROVE  Tools!IndInv'
    <2>1. /\ p \in QCreators /\ x1[p] = "start" /\ UNCHANGED <<x2, x3, x5>>
          /\ x4' = x4 \/ x4' = [x4 EXCEPT ![p] = x2]
          /\ \E to \in {"done", "failed", "denied"} : x1' = [x1 EXCEPT ![p] = to]
      BY <1>1 DEF Tools!CreateOld, Tools!Move
    <2>2. PICK to \in {"done", "failed", "denied"} : x1' = [x1 EXCEPT ![p] = to]
      BY <2>1
    <2>3. p \notin QSenders \cup QReceivers
      BY <2>1, ToolsAssumption
    <2>4. /\ x4' \in [Tools!Procs -> 0..Len(x3)]
          /\ \A y \in Tools!Procs : y # p => x4'[y] = x4[y]
      BY <1>a, <2>1
    <2> QED
      BY <1>a, <1>g, <2>1, <2>2, <2>3, <2>4
  <1>2. ASSUME NEW p \in Tools!Procs, NEW c \in BOOLEAN, NEW a \in Attrs, NEW d \in Perms,
               Tools!CreateNew(p, c, a, d)
        PROVE  Tools!IndInv'
    <2>1. p \in QCreators /\ x1[p] = "start" /\ x5' = x5 /\ p \notin QSenders \cup QReceivers
      BY <1>2, ToolsAssumption DEF Tools!CreateNew
    <2>2. CASE ~c \/ a.maxmsg <= 0 \/ a.msgsize <= 0
      <3>1. x1' = [x1 EXCEPT ![p] = "failed"] /\ UNCHANGED <<x2, x3, x4>>
        BY <1>2, <2>2 DEF Tools!CreateNew, Tools!Move
      <3> QED
        BY <1>a, <1>g, <2>1, <3>1
    <2>3. CASE ~(~c \/ a.maxmsg <= 0 \/ a.msgsize <= 0)
      <3> PICK e : e = [attr |-> a, perms |-> d, mode |-> Tools!ModeOf(d), msgs |-> <<>>]
        OBVIOUS
      <3>1. /\ Len(x3) < MaxQueues /\ x3' = Append(x3, e) /\ x2' = Len(x3')
            /\ x4' = [x4 EXCEPT ![p] = x2'] /\ x1' = [x1 EXCEPT ![p] = "done"]
        BY <1>2, <2>3 DEF Tools!CreateNew, Tools!Move
      <3>2. e \in Tools!Queue
        <4>1. a \in [maxmsg : Int, msgsize : Int]
          BY ToolsAssumption
        <4>2. a \in [maxmsg : Nat \ {0}, msgsize : Nat \ {0}]
          BY <2>3, <4>1
        <4>3. <<>> \in Seq(QSenders)
          OBVIOUS
        <4> QED
          BY <4>2, <4>3 DEF Tools!Queue
      <3> PICK n : n = Len(x3) + 1
        OBVIOUS
      <3>3. /\ x3' \in Seq(Tools!Queue) /\ Len(x3') = n /\ n \in Nat /\ n > 0
            /\ x3'[n] = e /\ \A j \in 1..Len(x3) : x3'[j] = x3[j] /\ j \in 1..n
        BY <1>a, <3>1, <3>2
      <3>4. \A y \in Tools!Procs : /\ x1'[y] = IF y = p THEN "done" ELSE x1[y]
                                   /\ x4'[y] = IF y = p THEN n ELSE x4[y]
        BY <1>a, <3>1, <3>3
      <3>5. Tools!TypeOK'
        <4>1. x4' \in [Tools!Procs -> 0..n]
          BY <1>a, <3>1, <3>3
        <4>2. n <= MaxQueues /\ n \in 0..n
          BY <1>a, <3>1, <3>3, ToolsAssumption
        <4> QED
          BY <1>a, <2>1, <3>1, <3>3, <4>1, <4>2 DEF Tools!TypeOK
      <3>6. Tools!OpenInv'
        BY <1>b, <2>1, <3>4 DEF Tools!OpenInv
      <3>7. ASSUME NEW j \in 1..Len(x3)
            PROVE  Tools!DeliveredFrom(j)' /\ Tools!Once(x3'[j].msgs)
        <4>1. x3'[j] = x3[j]
          BY <3>3
        <4>2. \A y \in Tools!Procs : y # p => x4'[y] = x4[y] /\ x5'[y] = x5[y]
          BY <2>1, <3>4
        <4> QED
          BY <1>f, <2>1, <3>1, <4>1, <4>2
      <3>8. Tools!DeliveredFrom(n)' /\ Tools!Once(x3'[n].msgs)
        <4>1. \A y \in QSenders \cup QReceivers : x4'[y] # n
          <5>1. \A y \in QSenders \cup QReceivers : y \in Tools!Procs /\ y # p
            BY <1>e, <2>1
          <5>2. \A y \in Tools!Procs : x4[y] # n
            BY <1>a
          <5> QED
            BY <3>4, <5>1, <5>2
        <4>2. Tools!Sent(n)' = {} /\ Tools!Received(n)' = {}
          BY <4>1 DEF Tools!Sent, Tools!Received, Tools!Took
        <4>3. Tools!Got(n)' = {}
          BY <4>2 DEF Tools!Got
        <4>4. Tools!Waiting(n)' = {}
          <5>1. \A y \in Tools!Procs : x4[y] # n
            BY <1>a
          <5> QED
            BY <3>4, <5>1 DEF Tools!Waiting
        <4>5. x3'[n].msgs = <<>> /\ x3'[n].attr.maxmsg \in Nat
          BY <3>2, <3>3 DEF Tools!Queue
        <4>6. Tools!ToSet(<<>>) = {}
          <5>1. <<>> \in Seq(QSenders) /\ 1..Len(<<>>) = {}
            OBVIOUS
          <5> QED
            BY <5>1, ToolsToSet
        <4>7. Tools!SentOnce(n, <<>>)'
          BY <4>2, <4>3, <4>6 DEF Tools!SentOnce
        <4>8. Tools!WaitsForCause(n, <<>>)'
          BY <4>4 DEF Tools!WaitsForCause
        <4>9. Len(<<>>) = 0 /\ 1..Len(<<>>) = {}
          OBVIOUS
        <4>10. Tools!Ordered(<<>>) /\ Tools!Once(<<>>)
          BY <4>9 DEF Tools!Ordered, Tools!Once
        <4> QED
          BY <4>5, <4>7, <4>8, <4>9, <4>10 DEF Tools!DeliveredFrom
      <3>9. \A j \in 1..Len(x3') : j \in 1..Len(x3) \/ j = n
        BY <1>a, <3>3
      <3>10. Tools!LostOnlyByWrite'
        BY <1>b, <1>e, <2>1, <3>4 DEF Tools!LostOnlyByWrite, Tools!Took
      <3> QED
        BY <3>5, <3>6, <3>7, <3>8, <3>9, <3>10 DEF Tools!IndInv, Tools!Delivered
    <2> QED
      BY <2>2, <2>3
  <1>3. ASSUME NEW p \in Tools!Procs, Tools!Open(p) PROVE Tools!IndInv'
    <2>1. /\ p \in Tools!Users /\ x1[p] = "start" /\ UNCHANGED <<x2, x3, x5>>
          /\ \/ x4' = x4 /\ \E to \in {"failed", "denied"} : x1' = [x1 EXCEPT ![p] = to]
             \/ x2 # 0 /\ x4' = [x4 EXCEPT ![p] = x2] /\ x1' = [x1 EXCEPT ![p] = "opened"]
      BY <1>3 DEF Tools!Open, Tools!Move
    <2>2. CASE x4' = x4 /\ \E to \in {"failed", "denied"} : x1' = [x1 EXCEPT ![p] = to]
      BY <1>a, <1>g, <2>1, <2>2
    <2>3. CASE x2 # 0 /\ x4' = [x4 EXCEPT ![p] = x2] /\ x1' = [x1 EXCEPT ![p] = "opened"]
      <3>1. /\ x4' \in [Tools!Procs -> 0..Len(x3)] /\ x4'[p] > 0
            /\ \A y \in Tools!Procs : y # p => x4'[y] = x4[y]
        BY <1>a, <2>3
      <3> QED
        BY <1>a, <1>g, <2>1, <2>3, <3>1
    <2> QED
      BY <2>1, <2>2, <2>3
  <1>4. ASSUME NEW p \in Tools!Procs, Tools!Send(p) PROVE Tools!IndInv'
    <2> PICK i : i = x4[p]
      OBVIOUS
    <2> PICK m : m = x3[i].msgs
      OBVIOUS
    <2>0. /\ p \in QSenders /\ x1[p] = "opened" /\ UNCHANGED <<x2, x4>>
          /\ p \notin QReceivers /\ p \notin QGetters
      BY <1>4, ToolsAssumption DEF Tools!Send
    <2>1. /\ i \in 1..Len(x3) /\ m \in Seq(QSenders) /\ x3[i].attr.maxmsg \in Nat
          /\ Tools!DeliveredFrom(i) /\ Tools!Once(m)
      <3>1. i \in 1..Len(x3)
        BY <1>a, <1>b, <2>0 DEF Tools!OpenInv
      <3> QED
        BY <1>c, <1>d, <3>1
    <2>2. \/ x1' = [x1 EXCEPT ![p] = "failed"] /\ UNCHANGED <<x3, x5>>
          \/ /\ Len(m) = x3[i].attr.maxmsg
             /\ x1' = [x1 EXCEPT ![p] = "blocked"] /\ UNCHANGED <<x3, x5>>
          \/ \E r \in QReceivers : /\ x1[r] = "blocked" /\ x4[r] = i
                                   /\ x1' = [x1 EXCEPT ![p] = "done", ![r] = "received"]
                                   /\ x5' = [x5 EXCEPT ![r] = p] /\ x3' = x3
          \/ /\ Len(m) # x3[i].attr.maxmsg
             /\ \A r \in QReceivers : ~(x1[r] = "blocked" /\ x4[r] = i)
             /\ x3' = [x3 EXCEPT ![i].msgs = Tools!Insert(m, p)]
             /\ x1' = [x1 EXCEPT ![p] = "done"] /\ x5' = x5
      BY <1>4, <2>0 DEF Tools!Send, Tools!Msgs, Tools!SetMsgs, Tools!Blocked, Tools!Move
    <2>3. CASE x1' = [x1 EXCEPT ![p] = "failed"] /\ UNCHANGED <<x3, x5>>
      BY <1>a, <1>g, <2>0, <2>3
    <2>4. CASE /\ Len(m) = x3[i].attr.maxmsg
               /\ x1' = [x1 EXCEPT ![p] = "blocked"] /\ UNCHANGED <<x3, x5>>
      <3>1. Tools!DeliveredFrom(i)'
        BY <1>b, <2>0, <2>1, <2>4, ToolsWaits
      <3>2. /\ \A y \in Tools!Procs : y # p => x1'[y] = x1[y]
            /\ x1'[p] = "blocked"
            /\ x1' \in [Tools!Procs -> {"start", "opened", "blocked", "received", "done", "failed",
                                        "denied", "lost"}]
        BY <1>a, <2>4
      <3> QED
        BY <1>a, <1>h, <2>0, <2>1, <2>4, <3>1, <3>2
    <2>5. ASSUME NEW r \in QReceivers, x1[r] = "blocked", x4[r] = i,
                 x1' = [x1 EXCEPT ![p] = "done", ![r] = "received"],
                 x5' = [x5 EXCEPT ![r] = p], x3' = x3
          PROVE  Tools!IndInv'
      <3>1. Tools!DeliveredFrom(i)'
        BY <1>b, <2>0, <2>1, <2>5, ToolsHandsOver
      <3>2. /\ \A y \in Tools!Procs : y # p /\ y # r => x1'[y] = x1[y] /\ x5'[y] = x5[y]
            /\ x1'[p] = "done" /\ x1'[r] = "received" /\ r \in Tools!Procs
            /\ x1' \in [Tools!Procs -> {"start", "opened", "blocked", "received", "done", "failed",
                                        "denied", "lost"}]
            /\ x5' \in [Tools!Procs -> Tools!Procs \cup Nat]
        BY <1>a, <1>e, <2>5
      <3> QED
        BY <1>a, <1>h, <2>0, <2>1, <2>5, <3>1, <3>2
    <2>6. CASE /\ Len(m) # x3[i].attr.maxmsg
               /\ \A r \in QReceivers : ~(x1[r] = "blocked" /\ x4[r] = i)
               /\ x3' = [x3 EXCEPT ![i].msgs = Tools!Insert(m, p)]
               /\ x1' = [x1 EXCEPT ![p] = "done"] /\ x5' = x5
      <3>1. Tools!Insert(m, p) \in Seq(QSenders)
        <4>1. Tools!Ordered(m) /\ Tools!SentOnce(i, m) /\ p \notin Tools!Sent(i)
          BY <2>0, <2>1 DEF Tools!DeliveredFrom, Tools!Sent
        <4>2. p \notin Tools!ToSet(m)
          BY <4>1 DEF Tools!SentOnce
        <4> QED
          BY <2>0, <2>1, <4>1, <4>2, ToolsInsert
      <3>2. /\ x3' \in Seq(Tools!Queue) /\ Len(x3') = Len(x3)
            /\ x3'[i].msgs = Tools!Insert(m, p) /\ x3'[i].attr = x3[i].attr
            /\ \A j \in 1..Len(x3) : j # i => x3'[j] = x3[j]
        BY <1>a, <2>1, <2>6, <3>1, ToolsSetMsgs
      <3>3. Tools!DeliveredFrom(i)' /\ Tools!Once(x3'[i].msgs)
        BY <1>b, <2>0, <2>1, <2>6, <3>2, ToolsStores
      <3>4. /\ \A y \in Tools!Procs : y # p => x1'[y] = x1[y]
            /\ x1'[p] = "done"
            /\ x1' \in [Tools!Procs -> {"start", "opened", "blocked", "received", "done", "failed",
                                        "denied", "lost"}]
        BY <1>a, <2>6
      <3> QED
        BY <1>a, <1>h, <2>0, <2>1, <2>6, <3>2, <3>3, <3>4
    <2> QED
      BY <2>2, <2>3, <2>4, <2>5, <2>6
  <1>5. ASSUME NEW p \in Tools!Procs, Tools!Receive(p) PROVE Tools!IndInv'
    <2> PICK i : i = x4[p]
      OBVIOUS
    <2> PICK m : m = x3[i].msgs
      OBVIOUS
    <2>0. /\ p \in QReceivers /\ x1[p] = "opened" /\ UNCHANGED <<x2, x4>> /\ p \notin QGetters
      BY <1>5, ToolsAssumption DEF Tools!Receive
    <2>1. /\ i \in 1..Len(x3) /\ m \in Seq(QSenders) /\ x3[i].attr.maxmsg \in Nat
          /\ Tools!DeliveredFrom(i) /\ Tools!Once(m)
      <3>1. i \in 1..Len(x3)
        BY <1>a, <1>b, <2>0 DEF Tools!OpenInv
      <3> QED
        BY <1>c, <1>d, <3>1
    <2>2. \/ m = <<>> /\ x1' = [x1 EXCEPT ![p] = "failed"] /\ UNCHANGED <<x3, x5>>
          \/ m = <<>> /\ x1' = [x1 EXCEPT ![p] = "blocked"] /\ UNCHANGED <<x3, x5>>
          \/ /\ m # <<>> /\ x5' = [x5 EXCEPT ![p] = Head(m)]
             /\ \/ /\ \A s \in QSenders : ~(x1[s] = "blocked" /\ x4[s] = i)
                   /\ x3' = [x3 EXCEPT ![i].msgs = Tail(m)] /\ x1' = [x1 EXCEPT ![p] = "received"]
                \/ \E s \in QSenders :
                     /\ x1[s] = "blocked" /\ x4[s] = i
                     /\ x3' = [x3 EXCEPT ![i].msgs = Tools!Insert(Tail(m), s)]
                     /\ x1' = [x1 EXCEPT ![p] = "received", ![s] = "done"]
      BY <1>5, <2>0 DEF Tools!Receive, Tools!Msgs, Tools!SetMsgs, Tools!Blocked, Tools!Move
    <2>3. CASE x1' = [x1 EXCEPT ![p] = "failed"] /\ UNCHANGED <<x3, x5>>
      BY <1>a, <1>g, <2>0, <2>3
    <2>4. CASE m = <<>> /\ x1' = [x1 EXCEPT ![p] = "blocked"] /\ UNCHANGED <<x3, x5>>
      <3>1. Tools!DeliveredFrom(i)'
        BY <1>b, <2>0, <2>1, <2>4, ToolsWaits
      <3>2. /\ \A y \in Tools!Procs : y # p => x1'[y] = x1[y]
            /\ x1'[p] = "blocked"
            /\ x1' \in [Tools!Procs -> {"start", "opened", "blocked", "received", "done", "failed",
                                        "denied", "lost"}]
        BY <1>a, <2>4
      <3> QED
        BY <1>a, <1>h, <2>0, <2>1, <2>4, <3>1, <3>2
    <2>5. CASE m # <<>> /\ x5' = [x5 EXCEPT ![p] = Head(m)]
      <3>1. /\ Tail(m) \in Seq(QSenders) /\ Head(m) \in QSenders
            /\ Tools!Ordered(Tail(m)) /\ Tools!Once(Tail(m))
            /\ \A s \in Tools!ToSet(Tail(m)) : s \in Tools!ToSet(m)
        BY <2>1, <2>5, ToolsTail DEF Tools!DeliveredFrom
      <3>2. /\ x5' \in [Tools!Procs -> Tools!Procs \cup Nat]
            /\ \A y \in Tools!Procs : y # p => x5'[y] = x5[y]
        BY <1>a, <1>e, <2>5, <3>1
      <3>3. CASE /\ \A s \in QSenders : ~(x1[s] = "blocked" /\ x4[s] = i)
                 /\ x3' = [x3 EXCEPT ![i].msgs = Tail(m)] /\ x1' = [x1 EXCEPT ![p] = "received"]
        <4>1. /\ x3' \in Seq(Tools!Queue) /\ Len(x3') = Len(x3)
              /\ x3'[i].msgs = Tail(m) /\ x3'[i].attr = x3[i].attr
              /\ \A j \in 1..Len(x3) : j # i => x3'[j] = x3[j]
          BY <1>a, <2>1, <3>1, <3>3, ToolsSetMsgs
        <4>2. Tools!DeliveredFrom(i)' /\ Tools!Once(x3'[i].msgs)
          BY <1>b, <2>0, <2>1, <2>5, <3>3, <4>1, ToolsTakes
        <4>3. /\ \A y \in Tools!Procs : y # p => x1'[y] = x1[y]
              /\ x1'[p] = "received"
              /\ x1' \in [Tools!Procs -> {"start", "opened", "blocked", "received", "done", "failed",
                                          "denied", "lost"}]
          BY <1>a, <3>3
        <4> QED
          BY <1>a, <1>h, <2>0, <2>1, <3>2, <4>1, <4>2, <4>3
      <3>4. ASSUME NEW s \in QSenders, x1[s] = "blocked", x4[s] = i,
                   x3' = [x3 EXCEPT ![i].msgs = Tools!Insert(Tail(m), s)],
                   x1' = [x1 EXCEPT ![p] = "received", ![s] = "done"]
            PROVE  Tools!IndInv'
        <4>1. Tools!Insert(Tail(m), s) \in Seq(QSenders)
          <5>1. Tools!SentOnce(i, m) /\ s \notin Tools!Sent(i)
            BY <2>1, <3>4 DEF Tools!DeliveredFrom, Tools!Sent
          <5>2. s \notin Tools!ToSet(Tail(m))
            BY <3>1, <5>1 DEF Tools!SentOnce
          <5> QED
            BY <3>1, <5>2, ToolsInsert
        <4>2. /\ x3' \in Seq(Tools!Queue) /\ Len(x3') = Len(x3)
              /\ x3'[i].msgs = Tools!Insert(Tail(m), s) /\ x3'[i].attr = x3[i].attr
              /\ \A j \in 1..Len(x3) : j # i => x3'[j] = x3[j]
          BY <1>a, <2>1, <3>4, <4>1, ToolsSetMsgs
        <4>3. Tools!DeliveredFrom(i)' /\ Tools!Once(x3'[i].msgs)
          BY <1>b, <2>0, <2>1, <2>5, <3>4, <4>2, ToolsTakes
        <4>4. /\ \A y \in Tools!Procs : y # p /\ y # s => x1'[y] = x1[y]
              /\ x1'[p] = "received" /\ x1'[s] = "done" /\ s \in Tools!Procs
              /\ x1' \in [Tools!Procs -> {"start", "opened", "blocked", "received", "done", "failed",
                                          "denied", "lost"}]
          <5>1. s \in Tools!Procs /\ s # p
            BY <1>e, <2>0, ToolsAssumption
          <5> QED
            BY <1>a, <3>4, <5>1
        <4>5. \A y \in Tools!Procs : \/ x1'[y] = x1[y] /\ x5'[y] = x5[y]
                                     \/ x4[y] = i /\ x1'[y] \in {"received", "done"}
          BY <3>2, <3>4, <4>4
        <4> QED
          BY <1>a, <1>h, <2>0, <2>1, <3>2, <4>2, <4>3, <4>4, <4>5
      <3> QED
        BY <2>2, <2>5, <3>3, <3>4
    <2> QED
      BY <2>2, <2>3, <2>4, <2>5
  <1>6. ASSUME NEW p \in Tools!Procs, Tools!GetAttr(p) PROVE Tools!IndInv'
    <2>1. /\ p \in QGetters /\ x1[p] = "opened" /\ x1' = [x1 EXCEPT ![p] = "done"]
          /\ x5' = [x5 EXCEPT ![p] = Len(x3[x4[p]].msgs)] /\ UNCHANGED <<x2, x3, x4>>
      BY <1>6 DEF Tools!GetAttr, Tools!Move, Tools!Msgs
    <2>2. x4[p] \in 1..Len(x3) /\ p \notin QSenders \cup QReceivers
      BY <1>a, <1>b, <2>1, ToolsAssumption DEF Tools!OpenInv
    <2>3. Len(x3[x4[p]].msgs) \in Nat
      BY <1>d, <2>2
    <2>4. /\ x5' \in [Tools!Procs -> Tools!Procs \cup Nat]
          /\ \A y \in Tools!Procs : y # p => x5'[y] = x5[y]
      BY <1>a, <2>1, <2>3
    <2> QED
      BY <1>a, <1>g, <2>1, <2>2, <2>4
  <1>7. ASSUME NEW p \in Tools!Procs, Tools!Unlink(p) PROVE Tools!IndInv'
    <2>1. /\ p \in QUnlinkers /\ x1[p] = "start" /\ x2' = 0 /\ UNCHANGED <<x3, x4, x5>>
          /\ \E to \in {"done", "failed"} : x1' = [x1 EXCEPT ![p] = to]
      BY <1>7 DEF Tools!Unlink, Tools!Move
    <2>2. p \notin QSenders \cup QReceivers
      BY <2>1, ToolsAssumption
    <2>3. PICK to \in {"done", "failed"} : x1' = [x1 EXCEPT ![p] = to]
      BY <2>1
    <2>4. 0 \in 0..Len(x3)
      BY <1>a
    <2> QED
      BY <1>a, <1>g, <2>1, <2>2, <2>3, <2>4
  <1>9. ASSUME NEW p \in Tools!Procs, Tools!Write(p) PROVE Tools!IndInv'
    <2>1. /\ p \in QReceivers /\ x1[p] = "received" /\ UNCHANGED <<x2, x3, x4, x5>>
          /\ \E to \in {"done", "lost"} : x1' = [x1 EXCEPT ![p] = to]
      BY <1>9 DEF Tools!Write, Tools!Move
    <2>2. PICK to \in {"done", "lost"} : x1' = [x1 EXCEPT ![p] = to]
      BY <2>1
    <2>3. \A y \in Tools!Procs : x1'[y] = IF y = p THEN to ELSE x1[y]
      BY <1>a, <2>2
    <2>4. Tools!TypeOK' /\ Tools!OpenInv' /\ Tools!LostOnlyByWrite'
      <3>1. Tools!TypeOK'
        BY <1>a, <2>1, <2>2 DEF Tools!TypeOK
      <3>2. Tools!OpenInv'
        BY <1>b, <2>1, <2>3 DEF Tools!OpenInv
      <3>3. Tools!LostOnlyByWrite'
        BY <1>b, <1>e, <2>1, <2>3 DEF Tools!LostOnlyByWrite, Tools!Took
      <3> QED
        BY <3>1, <3>2, <3>3
    <2>5. ASSUME NEW j \in 1..Len(x3)
          PROVE  Tools!DeliveredFrom(j)'
      <3>1. Tools!Sent(j)' = Tools!Sent(j)
        <4>1. \A y \in QSenders : x1'[y] = x1[y]
          BY <1>e, <2>1, <2>3, ToolsAssumption
        <4> QED
          BY <2>1, <4>1 DEF Tools!Sent
      <3>2. Tools!Received(j)' = Tools!Received(j)
        BY <1>e, <2>1, <2>3 DEF Tools!Received, Tools!Took
      <3>3. Tools!Got(j)' = Tools!Got(j)
        BY <2>1, <3>2 DEF Tools!Got
      <3>4. Tools!Waiting(j)' = Tools!Waiting(j)
        BY <2>1, <2>3 DEF Tools!Waiting
      <3>5. Tools!SentOnce(j, x3[j].msgs)' /\ Tools!WaitsForCause(j, x3[j].msgs)'
        BY <1>c, <2>1, <3>1, <3>2, <3>3, <3>4
        DEF Tools!DeliveredFrom, Tools!SentOnce, Tools!WaitsForCause
      <3> QED
        BY <1>c, <2>1, <3>5 DEF Tools!DeliveredFrom
    <2> QED
      BY <1>c, <2>1, <2>4, <2>5 DEF Tools!IndInv, Tools!Delivered
  <1>8. CASE UNCHANGED Tools!vars
    BY <1>8 DEF Tools!vars, Tools!IndInv, Tools!TypeOK, Tools!OpenInv, Tools!Delivered,
                Tools!DeliveredFrom, Tools!SentOnce, Tools!Sent, Tools!Received, Tools!Got,
                Tools!WaitsForCause, Tools!Waiting, Tools!Took, Tools!LostOnlyByWrite
  <1> QED
    BY <1>1, <1>2, <1>3, <1>4, <1>5, <1>6, <1>7, <1>8, <1>9 DEF Tools!Next, Tools!Tool

\* The queue tools lose, duplicate and mix up no message, whatever happens to
\* the name meanwhile (pmsg_send.c lines 32-45, pmsg_receive.c lines 34-61,
\* pmsg_unlink.c line 13), except one that a receiver took and could not write;
\* for any processes, priorities and attributes.
THEOREM ToolsDelivered == FamilySpec => []Delivered
  <1>1. FamilyInit => Delivered
    <2> SUFFICES ASSUME Tools!Init PROVE Tools!IndInv
      BY DEF FamilyInit, Delivered, Tools!IndInv
    <2>1. x3 = <<>> /\ <<>> \in Seq(Tools!Queue) /\ Len(x3) = 0
      BY DEF Tools!Init
    <2>2. Tools!TypeOK
      BY <2>1, ToolsAssumption DEF Tools!Init, Tools!TypeOK
    <2>3. Tools!OpenInv
      BY DEF Tools!Init, Tools!OpenInv
    <2>4. Tools!LostOnlyByWrite
      BY DEF Tools!Init, Tools!LostOnlyByWrite, Tools!Procs, Tools!Users
    <2> QED
      BY <2>1, <2>2, <2>3, <2>4 DEF Tools!IndInv, Tools!Delivered
  <1>2. Delivered /\ [FamilyNext]_all => Delivered'
    <2> SUFFICES ASSUME Delivered, [FamilyNext]_all, kind' = "tools" PROVE Tools!IndInv'
      BY DEF Delivered, Tools!IndInv
    <2> QED
      BY FamilyStep, ToolsStep DEF Delivered
  <1> QED
    BY <1>1, <1>2, PTL DEF FamilySpec
=============================================================================
