-------------------------- MODULE ProcessesProofs --------------------------
(***************************************************************************)
(* The programs that make processes or threads: what their runs check, for *)
(* every value of the constants.  Each program has its inductive invariant *)
(* IndInv, a lemma that its steps preserve it, and a theorem about the     *)
(* behaviours of the family.  x1, x2, ... are the program's variables, in  *)
(* the order in which its module declares them.                            *)
(***************************************************************************)
EXTENDS MCProcesses, Sequences, FiniteSetTheorems, WellFoundedInduction, TLAPS

-----------------------------------------------------------------------------
(* pipe_sync: the barrier holds for any number of children, although       *)
(* children may be killed and fork() may fail.                             *)

\* Every step keeps track of who holds the write end of the pipe.
LEMMA SyncStep == IndInv /\ [Next]_vars => IndInv'
  <1> SUFFICES ASSUME IndInv, [Next]_vars PROVE IndInv'
    OBVIOUS
  <1> USE PipeSyncAssumption DEF IndInv, TypeOK, WriteEnds, Kids
  <1>1. CASE Fork
    BY <1>1 DEF Fork
  <1>2. CASE ParentCloseW
    BY <1>2 DEF ParentCloseW
  <1>3. CASE ParentRead
    BY <1>3 DEF ParentRead
  <1>4. CASE ParentAsChild
    BY <1>4 DEF ParentAsChild
  <1>5. CASE ForkFails
    BY <1>5 DEF ForkFails
  <1>6. ASSUME NEW k \in Kids, KidCloseR(k) PROVE IndInv'
    BY <1>6 DEF KidCloseR
  <1>7. ASSUME NEW k \in Kids, KidCloseW(k) PROVE IndInv'
    BY <1>7 DEF KidCloseW
  <1>8. ASSUME NEW k \in Kids, KidDies(k) PROVE IndInv'
    BY <1>8 DEF KidDies
  <1>9. CASE UNCHANGED vars
    BY <1>9 DEF vars
  <1> QED
    BY <1>1, <1>2, <1>3, <1>4, <1>5, <1>6, <1>7, <1>8, <1>9
    DEF Next, Parent, Kid

\* The bookkeeping of the write ends is an invariant.
THEOREM SyncInvariant == Spec => []IndInv
  <1>1. Init => IndInv
    BY PipeSyncAssumption DEF Init, IndInv, TypeOK, WriteEnds, Kids
  <1> QED
    BY <1>1, SyncStep, PTL DEF Spec

\* The parent passes its read() only after every child has finished, and is
\* blocked there by a child that has not (pipe_sync.c lines 5-6).
THEOREM SyncBarrier == Spec => []Barrier
  <1>1. IndInv => Barrier
    <2> SUFFICES ASSUME IndInv PROVE Barrier
      OBVIOUS
    <2>1. parent = "ready" => \A k \in Kids : kid[k] = "ended"
      BY PipeSyncAssumption DEF IndInv, TypeOK, WriteEnds, Kids
    <2>2. ASSUME parent = "read", wr # {}
          PROVE  \E k \in Kids : kid[k] \in {"closeR", "work"}
      <3>1. PICK k \in wr : TRUE
        BY <2>2
      <3>2. k \in Kids
        BY <2>2, PipeSyncAssumption DEF IndInv, TypeOK, WriteEnds, Kids
      <3> QED
        BY <3>1, <3>2 DEF IndInv, WriteEnds
    <2> QED
      BY <2>1, <2>2 DEF Barrier
  <1> QED
    BY SyncInvariant, <1>1, PTL

-----------------------------------------------------------------------------
\* A step of the family is a step of the program it names, or changes nothing.
LEMMA FamilyStep ==
  ASSUME [FamilyNext]_all
  PROVE  /\ program' = program
         /\ program = "pipe_sync" => [Next]_vars
         /\ program = "simple_pipe" => [Simple!Next]_(Simple!vars)
         /\ program = "pipe_ls_wc" => [Filter!Next]_(Filter!vars)
         /\ program = "fork_sig_sync" => [SigSync!Next]_(SigSync!vars)
         /\ program = "multi_wait" => [Multi!Next]_(Multi!vars)
         /\ program = "fork_share" => [Share!Next]_(Share!vars)
         /\ program = "thread_cancel" => [Cancel!Next]_(Cancel!vars)
         /\ program = "become_daemon" => [Become!Next]_(Become!vars)
         /\ program = "popen_glob" => [Popen!Next]_(Popen!vars)
  <1>1. CASE FamilyNext
    BY <1>1 DEF FamilyNext, In, InSync, InSimple, InFilter, InSigSync, InMulti,
                InShare, InCancel, InBecome, InPopen
  <1>2. CASE UNCHANGED all
    BY <1>2 DEF all, Simple!vars, Filter!vars, SigSync!vars, Multi!vars, Share!vars,
                Cancel!vars, Become!vars, Popen!vars
  <1> QED
    BY <1>1, <1>2

-----------------------------------------------------------------------------
(* fork_sig_sync                                                           *)

\* The child's signal is kept for the parent by every step.
LEMMA SigSyncStep == SigSync!IndInv /\ [SigSync!Next]_(SigSync!vars) => SigSync!IndInv'
  <1> SUFFICES ASSUME SigSync!IndInv, [SigSync!Next]_(SigSync!vars)
               PROVE  SigSync!IndInv'
    OBVIOUS
  <1> USE DEF SigSync!IndInv, SigSync!TypeOK, SigSync!MaskInv, SigSync!SignalKept,
              SigSync!Told, SigSync!Ended
  <1>1. CASE SigSync!Block
    <2>1. x3' \in BOOLEAN
      BY Zenon, <1>1 DEF SigSync!Block
    <2> QED
      BY <1>1, <2>1 DEF SigSync!Block
  <1>2. CASE SigSync!Install
    <2>1. x4' \in BOOLEAN
      BY Zenon, <1>2 DEF SigSync!Install
    <2> QED
      BY <1>2, <2>1 DEF SigSync!Install
  <1>3. CASE SigSync!Fork
    BY <1>3 DEF SigSync!Fork
  <1>4. CASE SigSync!Suspend
    <2>1. x5' \in BOOLEAN
      BY Zenon, <1>4 DEF SigSync!Suspend
    <2> QED
      BY <1>4, <2>1 DEF SigSync!Suspend
  <1>5. CASE SigSync!Restore
    <2>1. x3' \in BOOLEAN /\ x5' \in BOOLEAN
      BY Zenon, <1>5 DEF SigSync!Restore
    <2> QED
      BY <1>5, <2>1 DEF SigSync!Restore
  <1>6. CASE SigSync!ForkFails
    BY <1>6 DEF SigSync!ForkFails
  <1>7. CASE SigSync!Work
    BY <1>7 DEF SigSync!Work
  <1>8. ASSUME SigSync!Signal PROVE x5' \in BOOLEAN
    BY Zenon, <1>8 DEF SigSync!Signal
  <1>9. CASE SigSync!Kill
    BY <1>8, <1>9 DEF SigSync!Kill, SigSync!Signal
  <1>10. CASE SigSync!Stray
    <2>1. x7' \in Nat /\ x7' > 0
      BY <1>10 DEF SigSync!Stray
    <2> QED
      BY <1>8, <1>10, <2>1 DEF SigSync!Stray, SigSync!Signal
  <1>11. CASE SigSync!KillParent
    BY <1>11 DEF SigSync!KillParent
  <1>12. CASE SigSync!KillChild
    BY <1>12 DEF SigSync!KillChild
  <1>13. CASE UNCHANGED SigSync!vars
    BY <1>13 DEF SigSync!vars
  <1> QED
    BY <1>1, <1>2, <1>3, <1>4, <1>5, <1>6, <1>7, <1>9, <1>10, <1>11, <1>12, <1>13
    DEF SigSync!Next, SigSync!Parent, SigSync!Child

\* A parent past sigsuspend() finds the child's work done, and a parent asleep
\* there has a child that will wake it, unless it was killed (fork_sig_sync.c
\* lines 27-73).
THEOREM SigSyncAfterWork == FamilySpec => []AfterWork
  <1>1. FamilyInit => AfterWork
    <2> SUFFICES ASSUME SigSync!Init PROVE SigSync!IndInv /\ SigSync!AfterWork /\ SigSync!NotLost
      BY DEF FamilyInit, AfterWork
    <2>1. x3 \in BOOLEAN /\ x4 \in BOOLEAN /\ x5 \in BOOLEAN
      BY Zenon DEF SigSync!Init
    <2> QED
      BY <2>1 DEF SigSync!Init, SigSync!IndInv, SigSync!TypeOK, SigSync!MaskInv,
                  SigSync!SignalKept, SigSync!AfterWork, SigSync!NotLost
  <1>2. SigSync!IndInv => SigSync!AfterWork /\ SigSync!NotLost
    BY DEF SigSync!IndInv, SigSync!TypeOK, SigSync!MaskInv, SigSync!Told, SigSync!Ended,
           SigSync!SignalKept, SigSync!AfterWork, SigSync!NotLost
  <1>3. AfterWork /\ [FamilyNext]_all => AfterWork'
    <2> SUFFICES ASSUME AfterWork, [FamilyNext]_all, program' = "fork_sig_sync"
                 PROVE  SigSync!IndInv' /\ SigSync!AfterWork' /\ SigSync!NotLost'
      BY DEF AfterWork
    <2>1. SigSync!IndInv'
      BY FamilyStep, SigSyncStep DEF AfterWork
    <2>2. SigSync!IndInv' => SigSync!AfterWork' /\ SigSync!NotLost'
      BY <1>2, PTL
    <2> QED
      BY <2>1, <2>2
  <1> QED
    BY <1>1, <1>3, PTL DEF FamilySpec

-----------------------------------------------------------------------------
(* multi_wait, anony_mmap, fork_file_sharing, thread_cancel                *)

\* The instance counts as FiniteSets does.
LEMMA MultiCardinality == \A S : Multi!Cardinality(S) = Cardinality(S)
  BY DEF Multi!Cardinality, Cardinality

\* The children of multi_wait are a finite set, and so are those reaped.
LEMMA ChildrenFinite ==
  ASSUME NEW S \in SUBSET Multi!Children
  PROVE  IsFiniteSet(S) /\ Cardinality(S) \in Nat
  <1>1. IsFiniteSet(1..N)
    BY PipeSyncAssumption, FS_Interval
  <1>2. IsFiniteSet(Multi!Children)
    BY <1>1, FamilyAssumption, FS_Union DEF Multi!Children, Multi!Kids
  <1> QED
    BY <1>2, FS_Subset, FS_CardinalityType

\* numDead keeps up with the children that wait() reaped.
LEMMA MultiStep == Multi!IndInv /\ [Multi!Next]_(Multi!vars) => Multi!IndInv'
  <1> SUFFICES ASSUME Multi!IndInv, [Multi!Next]_(Multi!vars)
               PROVE  Multi!IndInv'
    OBVIOUS
  <1> DEFINE Reaped == {k \in Multi!Children : x3[k] = "reaped"}
  <1> USE DEF Multi!IndInv, Multi!TypeOK, Multi!CountInv, Multi!AllReaped,
              Multi!Zombies, Multi!Running
  <1>0. /\ N \in Nat /\ Multi!Kids = 1..N /\ Inherited \cap Multi!Kids = {}
        /\ Multi!Children = Multi!Kids \cup Inherited
    BY PipeSyncAssumption, FamilyAssumption DEF Multi!Kids, Multi!Children
  <1>1. CASE Multi!Fork
    <2>1. x2 \in Multi!Kids /\ x3[x2] = "none" /\ x3' = [x3 EXCEPT ![x2] = "runs"]
      BY <1>0, <1>1 DEF Multi!Fork
    <2>2. Reaped' = Reaped
      BY <2>1
    <2>3. Multi!TypeOK'
      BY <1>0, <1>1, <2>1 DEF Multi!Fork
    <2>4. \A k \in Multi!Children : (x3'[k] = "none") <=> (k \in Multi!Kids /\ k >= x2')
      BY <1>0, <1>1, <2>1 DEF Multi!Fork
    <2>5. x4 => Multi!Zombies' = {}
      BY <2>1
    <2>6. Multi!CountInv'
      BY <1>1, <2>2, <2>3, <2>4, <2>5 DEF Multi!Fork
    <2> QED
      BY <1>1, <2>3, <2>6 DEF Multi!Fork
  <1>2. CASE Multi!ForkFails
    BY <1>2 DEF Multi!ForkFails
  <1>3. CASE Multi!ForkedAll
    BY <1>0, <1>3 DEF Multi!ForkedAll
  <1>4. CASE Multi!Reap
    <2>1. PICK k \in Multi!Children : x3[k] = "zombie" /\ x3' = [x3 EXCEPT ![k] = "reaped"]
      BY <1>4 DEF Multi!Reap
    <2>2. Reaped' = Reaped \cup {k} /\ k \notin Reaped /\ ~x4
      BY <2>1
    <2>3. IsFiniteSet(Reaped)
      BY ChildrenFinite
    <2>4. Cardinality(Reaped') = Cardinality(Reaped) + 1
      BY <2>2, <2>3, FS_AddElement
    <2>5. Multi!TypeOK'
      BY <1>4, <2>1 DEF Multi!Reap
    <2>6. \A i \in Multi!Children : (x3'[i] = "none") <=> (x3[i] = "none")
      BY <2>1
    <2>7. x5' = Cardinality(Reaped')
      BY <1>4, <2>2, <2>4, MultiCardinality DEF Multi!Reap
    <2>8. Multi!CountInv'
      BY <1>4, <2>2, <2>6, <2>7, MultiCardinality DEF Multi!Reap
    <2> QED
      BY <1>4, <2>5, <2>8 DEF Multi!Reap
  <1>5. CASE Multi!NoMoreChildren
    <2>1. \A k \in Multi!Children : x3[k] = "reaped"
      BY <1>0, <1>5 DEF Multi!NoMoreChildren
    <2>2. Reaped = Multi!Children
      BY <2>1
    <2> QED
      BY <1>5, <2>1, <2>2 DEF Multi!NoMoreChildren
  <1>6. ASSUME NEW k \in Multi!Children, Multi!KidEnds(k) PROVE Multi!IndInv'
    <2>1. x3[k] = "runs" /\ UNCHANGED <<x1, x2, x4, x5>>
      BY <1>6 DEF Multi!KidEnds
    <2>2. Multi!TypeOK'
      BY <1>6, <2>1 DEF Multi!KidEnds
    <2>3. \A i \in Multi!Children : (x3'[i] = "none") <=> (x3[i] = "none")
      BY <1>6 DEF Multi!KidEnds
    <2>4. ~x4 /\ x1 \in {"fork", "wait"} => Reaped' = Reaped
      BY <1>6 DEF Multi!KidEnds
    <2>5. x4 => Multi!Zombies' = {}
      BY <1>6 DEF Multi!KidEnds
    <2>6. Multi!CountInv'
      BY <2>1, <2>2, <2>3, <2>4, <2>5
    <2>7. x1 # "exited"
      BY <2>1
    <2> QED
      BY <2>1, <2>2, <2>6, <2>7
  <1>7. CASE UNCHANGED Multi!vars
    BY <1>7 DEF Multi!vars
  <1> QED
    BY <1>1, <1>2, <1>3, <1>4, <1>5, <1>6, <1>7 DEF Multi!Next, Multi!Parent

\* How far the child is decides what is shared.
LEMMA ShareStep == Share!IndInv /\ [Share!Next]_(Share!vars) => Share!IndInv'
  <1> SUFFICES ASSUME Share!IndInv, [Share!Next]_(Share!vars)
               PROVE  Share!IndInv'
    OBVIOUS
  <1> USE DEF Share!IndInv, Share!TypeOK, Share!ChangeInv, Share!PrintsFinal,
              Share!Before, Share!After, Share!Ended
  <1>1. CASE Share!Setup
    BY <1>1 DEF Share!Setup
  <1>2. CASE Share!SetupFails
    BY <1>2 DEF Share!SetupFails
  <1>3. CASE Share!Fork
    BY <1>3 DEF Share!Fork
  <1>4. CASE Share!ForkFails
    BY <1>4 DEF Share!ForkFails
  <1>5. CASE Share!ChangeFirst
    <2>1. CASE x1 = "anony_mmap"
      <3>1. [<<1>> EXCEPT ![1] = 2] = <<2>>
        OBVIOUS
      <3> QED
        BY <1>5, <2>1, <3>1 DEF Share!ChangeFirst
    <2>2. CASE x1 = "fork_file_sharing"
      <3>1. [<<0, 0>> EXCEPT ![1] = 1000] = <<1000, 0>>
        OBVIOUS
      <3> QED
        BY <1>5, <2>2, <3>1 DEF Share!ChangeFirst
    <2> QED
      BY <2>1, <2>2
  <1>6. CASE Share!ChangeSecond
    BY <1>6 DEF Share!ChangeSecond
  <1>7. CASE Share!ChangeFails
    BY <1>7 DEF Share!ChangeFails
  <1>8. CASE Share!ChildExit
    BY <1>8 DEF Share!ChildExit
  <1>9. CASE Share!Wait
    BY <1>9 DEF Share!Wait
  <1>10. CASE Share!PrintShared
    BY <1>10 DEF Share!PrintShared
  <1>11. CASE Share!PrintFails
    BY <1>11 DEF Share!PrintFails
  <1>12. CASE Share!KillParent
    BY <1>12 DEF Share!KillParent
  <1>13. CASE Share!KillChild
    BY <1>13 DEF Share!KillChild
  <1>14. CASE UNCHANGED Share!vars
    BY <1>14 DEF Share!vars
  <1> QED
    BY <1>1, <1>2, <1>3, <1>4, <1>5, <1>6, <1>7, <1>8, <1>9, <1>10, <1>11, <1>12,
       <1>13, <1>14
    DEF Share!Next, Share!Parent, Share!Child

\* main() is joined with a thread that has ended.
LEMMA CancelStep ==
  Cancel!TypeOK /\ Cancel!Joined /\ [Cancel!Next]_(Cancel!vars)
     => Cancel!TypeOK' /\ Cancel!Joined'
  <1> SUFFICES ASSUME Cancel!TypeOK, Cancel!Joined, [Cancel!Next]_(Cancel!vars)
               PROVE  Cancel!TypeOK' /\ Cancel!Joined'
    OBVIOUS
  <1> USE DEF Cancel!TypeOK, Cancel!Joined
  <1>1. CASE Cancel!Cancel
    <2>1. x3' \in BOOLEAN
      BY Zenon, <1>1 DEF Cancel!Cancel
    <2> QED
      BY <1>1, <2>1 DEF Cancel!Cancel
  <1>2. CASE Cancel!Create \/ Cancel!CreateFails \/ Cancel!Join \/ Cancel!Thread
    BY <1>2 DEF Cancel!Create, Cancel!CreateFails, Cancel!Join, Cancel!Thread,
                Cancel!Call, Cancel!Return
  <1>3. CASE UNCHANGED Cancel!vars
    BY <1>3 DEF Cancel!vars
  <1> QED
    BY <1>1, <1>2, <1>3 DEF Cancel!Next, Cancel!Main

\* A parent that waited sees the end of what it waited for (multi_wait.c lines
\* 43-56, anony_mmap.c 41-56, fork_file_sharing.c 39-70, thread_cancel.c 40-51).
THEOREM WaitersCollect == FamilySpec => []Collected
  <1>1. FamilyInit => Collected
    <2> SUFFICES ASSUME FamilyInit PROVE Collected
      OBVIOUS
    <2>1. ASSUME program = "multi_wait" PROVE Multi!IndInv /\ Multi!AllReaped
      <3>1. Multi!Init
        BY <2>1 DEF FamilyInit
      <3>2. {k \in Multi!Children : x3[k] = "reaped"} = {}
        BY <3>1 DEF Multi!Init
      <3>3. Multi!Zombies = {}
        BY <3>1 DEF Multi!Init, Multi!Zombies
      <3>4. \A k \in Multi!Children : (x3[k] = "none") <=> (k \in Multi!Kids /\ k >= 1)
        BY <3>1, FamilyAssumption DEF Multi!Init, Multi!Children, Multi!Kids
      <3>5. 1 \in 1..N + 1
        BY PipeSyncAssumption
      <3>6. Multi!TypeOK
        BY <3>1, <3>5 DEF Multi!Init, Multi!TypeOK
      <3>7. Multi!CountInv
        BY <3>1, <3>2, <3>3, <3>4, FS_EmptySet, MultiCardinality DEF Multi!Init, Multi!CountInv
      <3> QED
        BY <3>1, <3>6, <3>7 DEF Multi!Init, Multi!IndInv, Multi!AllReaped
    <2>2. ASSUME program = "fork_share" PROVE Share!IndInv /\ Share!PrintsFinal
      BY <2>2 DEF FamilyInit, Share!Init, Share!IndInv, Share!TypeOK, Share!ChangeInv,
                  Share!PrintsFinal, Share!Ended
    <2>3. ASSUME program = "thread_cancel" PROVE Cancel!TypeOK /\ Cancel!Joined
      <3>1. Cancel!Init
        BY <2>3 DEF FamilyInit
      <3>2. x3 \in BOOLEAN
        BY Zenon, <3>1 DEF Cancel!Init
      <3> QED
        BY <3>1, <3>2 DEF Cancel!Init, Cancel!TypeOK, Cancel!Joined
    <2> QED
      BY <2>1, <2>2, <2>3 DEF Collected
  <1>2. Collected /\ [FamilyNext]_all => Collected'
    <2> SUFFICES ASSUME Collected, [FamilyNext]_all PROVE Collected'
      OBVIOUS
    <2>1. program' = "multi_wait" => Multi!IndInv' /\ Multi!AllReaped'
      BY FamilyStep, MultiStep DEF Collected, Multi!IndInv
    <2>2. program' = "fork_share" => Share!IndInv' /\ Share!PrintsFinal'
      BY FamilyStep, ShareStep DEF Collected, Share!IndInv
    <2>3. program' = "thread_cancel" => Cancel!TypeOK' /\ Cancel!Joined'
      BY FamilyStep, CancelStep DEF Collected
    <2> QED
      BY <2>1, <2>2, <2>3 DEF Collected
  <1> QED
    BY <1>1, <1>2, PTL DEF FamilySpec

-----------------------------------------------------------------------------
(* simple_pipe                                                             *)

\* Every step moves units on, and keeps who holds the ends of the pipe.
LEMMA SimpleStep == Simple!IndInv /\ [Simple!Next]_(Simple!vars) => Simple!IndInv'
  <1> SUFFICES ASSUME Simple!IndInv, [Simple!Next]_(Simple!vars)
               PROVE  Simple!IndInv'
    OBVIOUS
  <1> USE FamilyAssumption DEF Simple!IndInv, Simple!TypeOK, Simple!Flow,
              Simple!WriteEnds, Simple!ReadEnds, Simple!Procs, Simple!Move, Simple!Least
  <1>1. CASE Simple!Fork
    BY <1>1 DEF Simple!Fork
  <1>2. CASE Simple!CloseRd
    BY <1>2 DEF Simple!CloseRd
  <1>3. CASE Simple!Write
    BY <1>3 DEF Simple!Write
  <1>4. CASE Simple!Sigpipe
    BY <1>4 DEF Simple!Sigpipe
  <1>5. CASE Simple!CloseLast
    BY <1>5 DEF Simple!CloseLast
  <1>6. CASE Simple!Wait
    BY <1>6 DEF Simple!Wait
  <1>7. CASE Simple!ForkFails
    BY <1>7 DEF Simple!ForkFails
  <1>8. ASSUME NEW p \in Simple!Procs, Simple!CloseWr(p) PROVE Simple!IndInv'
    BY <1>8 DEF Simple!CloseWr
  <1>9. ASSUME NEW p \in Simple!Procs, Simple!Read(p) PROVE Simple!IndInv'
    BY <1>9 DEF Simple!Read
  <1>10. ASSUME NEW p \in Simple!Procs, Simple!Echo(p) PROVE Simple!IndInv'
    BY <1>10 DEF Simple!Echo
  <1>11. ASSUME NEW p \in Simple!Procs, Simple!ReadEof(p) PROVE Simple!IndInv'
    BY <1>11 DEF Simple!ReadEof
  <1>12. ASSUME NEW p \in Simple!Procs, Simple!Kill(p) PROVE Simple!IndInv'
    BY <1>12 DEF Simple!Kill
  <1>13. CASE UNCHANGED Simple!vars
    BY <1>13 DEF Simple!vars
  <1> QED
    BY <1>1, <1>2, <1>3, <1>4, <1>5, <1>6, <1>7, <1>8, <1>9, <1>10, <1>11, <1>12, <1>13
    DEF Simple!Next, Simple!Parent, Simple!Reader

\* Who waits for the other end of the pipe waits for a process that can go on:
\* a full pipe has a reader and something to read, an empty one with a writer
\* has room.
LEMMA SimpleNeverStuck == Simple!IndInv => Simple!NeverStuck
  <1> SUFFICES ASSUME Simple!IndInv, \A p \in Simple!Procs : Simple!Gone(p) \/ Simple!Blocked(p)
               PROVE  Simple!AllEnded
    BY DEF Simple!NeverStuck
  <1> USE FamilyAssumption DEF Simple!IndInv, Simple!TypeOK, Simple!WriteEnds, Simple!ReadEnds,
              Simple!Procs, Simple!Gone, Simple!Blocked
  <1>1. CASE x1["parent"] = "write"
    <2>1. "child" \in x2 /\ x5 = Capacity
      BY <1>1
    <2> QED
      BY <1>1, <2>1
  <1>2. CASE x1["parent"] # "write"
    <2>1. x1["child"] = "read" => x3 = {}
      BY <1>2
    <2>2. Simple!Gone("child")
      BY <2>1
    <2>3. x1["parent"] = "read" => x3 = {}
      BY <2>2
    <2> QED
      BY <1>2, <2>2, <2>3 DEF Simple!AllEnded
  <1> QED
    BY <1>1, <1>2

\* A child that ends normally has printed all that was written but what a
\* failed write() it reported left out (simple_pipe.c lines 48-57 and 70), and
\* parent and child never wait for each other, for every length, buffer and
\* capacity.
THEOREM SimpleAllEchoed == FamilySpec => []AllEchoed
  <1>1. FamilyInit => AllEchoed
    <2> SUFFICES ASSUME Simple!Init PROVE Simple!IndInv /\ Simple!AllEchoed
      BY SimpleNeverStuck DEF FamilyInit, AllEchoed
    <2> QED
      BY FamilyAssumption
      DEF Simple!Init, Simple!IndInv, Simple!TypeOK, Simple!Flow,
          Simple!WriteEnds, Simple!ReadEnds, Simple!AllEchoed, Simple!Procs
  <1>2. Simple!IndInv => Simple!AllEchoed /\ Simple!NeverStuck
    <2>1. Simple!IndInv => Simple!AllEchoed
      BY FamilyAssumption
      DEF Simple!IndInv, Simple!TypeOK, Simple!Flow, Simple!WriteEnds, Simple!AllEchoed,
          Simple!Procs
    <2> QED
      BY <2>1, SimpleNeverStuck
  <1>3. AllEchoed /\ [FamilyNext]_all => AllEchoed'
    <2> SUFFICES ASSUME AllEchoed, [FamilyNext]_all, program' = "simple_pipe"
                 PROVE  Simple!IndInv' /\ Simple!AllEchoed' /\ Simple!NeverStuck'
      BY DEF AllEchoed
    <2>1. Simple!IndInv'
      BY FamilyStep, SimpleStep DEF AllEchoed
    <2>2. Simple!IndInv' => Simple!AllEchoed' /\ Simple!NeverStuck'
      BY <1>2, PTL
    <2> QED
      BY <2>1, <2>2
  <1> QED
    BY <1>1, <1>3, PTL DEF FamilySpec

-----------------------------------------------------------------------------
(* pipe_ls_wc                                                              *)

\* pipe() finds two descriptors.
LEMMA LowestFree ==
  ASSUME NEW S \in SUBSET Filter!Fds, S # {}
  PROVE  Filter!Min(S) \in S
  <1>1. \A d \in S : d \in {0, 1, 2, 3, 4}
    BY DEF Filter!Fds
  <1>2. \E m \in S : \A d \in S : m <= d
    <2>1. CASE 0 \in S
      BY <1>1, <2>1
    <2>2. CASE 0 \notin S /\ 1 \in S
      BY <1>1, <2>2
    <2>3. CASE 0 \notin S /\ 1 \notin S /\ 2 \in S
      BY <1>1, <2>3
    <2>4. CASE 0 \notin S /\ 1 \notin S /\ 2 \notin S /\ 3 \in S
      BY <1>1, <2>4
    <2>5. CASE S = {4}
      BY <2>5
    <2> QED
      BY <1>1, <2>1, <2>2, <2>3, <2>4, <2>5
  <1> QED
    BY <1>2 DEF Filter!Min

\* The tables and the pipe, step by step.
LEMMA FilterStep == Filter!IndInv /\ [Filter!Next]_(Filter!vars) => Filter!IndInv'
  <1> SUFFICES ASSUME Filter!IndInv, [Filter!Next]_(Filter!vars)
               PROVE  Filter!IndInv'
    OBVIOUS
  <1> USE FamilyAssumption DEF Filter!IndInv, Filter!TypeOK, Filter!TableInv,
              Filter!OrderInv, Filter!CountsAll, Filter!WaitedForBoth, Filter!HasEnds,
              Filter!Procs, Filter!Kids, Filter!Move, Filter!Ended, Filter!Closed
  <1>1. CASE Filter!Pipe
    <2> DEFINE free == {d \in Filter!Fds : x2["parent"][d] = "none"}
               r == Filter!Min(free)
               w == Filter!Min(free \ {r})
    <2>0. /\ x1["parent"] = "pipe"
          /\ \A d \in Filter!Fds : /\ x2["parent"][d] \in {"none", "tty"}
                                   /\ d \in {3, 4} => x2["parent"][d] = "none"
      <3>1. x1["parent"] = "pipe"
        BY <1>1 DEF Filter!Pipe
      <3> QED
        BY <3>1
    <2>1. 3 \in free /\ 4 \in free
      <3>1. 3 \in Filter!Fds /\ 4 \in Filter!Fds
        BY DEF Filter!Fds
      <3> QED
        BY <2>0, <3>1
    <2>2. r \in free
      BY <2>1, LowestFree
    <2>3. free \ {r} # {} /\ free \ {r} \in SUBSET Filter!Fds
      <3>1. 3 # r \/ 4 # r
        OBVIOUS
      <3> QED
        BY <2>1, <3>1
    <2>4. w \in free \ {r}
      BY <2>3, LowestFree
    <2>5. /\ x3' = [r |-> r, w |-> w]
          /\ x2' = [x2 EXCEPT !["parent"][r] = "r", !["parent"][w] = "w"]
          /\ x1["parent"] = "pipe" /\ x1' = [x1 EXCEPT !["parent"] = "fork1"]
          /\ UNCHANGED <<x4, x5, x6>>
      BY <1>1 DEF Filter!Pipe
    <2> HIDE DEF r, w
    <2>6. r \in Filter!Fds /\ w \in Filter!Fds /\ r # w
      BY <2>2, <2>4
    <2>7. /\ x2' \in [Filter!Procs -> [Filter!Fds -> {"none", "tty", "r", "w"}]]
          /\ x2'["parent"] = [x2["parent"] EXCEPT ![r] = "r", ![w] = "w"]
          /\ x2'["ls"] = x2["ls"] /\ x2'["wc"] = x2["wc"]
      BY <2>5, <2>6
    <2>8. \A d \in Filter!Fds : /\ x2'["parent"][d] = "r" <=> d = r
                                /\ x2'["parent"][d] = "w" <=> d = w
      BY <2>0, <2>6, <2>7
    <2> QED
      BY <2>5, <2>6, <2>7, <2>8
  <1>2. CASE Filter!Fork1
    BY <1>2 DEF Filter!Fork1, Filter!Fork
  <1>3. CASE Filter!Fork2
    BY <1>3 DEF Filter!Fork2, Filter!Fork
  <1>4. CASE Filter!CloseRd
    BY <1>4 DEF Filter!CloseRd, Filter!CloseEnd, Filter!Close
  <1>5. CASE Filter!CloseWr
    BY <1>5 DEF Filter!CloseWr, Filter!CloseEnd, Filter!Close
  <1>6. CASE Filter!WaitBoth
    BY <1>6 DEF Filter!WaitBoth, Filter!Exit
  <1>7. ASSUME NEW k \in Filter!Kids, Filter!CloseOther(k) PROVE Filter!IndInv'
    BY <1>7 DEF Filter!CloseOther, Filter!Close, Filter!Other
  <1>8. ASSUME NEW k \in Filter!Kids, Filter!Dup(k) PROVE Filter!IndInv'
    BY <1>8 DEF Filter!Dup, Filter!Mine, Filter!Target, Filter!Fds
  <1>9. ASSUME NEW k \in Filter!Kids, Filter!Exec(k) PROVE Filter!IndInv'
    BY <1>9 DEF Filter!Exec
  <1>10. CASE Filter!LsWrite
    BY <1>10 DEF Filter!LsWrite, Filter!Exit
  <1>11. CASE Filter!LsEnd
    BY <1>11 DEF Filter!LsEnd, Filter!Exit
  <1>12. CASE Filter!WcRead
    BY <1>12 DEF Filter!WcRead
  <1>13. CASE Filter!WcEnd
    BY <1>13 DEF Filter!WcEnd, Filter!Exit, Filter!Holders, Filter!Fds
  <1>14. ASSUME NEW p \in Filter!Procs, Filter!Fails(p) PROVE Filter!IndInv'
    BY <1>14 DEF Filter!Fails, Filter!Exit
  <1>15. CASE UNCHANGED Filter!vars
    BY <1>15 DEF Filter!vars
  <1> QED
    BY <1>1, <1>2, <1>3, <1>4, <1>5, <1>6, <1>7, <1>8, <1>9, <1>10, <1>11, <1>12, <1>13,
       <1>14, <1>15
    DEF Filter!Next, Filter!Parent, Filter!Ls, Filter!Wc, Filter!Kid

\* When the parent has closed its ends or is gone, ls alone holds the write end
\* and wc alone the read end once both run; so ls is blocked only by a wc that
\* has something to read, and wc only by an ls that has room.
LEMMA FilterNeverStuck == Filter!IndInv => Filter!NeverStuck
  <1> SUFFICES ASSUME Filter!IndInv, \A p \in Filter!Procs : Filter!Gone(p) \/ Filter!Blocked(p)
               PROVE  Filter!AllEnded
    BY DEF Filter!NeverStuck
  <1> USE FamilyAssumption DEF Filter!IndInv, Filter!TypeOK, Filter!OrderInv, Filter!Procs,
              Filter!Kids, Filter!Gone, Filter!Blocked, Filter!Ended
  <1>1. Filter!HasEnds("parent", {}, {})
    BY DEF Filter!TableInv
  <1>2. ASSUME NEW k \in Filter!Kids, Filter!Gone(k) PROVE Filter!HasEnds(k, {}, {})
    BY <1>2 DEF Filter!TableInv
  <1>3. x1["ls"] = "run" => Filter!HasEnds("ls", {}, {1})
    BY DEF Filter!TableInv
  <1>4. x1["wc"] = "run" => Filter!HasEnds("wc", {0}, {})
    BY DEF Filter!TableInv
  <1>5. Filter!Gone("ls")
    <2> SUFFICES ASSUME ~Filter!Gone("ls") PROVE FALSE
      OBVIOUS
    <2>1. x1["ls"] = "run" /\ Filter!Holders("r") # {} /\ x4 = Capacity
      OBVIOUS
    <2>2. PICK p \in Filter!Procs, d \in Filter!Fds : x2[p][d] = "r"
      BY <2>1 DEF Filter!Holders
    <2>3. p = "wc" /\ ~Filter!Gone("wc")
      BY <1>1, <1>2, <1>3, <2>1, <2>2 DEF Filter!HasEnds
    <2> QED
      BY <2>1, <2>3
  <1>6. Filter!Gone("wc")
    <2> SUFFICES ASSUME ~Filter!Gone("wc") PROVE FALSE
      OBVIOUS
    <2>1. x1["wc"] = "run" /\ Filter!Holders("w") # {}
      OBVIOUS
    <2>2. PICK p \in Filter!Procs, d \in Filter!Fds : x2[p][d] = "w"
      BY <2>1 DEF Filter!Holders
    <2>3. Filter!HasEnds("ls", {}, {})
      BY <1>2, <1>5
    <2> QED
      BY <1>1, <1>4, <2>1, <2>2, <2>3 DEF Filter!HasEnds
  <1>7. Filter!Gone("parent")
    BY <1>5, <1>6
  <1> QED
    BY <1>5, <1>6, <1>7 DEF Filter!AllEnded

\* wc counts every line that ls wrote, with whatever standard descriptors the
\* program is started (pipe_ls_wc.c lines 31-113), and the three processes
\* never wait for each other.
THEOREM FilterCountsAll == FamilySpec => []CountsAll
  <1>1. FamilyInit => CountsAll
    <2> SUFFICES ASSUME Filter!Init
                 PROVE  Filter!IndInv /\ Filter!Plumbed /\ Filter!CountsAll
                          /\ Filter!WaitedForBoth
      BY FilterNeverStuck DEF FamilyInit, CountsAll
    <2>1. Filter!TypeOK
      BY FamilyAssumption
      DEF Filter!Init, Filter!TypeOK, Filter!Procs, Filter!Kids, Filter!Fds, Filter!Closed
    <2> QED
      BY <2>1
      DEF Filter!Init, Filter!IndInv, Filter!Plumbed, Filter!CountsAll, Filter!TableInv,
          Filter!OrderInv, Filter!WaitedForBoth, Filter!HasEnds, Filter!Procs, Filter!Kids,
          Filter!Ended, Filter!Closed, Filter!Std, Filter!Fds
  <1>2. Filter!IndInv => Filter!Plumbed
    <2> SUFFICES ASSUME Filter!IndInv, NEW k \in Filter!Kids, x1[k] = "run"
                 PROVE  /\ {d \in Filter!Fds : x2[k][d] \in {"r", "w"}} = {Filter!Target(k)}
                        /\ x2[k][Filter!Target(k)] = (IF k = "ls" THEN "w" ELSE "r")
      BY DEF Filter!Plumbed
    <2>1. Filter!Target(k) \in Filter!Fds
      BY DEF Filter!Target, Filter!Fds
    <2>2. IF k = "ls" THEN Filter!HasEnds(k, {}, {1}) ELSE Filter!HasEnds(k, {0}, {})
      BY DEF Filter!IndInv, Filter!TableInv
    <2> QED
      BY <2>1, <2>2 DEF Filter!HasEnds, Filter!Target, Filter!Kids
  <1>3. CountsAll /\ [FamilyNext]_all => CountsAll'
    <2> SUFFICES ASSUME CountsAll, [FamilyNext]_all, program' = "pipe_ls_wc"
                 PROVE  Filter!IndInv' /\ Filter!Plumbed'
      <3>1. Filter!IndInv' => Filter!NeverStuck'
        BY FilterNeverStuck, PTL
      <3> QED
        BY <3>1 DEF CountsAll, Filter!IndInv
    <2>1. Filter!IndInv'
      BY FamilyStep, FilterStep DEF CountsAll
    <2>2. Filter!IndInv' => Filter!Plumbed'
      BY <1>2, PTL
    <2> QED
      BY <2>1, <2>2
  <1> QED
    BY <1>1, <1>3, PTL DEF FamilySpec
-----------------------------------------------------------------------------
(* become_daemon                                                           *)

\* When p ends, the others go on or, if p leads their session, are hung up.
LEMMA DaemonLeaves ==
  ASSUME Become!TypeOK, NEW p \in Become!Procs, Become!Leaves(p, "exited")
  PROVE  /\ x1' \in [Become!Procs -> {"fork", "exit", "setsid", "fork2", "env", "close",
                                      "reopen", "daemon", "notDaemon"} \cup Become!Ended]
         /\ x1'[p] = "exited"
         /\ \A q \in Become!Procs \ {p} :
              \/ x1'[q] = x1[q]
              \/ /\ x1'[q] = "hungup" /\ x1[q] \notin Become!Ended
                 /\ p \in x4 /\ x5[p] \in x6 /\ x5[q] = x5[p]
         /\ x6' = IF p \in x4 THEN x6 \ {x5[p]} ELSE x6
         /\ UNCHANGED <<x2, x3, x4, x5, x7, x8, x9>> => Become!TypeOK'
  <1>1. PICK foreground \in BOOLEAN : x1' = [q \in Become!Procs |->
          IF q = p THEN "exited"
          ELSE IF /\ foreground /\ p \in x4 /\ x5[p] \in x6
                  /\ x1[q] \notin Become!Ended /\ x5[q] = x5[p]
          THEN "hungup" ELSE x1[q]]
    BY Zenon DEF Become!Leaves
  <1>2. x6' = IF p \in x4 THEN x6 \ {x5[p]} ELSE x6
    BY Zenon DEF Become!Leaves
  <1>3. x1' \in [Become!Procs -> {"fork", "exit", "setsid", "fork2", "env", "close",
                                  "reopen", "daemon", "notDaemon"} \cup Become!Ended]
    BY <1>1 DEF Become!TypeOK, Become!Procs, Become!Ended
  <1>4. UNCHANGED <<x2, x3, x4, x5, x7, x8, x9>> => Become!TypeOK'
    BY <1>2, <1>3 DEF Become!TypeOK
  <1> QED
    BY <1>1, <1>2, <1>3, <1>4 DEF Become!TypeOK, Become!Procs, Become!Ended

\* Generations, sessions and descriptors, step by step.
LEMMA DaemonStep == Become!IndInv /\ [Become!Next]_(Become!vars) => Become!IndInv'
  <1> SUFFICES ASSUME Become!IndInv, [Become!Next]_(Become!vars)
               PROVE  Become!IndInv'
    OBVIOUS
  <1> USE DEF Become!IndInv, Become!TypeOK, Become!StageInv, Become!SessionInv, Become!FdInv,
              Become!Procs, Become!Ended, Become!Move, Become!procVars
  <1>1. ASSUME NEW p \in Become!Procs, Become!Fork(p) PROVE Become!IndInv'
    BY <1>1 DEF Become!Fork, Become!NextGen
  <1>2. ASSUME NEW p \in Become!Procs, Become!ParentExits(p) PROVE Become!IndInv'
    <2>1. Become!Leaves(p, "exited") /\ UNCHANGED <<x2, x3, x4, x5, x7, x8, x9>>
      BY <1>2 DEF Become!ParentExits
    <2>2. p = "caller" \/ p = "child"
      BY <1>2 DEF Become!ParentExits
    <2>3. Become!TypeOK'
      BY ONLY Become!TypeOK, p \in Become!Procs, <2>1, DaemonLeaves
    <2>4. Become!StageInv' /\ Become!SessionInv'
      BY <1>2, <2>1, <2>2, DaemonLeaves DEF Become!ParentExits
    <2>5. Become!FdInv'
      BY <2>1, <2>2, DaemonLeaves
    <2> QED
      BY <2>3, <2>4, <2>5
  <1>3. ASSUME NEW p \in Become!Procs, Become!Setsid(p) PROVE Become!IndInv'
    BY <1>3 DEF Become!Setsid
  <1>4. ASSUME NEW p \in Become!Procs, Become!CallFails(p) PROVE Become!IndInv'
    BY <1>4 DEF Become!CallFails, Become!Returns
  <1>5. ASSUME NEW p \in Become!Procs, Become!SetEnv(p) PROVE Become!IndInv'
    BY <1>5 DEF Become!SetEnv
  <1>6. ASSUME NEW p \in Become!Procs, Become!CloseFiles(p) PROVE Become!IndInv'
    <2>1. p = "grandchild" /\ x1' = [x1 EXCEPT ![p] = "reopen"]
      BY <1>6 DEF Become!CloseFiles
    <2>2. x9' \in Int
      BY <1>6, FamilyAssumption DEF Become!CloseFiles
    <2>3. x7' = [x7 EXCEPT !["grandchild"] =
                   [d \in Become!Descs |-> IF d < x9' THEN "closed" ELSE @[d]]]
      BY <1>6, <2>1 DEF Become!CloseFiles
    <2>4. /\ x7' \in [Become!Procs -> [Become!Descs -> {"closed", "file", "null"}]]
          /\ \A d \in Become!Descs : x7'["grandchild"][d] = "file" => ~(d < x9')
      BY <2>3
    <2>5. \A d \in Become!Descs : x7'["grandchild"][d] = "file" => d >= x9'
      BY <2>2, <2>4 DEF Become!Descs
    <2>6. UNCHANGED <<x2, x3, x4, x5, x6, x8>>
      BY <1>6 DEF Become!CloseFiles
    <2>7. Become!TypeOK'
      BY <2>1, <2>2, <2>4, <2>6
    <2>8. Become!StageInv' /\ Become!SessionInv'
      BY <1>6, <2>1, <2>6 DEF Become!CloseFiles
    <2>9. Become!FdInv'
      BY <2>1, <2>5
    <2> QED
      BY <2>7, <2>8, <2>9
  <1>7. ASSUME NEW p \in Become!Procs, Become!Reopen(p) PROVE Become!IndInv'
    <2>1. p = "grandchild" /\ x1' = [x1 EXCEPT ![p] = "daemon"]
      BY <1>7 DEF Become!Reopen, Become!Returns
    <2>2. x7' = IF "BD_NO_REOPEN_STD_FDS" \in x3 THEN x7
                ELSE [x7 EXCEPT !["grandchild"] =
                        [d \in Become!Descs |-> IF d <= 2 THEN "null" ELSE @[d]]]
      BY <1>7, <2>1 DEF Become!Reopen
    <2>3. /\ x7' \in [Become!Procs -> [Become!Descs -> {"closed", "file", "null"}]]
          /\ \A d \in Become!Descs : x7'["grandchild"][d] = "file" => x7["grandchild"][d] = "file"
          /\ "BD_NO_REOPEN_STD_FDS" \notin x3 =>
               \A d \in Become!Descs : d <= 2 => x7'["grandchild"][d] = "null"
      BY <2>2
    <2>4. "BD_NO_REOPEN_STD_FDS" \notin x3 => \A d \in 0..2 : x7'["grandchild"][d] = "null"
      BY <2>3 DEF Become!Descs
    <2>5. UNCHANGED <<x2, x3, x4, x5, x6, x8, x9>>
      BY <1>7 DEF Become!Reopen
    <2>6. Become!TypeOK'
      BY <2>1, <2>3, <2>5
    <2>7. Become!StageInv' /\ Become!SessionInv'
      BY <1>7, <2>1, <2>5 DEF Become!Reopen
    <2>8. Become!FdInv'
      BY <1>7, <2>1, <2>3, <2>4, <2>5 DEF Become!Reopen
    <2> QED
      BY <2>6, <2>7, <2>8
  <1>8. ASSUME NEW p \in Become!Procs, Become!ReopenFails(p) PROVE Become!IndInv'
    BY <1>8 DEF Become!ReopenFails, Become!Returns
  <1>9. ASSUME NEW p \in Become!Procs, Become!OpensTty(p) PROVE Become!IndInv'
    BY <1>9 DEF Become!OpensTty
  <1>10. ASSUME NEW p \in Become!Procs, Become!Done(p) PROVE Become!IndInv'
    <2>1. Become!Leaves(p, "exited") /\ UNCHANGED <<x2, x3, x4, x5, x7, x8, x9>>
      BY <1>10 DEF Become!Done
    <2>2. x1[p] \in {"daemon", "notDaemon"}
      BY <1>10 DEF Become!Done
    <2>3. Become!TypeOK'
      BY ONLY Become!TypeOK, p \in Become!Procs, <2>1, DaemonLeaves
    <2>4. Become!StageInv' /\ Become!SessionInv'
      BY <2>1, <2>2, DaemonLeaves
    <2>5. Become!FdInv'
      BY <2>1, <2>2, DaemonLeaves
    <2> QED
      BY <2>3, <2>4, <2>5
  <1>11. CASE UNCHANGED Become!vars
    BY <1>11 DEF Become!vars
  <1> QED
    BY <1>1, <1>2, <1>3, <1>4, <1>5, <1>6, <1>7, <1>8, <1>9, <1>10, <1>11, SMTT(20)
    DEF Become!Next, Become!Step

\* A daemon has no terminal and cannot get one, and keeps no descriptor of its
\* caller below the limit (become_daemon.c lines 23-72).
THEOREM DaemonDetached == FamilySpec => []Detached
  <1>1. FamilyInit => Detached
    <2> SUFFICES ASSUME Become!Init PROVE Become!IndInv /\ Become!Detached
      BY DEF FamilyInit, Detached
    <2>1. Become!TypeOK
      BY FamilyAssumption DEF Become!Init, Become!TypeOK, Become!Procs, Become!Ended
    <2>2. /\ x1["caller"] = "fork" /\ x1["child"] = "none" /\ x1["grandchild"] = "none"
          /\ \A p \in Become!Procs : x1[p] \in {"fork", "none"}
      BY DEF Become!Init, Become!Procs
    <2>3. Become!SessionInv
      BY <2>2 DEF Become!Init, Become!SessionInv, Become!Procs
    <2> QED
      BY <2>1, <2>2, <2>3
      DEF Become!IndInv, Become!StageInv, Become!FdInv, Become!Detached, Become!NoTerminal,
          Become!CleanDescriptors, Become!Daemons, Become!Procs, Become!Ended
  <1>2. Become!IndInv => Become!Detached
    BY DEF Become!IndInv, Become!TypeOK, Become!StageInv, Become!SessionInv, Become!FdInv,
           Become!Detached, Become!NoTerminal, Become!CleanDescriptors, Become!Daemons,
           Become!Procs, Become!Ended
  <1>3. Detached /\ [FamilyNext]_all => Detached'
    <2> SUFFICES ASSUME Detached, [FamilyNext]_all, program' = "become_daemon"
                 PROVE  Become!IndInv' /\ Become!Detached'
      BY DEF Detached
    <2>1. Become!IndInv'
      BY FamilyStep, DaemonStep DEF Detached
    <2>2. Become!IndInv' => Become!Detached'
      BY <1>2, PTL
    <2> QED
      BY <2>1, <2>2
  <1> QED
    BY <1>1, <1>3, PTL DEF FamilySpec

-----------------------------------------------------------------------------
(* popen_glob.                                                             *)

\* A set of numbers has a least one.
LEMMA LeastNumber ==
  ASSUME NEW S \in SUBSET Nat, S # {}
  PROVE  \E m \in S : \A y \in S : m <= y
  <1> DEFINE R == {ss \in Nat \X Nat : ss[1] < ss[2]}
  <1>1. IsWellFoundedOn(R, Nat)
    BY NatLessThanWellFounded, Zenon DEF OpToRel
  <1>2. PICK m \in S : \A y \in S : ~(<<y, m>> \in R)
    BY <1>1, WFMin, Zenon
  <1>3. ASSUME NEW y \in S, ~(m <= y) PROVE FALSE
    <2>1. <<y, m>> \in Nat \X Nat /\ y < m
      BY <1>3
    <2> QED
      BY <1>2, <2>1
  <1> QED
    BY <1>3

\* fgets() takes something, what fits, and a newline only at the end; and it
\* stops before a newline only at the end of the buffer or of the input.
LEMMA PieceTaken ==
  ASSUME x2 \in Seq(Popen!Chars), x2 # <<>>
  PROVE  /\ Popen!Taken \in 1..Len(x2) /\ Popen!Taken <= PAT_SIZE - 1
         /\ \A k \in 1..Len(x2) : k < Popen!Taken => x2[k] # "nl"
         /\ Popen!Taken = PAT_SIZE - 1 \/ Popen!Taken = Len(x2) \/ x2[Popen!Taken] = "nl"
  <1> DEFINE room == {PAT_SIZE - 1, Len(x2)} \cup Popen!Newlines(x2)
  <1>1. Len(x2) \in Nat /\ Len(x2) # 0 /\ PAT_SIZE - 1 \in Nat /\ PAT_SIZE - 1 # 0
    BY FamilyAssumption
  <1>2. \A k \in Popen!Newlines(x2) : k \in Nat /\ k # 0 /\ x2[k] = "nl"
    BY <1>1 DEF Popen!Newlines
  <1>3. \A k \in room : k \in Nat /\ k # 0
    BY ONLY <1>1, <1>2
  <1>4. \E m \in room : \A y \in room : m <= y
    <2>1. room \in SUBSET Nat /\ room # {}
      BY <1>3
    <2> QED
      BY <2>1, LeastNumber
  <1>5. Popen!Taken \in room /\ \A y \in room : Popen!Taken <= y
    BY <1>4 DEF Popen!Taken
  <1> DEFINE n == Popen!Taken
  <1>6. n \in Nat /\ n # 0 /\ n <= Len(x2) /\ n <= PAT_SIZE - 1
    BY <1>3, <1>5
  <1>7. \A k \in 1..Len(x2) : k < n => x2[k] # "nl"
    <2> SUFFICES ASSUME NEW k \in 1..Len(x2), k < n, x2[k] = "nl" PROVE FALSE
      OBVIOUS
    <2>1. k \in room
      BY DEF Popen!Newlines
    <2> QED
      BY <1>1, <1>5, <1>6, <2>1
  <1>8. n = PAT_SIZE - 1 \/ n = Len(x2) \/ x2[n] = "nl"
    BY <1>2, <1>5
  <1> QED
    BY <1>1, <1>6, <1>7, <1>8

\* Every place in the input is before the end of some line.
LEMMA NextEnd ==
  ASSUME NEW h \in Seq(Popen!Chars), NEW p \in 0..Len(h)
  PROVE  \E e \in Popen!Newlines(h) \cup {Len(h) + 1} :
            p < e /\ \A k \in Popen!Newlines(h) : k <= p \/ k >= e
  <1> DEFINE S == {e \in Popen!Newlines(h) \cup {Len(h) + 1} : p < e}
  <1>1. Len(h) \in Nat /\ \A k \in Popen!Newlines(h) : k \in Nat
    BY DEF Popen!Newlines
  <1>2. S \in SUBSET Nat /\ Len(h) + 1 \in S
    BY <1>1
  <1>3. PICK e \in S : \A y \in S : e <= y
    BY <1>2, LeastNumber
  <1>4. \A k \in Popen!Newlines(h) : k <= p \/ k >= e
    BY <1>1, <1>2, <1>3
  <1> QED
    BY <1>3, <1>4

\* A piece of a line is the line, or the line does not fit in the buffer.
LEMMA PieceOfLine ==
  ASSUME x5 \in Seq(Popen!Chars),
         NEW b \in {0} \cup Popen!Newlines(x5), NEW e \in Popen!Newlines(x5) \cup {Len(x5) + 1},
         Popen!IsLine(b, e),
         NEW s \in Nat, NEW t \in Nat, b <= s, s < t, t <= e - 1,
         (s = b /\ t = e - 1) \/ e - 1 - b >= PAT_SIZE - 1
  PROVE  Popen!FromLine(SubSeq(x5, s + 1, t))
  <1> DEFINE line == SubSeq(x5, b + 1, e - 1)
  <1>1. line \in Popen!Lines
    <2> DEFINE be == <<b, e>>
               S == ({0} \cup Popen!Newlines(x5)) \X (Popen!Newlines(x5) \cup {Len(x5) + 1})
    <2>1. be \in S /\ be[1] = b /\ be[2] = e
      OBVIOUS
    <2> HIDE DEF be, S
    <2>2. be \in {d \in S : Popen!IsLine(d[1], d[2])}
      BY <2>1
    <2> QED
      BY <2>1, <2>2, Zenon DEF Popen!Lines, S
  <1>2. /\ Len(x5) \in Nat /\ b \in Nat /\ e \in Nat /\ e <= Len(x5) + 1
        /\ Len(line) = e - 1 - b
    BY DEF Popen!Newlines
  <1>3. CASE s = b /\ t = e - 1
    BY <1>1, <1>3 DEF Popen!FromLine
  <1>4. CASE e - 1 - b >= PAT_SIZE - 1
    <2> DEFINE w == SubSeq(line, s - b + 1, t - b)
               v == SubSeq(x5, s + 1, t)
    <2>1. s - b \in 0..Len(line) /\ t - b \in 0..Len(line)
      BY <1>2
    <2>2. w \in Popen!SubSeqs(line)
      <3> DEFINE i == s - b
                 k == t - b
      <3>1. i \in 0..Len(line) /\ k \in 0..Len(line) /\ w = SubSeq(line, i + 1, k)
        BY <2>1
      <3> HIDE DEF i, k, w, line
      <3> QED
        BY <3>1 DEF Popen!SubSeqs
    <2>3. w = v
      BY <1>2
    <2> HIDE DEF line
    <2>4. Len(line) >= PAT_SIZE - 1
      BY <1>2, <1>4
    <2> QED
      BY <1>1, <2>2, <2>3, <2>4 DEF Popen!FromLine
  <1> QED
    BY <1>3, <1>4

\* s is what is left of h after p.
IsRest(s, h, p) == /\ h \in Seq(Popen!Chars) /\ s \in Seq(Popen!Chars) /\ p \in Nat
                   /\ s # <<>> /\ s = SubSeq(h, p + 1, Len(h)) /\ p = Len(h) - Len(s)

LEMMA RestPlaces ==
  ASSUME NEW h, NEW p, NEW s, IsRest(s, h, p)
  PROVE  /\ Len(h) \in Nat /\ Len(s) \in Nat /\ Len(s) # 0 /\ Len(h) = p + Len(s)
         /\ \A k \in 1..Len(s) : s[k] = h[p + k]
  <1>1. /\ h \in Seq(Popen!Chars) /\ s \in Seq(Popen!Chars) /\ p \in Nat
        /\ s # <<>> /\ s = SubSeq(h, p + 1, Len(h)) /\ p = Len(h) - Len(s)
    BY DEF IsRest
  <1>a. h \in Seq(Popen!Chars) /\ s \in Seq(Popen!Chars) /\ p \in Nat
    BY <1>1
  <1>2. Len(h) \in Nat /\ Len(s) \in Nat /\ Len(s) # 0 /\ Len(h) = p + Len(s)
    <2>0. s # <<>>
      BY <1>1
    <2>1. Len(h) \in Nat /\ Len(s) \in Nat
      BY ONLY <1>a
    <2>2. Len(s) # 0
      BY ONLY <1>a, <2>1, <2>0
    <2>3. p = Len(h) - Len(s)
      BY <1>1
    <2> QED
      BY ONLY <1>a, <2>1, <2>2, <2>3
  <1>3. \A k \in 1..Len(s) : s[k] = h[p + k]
    <2> SUFFICES ASSUME NEW k \in 1..Len(s) PROVE SubSeq(h, p + 1, Len(h))[k] = h[p + k]
      BY <1>1
    <2>1. p + 1 \in Nat /\ Len(h) \in Nat /\ k \in 1..(Len(h) - (p + 1) + 1)
      BY <1>1, <1>2
    <2>2. SubSeq(h, p + 1, Len(h))[k] = h[(p + 1) + k - 1]
      BY ONLY <1>a, <2>1
    <2>3. (p + 1) + k - 1 = p + k
      BY <1>1
    <2> QED
      BY ONLY <2>2, <2>3
  <1> QED
    BY <1>2, <1>3

\* Reading n characters of it: what is left,
IsLeft(s, h, p, n) == /\ SubSeq(s, n + 1, Len(s)) = SubSeq(h, p + n + 1, Len(h))
                      /\ SubSeq(s, n + 1, Len(s)) \in Seq(Popen!Chars)
                      /\ Len(SubSeq(s, n + 1, Len(s))) = Len(s) - n

\* and what is taken, with its last character or without.
IsTaken(s, h, p, n) == /\ SubSeq(s, 1, n) = SubSeq(h, p + 1, p + n)
                       /\ SubSeq(s, 1, n) \in Seq(Popen!Chars)
                       /\ Len(SubSeq(s, 1, n)) = n
                       /\ SubSeq(s, 1, n)[n] = s[n]
                       /\ SubSeq(SubSeq(s, 1, n), 1, n - 1) = SubSeq(h, p + 1, p + n - 1)
                       /\ SubSeq(SubSeq(s, 1, n), 1, n - 1) \in Seq(Popen!Chars)
                       /\ Len(SubSeq(SubSeq(s, 1, n), 1, n - 1)) = n - 1

LEMMA RestAfter ==
  ASSUME NEW h, NEW p, NEW s, IsRest(s, h, p), NEW n \in 1..Len(s)
  PROVE  IsLeft(s, h, p, n)
  <1>1. h \in Seq(Popen!Chars) /\ s \in Seq(Popen!Chars) /\ p \in Nat
    BY DEF IsRest
  <1>2. Len(h) \in Nat /\ Len(s) \in Nat /\ Len(h) = p + Len(s) /\ n \in Nat /\ n <= Len(s)
    BY RestPlaces
  <1>3. \A k \in 1..Len(s) : s[k] = h[p + k]
    BY RestPlaces
  <1> QED
    BY ONLY <1>1, <1>2, <1>3 DEF IsLeft

LEMMA RestTaken ==
  ASSUME NEW h, NEW p, NEW s, IsRest(s, h, p), NEW n \in 1..Len(s)
  PROVE  IsTaken(s, h, p, n)
  <1>1. h \in Seq(Popen!Chars) /\ s \in Seq(Popen!Chars) /\ p \in Nat
    BY DEF IsRest
  <1>2. /\ Len(h) \in Nat /\ Len(s) \in Nat /\ Len(h) = p + Len(s) /\ n \in Nat /\ n # 0
        /\ n <= Len(s)
    BY RestPlaces
  <1>3. \A k \in 1..Len(s) : s[k] = h[p + k]
    BY RestPlaces
  <1> DEFINE r == SubSeq(s, 1, n)
             q == SubSeq(h, p + 1, p + n)
             t == SubSeq(r, 1, n - 1)
             v == SubSeq(h, p + 1, p + n - 1)
  <1>a. r \in Seq(Popen!Chars) /\ Len(r) = n /\ \A k \in 1..n : r[k] = s[k]
    BY ONLY <1>1, <1>2
  <1>b. q \in Seq(Popen!Chars) /\ Len(q) = n /\ \A k \in 1..n : q[k] = h[p + k]
    BY ONLY <1>1, <1>2
  <1>c. v \in Seq(Popen!Chars) /\ Len(v) = n - 1 /\ \A k \in 1..n - 1 : v[k] = h[p + k]
    BY ONLY <1>1, <1>2
  <1> HIDE DEF r
  <1>d. t \in Seq(Popen!Chars) /\ Len(t) = n - 1 /\ \A k \in 1..n - 1 : t[k] = r[k]
    BY ONLY <1>2, <1>a
  <1> HIDE DEF q, t, v
  <1>4. r = q
    BY ONLY <1>2, <1>3, <1>a, <1>b
  <1>5. t = v
    <2>1. ASSUME NEW k \in 1..n - 1 PROVE t[k] = v[k]
      <3>1. k \in 1..n /\ k \in 1..Len(s)
        BY <1>2
      <3> QED
        BY ONLY <1>3, <1>a, <1>c, <1>d, <3>1, k \in 1..n - 1
    <2> QED
      BY ONLY <1>2, <1>c, <1>d, <2>1
  <1>6. r[n] = s[n]
    BY ONLY <1>2, <1>a
  <1> QED
    BY <1>4, <1>5, <1>6, <1>a, <1>d DEF r, q, t, v, IsTaken

\* What is in the buffer came from a line, and reading goes on at the start of
\* a line or at least a buffer away from it: the characters p + 1 to p + n.
LEMMA FgetsPiece ==
  ASSUME x5 \in Seq(Popen!Chars), x2 \in Seq(Popen!Chars), x2 # <<>>,
         NEW p \in Nat, x2 = SubSeq(x5, p + 1, Len(x5)), p = Len(x5) - Len(x2),
         NEW b \in {0} \cup Popen!Newlines(x5), Popen!IsLine(b, p + 1),
         p = b \/ p >= b + PAT_SIZE - 1,
         NEW n, n = Popen!Taken
  PROVE  /\ \E c \in {0} \cup Popen!Newlines(x5) :
               /\ Popen!IsLine(c, p + n + 1)
               /\ p + n = c \/ p + n >= c + PAT_SIZE - 1 \/ n = Len(x2)
         /\ n > 1 /\ x2[n] = "nl" => Popen!FromLine(SubSeq(x5, p + 1, p + n - 1))
         /\ n > 1 /\ x2[n] # "nl" => Popen!FromLine(SubSeq(x5, p + 1, p + n))
  <1> DEFINE NL == Popen!Newlines(x5)
  <1>2. /\ n \in 1..Len(x2) /\ n <= PAT_SIZE - 1
        /\ \A k \in 1..Len(x2) : k < n => x2[k] # "nl"
        /\ n = PAT_SIZE - 1 \/ n = Len(x2) \/ x2[n] = "nl"
    BY PieceTaken
  <1>5. /\ Len(x5) \in Nat /\ Len(x2) \in Nat /\ Len(x5) = p + Len(x2) /\ n \in Nat /\ n # 0
        /\ \A k \in 1..Len(x2) : x2[k] = x5[p + k]
    <2>1. IsRest(x2, x5, p)
      BY DEF IsRest
    <2>2. n \in 1..Len(x2)
      BY <1>2
    <2>3. /\ Len(x5) \in Nat /\ Len(x2) \in Nat /\ Len(x5) = p + Len(x2)
          /\ \A k \in 1..Len(x2) : x2[k] = x5[p + k]
      BY ONLY <2>1, RestPlaces
    <2> QED
      BY ONLY <2>2, <2>3
  <1>6. PAT_SIZE - 1 \in Nat /\ PAT_SIZE - 1 # 0
    BY FamilyAssumption
  <1>7. \A k \in NL : k \in Nat /\ k \in 1..Len(x5) /\ x5[k] = "nl"
    BY ONLY <1>5 DEF Popen!Newlines
  <1>8. b \in Nat /\ b <= p /\ \A k \in NL : k <= b \/ k >= p + 1
    BY ONLY <1>7, b \in {0} \cup NL, Popen!IsLine(b, p + 1), p \in Nat DEF Popen!IsLine
  <1>9. p + n <= Len(x5) /\ p + n \in Nat /\ p + n \in 0..Len(x5)
    BY ONLY <1>2, <1>5, p \in Nat
  <1>11. \A k \in NL : k <= b \/ k >= p + n
    <2> SUFFICES ASSUME NEW k \in NL, ~(k <= b), ~(k >= p + n) PROVE FALSE
      OBVIOUS
    <2>0. k >= p + 1 /\ k < p + n
      BY ONLY <1>7, <1>8, <1>9, k \in NL, ~(k <= b), ~(k >= p + n)
    <2>1. k - p \in 1..Len(x2) /\ k - p < n /\ p + (k - p) = k
      BY ONLY <1>5, <1>7, <2>0, k \in NL, p \in Nat
    <2>2. x2[k - p] = x5[k]
      BY ONLY <1>5, <2>1
    <2> QED
      BY ONLY <1>2, <1>7, <2>1, <2>2, k \in NL
  <1>12. CASE x2[n] = "nl"
    <2>1. p + n \in NL
      <3>1. p + n \in 1..Len(x5) /\ x5[p + n] = "nl"
        BY ONLY <1>2, <1>5, <1>9, <1>12, p \in Nat
      <3> QED
        BY ONLY <3>1 DEF Popen!Newlines
    <2>2. Popen!IsLine(p + n, p + n + 1)
      BY ONLY <1>7, <1>9 DEF Popen!IsLine
    <2>3. ASSUME n > 1 PROVE Popen!FromLine(SubSeq(x5, p + 1, p + n - 1))
      <3>1. Popen!IsLine(b, p + n)
        BY ONLY <1>5, <1>8, <1>11, p \in Nat DEF Popen!IsLine
      <3>2. p + n - 1 \in Nat /\ p < p + n - 1 /\ p + n - 1 <= (p + n) - 1 /\ b <= p
        BY ONLY <1>5, <1>8, <2>3, p \in Nat
      <3>3. (p = b /\ p + n - 1 = (p + n) - 1) \/ (p + n) - 1 - b >= PAT_SIZE - 1
        BY ONLY <1>5, <1>6, <1>8, p \in Nat, p = b \/ p >= b + PAT_SIZE - 1, FamilyAssumption
      <3> QED
        BY <2>1, <3>1, <3>2, <3>3, PieceOfLine
    <2> QED
      BY <1>12, <2>1, <2>2, <2>3
  <1>13. CASE x2[n] # "nl"
    <2>1. \A k \in NL : k <= b \/ k >= p + n + 1
      <3>1. p + n \notin NL
        BY ONLY <1>2, <1>5, <1>7, <1>13
      <3> QED
        BY ONLY <1>7, <1>8, <1>9, <1>11, <3>1
    <2>2. Popen!IsLine(b, p + n + 1)
      BY ONLY <1>5, <1>8, <2>1, p \in Nat DEF Popen!IsLine
    <2>3. p + n >= b + PAT_SIZE - 1 \/ n = Len(x2)
      BY ONLY <1>2, <1>5, <1>8, <1>13, p \in Nat, FamilyAssumption
    <2>5. PICK e \in NL \cup {Len(x5) + 1} : p + n < e /\ \A k \in NL : k <= p + n \/ k >= e
      BY <1>9, NextEnd
    <2>6. e \in Nat /\ e <= Len(x5) + 1
      BY ONLY <1>5, <1>7, e \in NL \cup {Len(x5) + 1}
    <2>7. Popen!IsLine(b, e)
      BY ONLY <1>5, <1>7, <1>8, <1>9, <2>1, <2>5, <2>6, p \in Nat DEF Popen!IsLine
    <2>8. b <= p /\ p < p + n /\ p + n <= e - 1 /\ p + n \in Nat
      BY ONLY <1>5, <1>8, <2>5, <2>6, p \in Nat
    <2>9. (p = b /\ p + n = e - 1) \/ e - 1 - b >= PAT_SIZE - 1
      <3>1. CASE n = PAT_SIZE - 1
        BY ONLY <1>5, <1>6, <1>8, <2>6, <2>8, <3>1, p \in Nat
      <3>2. CASE n = Len(x2)
        BY ONLY <1>5, <1>6, <1>8, <2>6, <2>8, <3>2, p \in Nat,
                p = b \/ p >= b + PAT_SIZE - 1, FamilyAssumption
      <3> QED
        BY <1>2, <1>13, <3>1, <3>2
    <2>10. Popen!FromLine(SubSeq(x5, p + 1, p + n))
      BY <2>7, <2>8, <2>9, PieceOfLine
    <2> QED
      BY <1>13, <2>2, <2>3, <2>10
  <1> QED
    BY <1>12, <1>13

\* The lines are those of the history.
LEMMA KeptLines ==
  ASSUME x5' = x5
  PROVE  Popen!Lines' = Popen!Lines
  BY DEF Popen!Lines, Popen!IsLine

\* A step that reads nothing keeps what is known of the reading.
LEMMA PopenKeeps ==
  ASSUME Popen!PieceInv, UNCHANGED <<x2, x5>>,
         x1' \in {"check", "popen"} => x3' # <<>> /\ Len(x3') <= x4' /\ Popen!FromLine(x3'),
         x1' = "popen" => \A k \in 1..Len(x3') : x3'[k] \in Valid
  PROVE  Popen!PieceInv'
  <1>1. Popen!Lines' = Popen!Lines
    BY KeptLines
  <1>2. PICK b \in {0} \cup Popen!Newlines(x5) :
          /\ Popen!IsLine(b, Popen!Pos + 1)
          /\ Popen!Pos = b \/ Popen!Pos >= b + PAT_SIZE - 1 \/ x2 = <<>>
    BY DEF Popen!PieceInv
  <1>3. Popen!Pos' = Popen!Pos
    BY DEF Popen!Pos
  <1>4. Popen!IsLine(b, Popen!Pos + 1)'
    BY <1>2, <1>3 DEF Popen!IsLine
  <1>5. x1' \in {"check", "popen"} => Popen!FromLine(x3)'
    BY <1>1 DEF Popen!FromLine
  <1> QED
    BY <1>2, <1>3, <1>4, <1>5 DEF Popen!PieceInv

\* The patterns that ran before still came from lines.
LEMMA RanKept ==
  ASSUME Popen!RunsWhatWasTyped, UNCHANGED <<x5, x6>>
  PROVE  Popen!RunsWhatWasTyped'
  <1>1. Popen!Lines' = Popen!Lines
    BY KeptLines
  <1> QED
    BY <1>1 DEF Popen!RunsWhatWasTyped, Popen!FromLine

LEMMA PopenStep == Popen!IndInv /\ [Popen!Next]_(Popen!vars) => Popen!IndInv'
  <1> SUFFICES ASSUME Popen!IndInv, [Popen!Next]_(Popen!vars) PROVE Popen!IndInv'
    OBVIOUS
  <1>a. Popen!TypeOK /\ Popen!PieceInv /\ x6 \in Seq(Seq(Popen!Chars)) /\ Popen!RunsWhatWasTyped
    BY DEF Popen!IndInv
  <1>1. CASE Popen!Fgets
    <2>0. PICK n, p : n = Popen!Taken /\ p = Popen!Pos
      OBVIOUS
    <2>1. /\ x1 = "fgets" /\ x2 # <<>> /\ x4' = n
          /\ x3' = IF n > 1 /\ SubSeq(x2, 1, n)[n] = "nl" THEN Popen!Front(SubSeq(x2, 1, n))
                   ELSE SubSeq(x2, 1, n)
          /\ x2' = SubSeq(x2, n + 1, Len(x2))
          /\ x1' = IF n <= 1 THEN "fgets" ELSE "check"
          /\ UNCHANGED <<x5, x6>>
      BY <1>1, <2>0 DEF Popen!Fgets
    <2>2. /\ x5 \in Seq(Popen!Chars) /\ x2 \in Seq(Popen!Chars) /\ p \in Nat
          /\ x2 = SubSeq(x5, p + 1, Len(x5)) /\ p = Len(x5) - Len(x2)
      BY <1>a, <2>0 DEF Popen!TypeOK, Popen!PieceInv, Popen!Pos
    <2>3. PICK b \in {0} \cup Popen!Newlines(x5) :
             Popen!IsLine(b, p + 1) /\ (p = b \/ p >= b + PAT_SIZE - 1)
      BY <1>a, <2>0, <2>1 DEF Popen!PieceInv
    <2>4. n \in 1..Len(x2) /\ n <= PAT_SIZE - 1
      BY <2>0, <2>1, <2>2, PieceTaken
    <2>5. IsRest(x2, x5, p)
      BY <2>1, <2>2 DEF IsRest
    <2>a. n \in 1..Len(x2) /\ p \in Nat
      BY <2>2, <2>4
    <2>6. /\ \E c \in {0} \cup Popen!Newlines(x5) :
               /\ Popen!IsLine(c, p + n + 1)
               /\ p + n = c \/ p + n >= c + PAT_SIZE - 1 \/ n = Len(x2)
          /\ n > 1 /\ x2[n] = "nl" => Popen!FromLine(SubSeq(x5, p + 1, p + n - 1))
          /\ n > 1 /\ x2[n] # "nl" => Popen!FromLine(SubSeq(x5, p + 1, p + n))
      BY <2>0, <2>1, <2>2, <2>3, FgetsPiece
    <2>7. /\ SubSeq(x2, n + 1, Len(x2)) = SubSeq(x5, p + n + 1, Len(x5))
          /\ SubSeq(x2, n + 1, Len(x2)) \in Seq(Popen!Chars)
          /\ Len(SubSeq(x2, n + 1, Len(x2))) = Len(x2) - n
      <3>1. IsLeft(x2, x5, p, n)
        BY ONLY <2>a, <2>5, RestAfter
      <3> QED
        BY ONLY <3>1 DEF IsLeft
    <2>8. /\ SubSeq(x2, 1, n) = SubSeq(x5, p + 1, p + n)
          /\ SubSeq(x2, 1, n) \in Seq(Popen!Chars)
          /\ Len(SubSeq(x2, 1, n)) = n
          /\ SubSeq(x2, 1, n)[n] = x2[n]
          /\ SubSeq(SubSeq(x2, 1, n), 1, n - 1) = SubSeq(x5, p + 1, p + n - 1)
          /\ SubSeq(SubSeq(x2, 1, n), 1, n - 1) \in Seq(Popen!Chars)
          /\ Len(SubSeq(SubSeq(x2, 1, n), 1, n - 1)) = n - 1
      <3>1. IsTaken(x2, x5, p, n)
        BY ONLY <2>a, <2>5, RestTaken
      <3> QED
        BY ONLY <3>1 DEF IsTaken
    <2>9. Len(x2) \in Nat /\ Len(x5) \in Nat /\ Len(x5) = p + Len(x2) /\ n \in Nat /\ n # 0
      <3>1. Len(x2) \in Nat /\ Len(x5) \in Nat /\ Len(x5) = p + Len(x2)
        BY ONLY <2>5, RestPlaces
      <3> QED
        BY ONLY <2>4, <3>1
    <2>10. Popen!Pos' = p + n
      <3>1. Len(x5) - (Len(x2) - n) = p + n
        BY ONLY <2>a, <2>9
      <3> QED
        BY <2>1, <2>7, <3>1 DEF Popen!Pos
    <2>11. x3' \in Seq(Popen!Chars) /\ Len(x3') <= n /\ (n > 1 => x3' # <<>> /\ Popen!FromLine(x3'))
      <3>1. CASE n > 1 /\ x2[n] = "nl"
        <4>1. x3' = SubSeq(SubSeq(x2, 1, n), 1, n - 1)
          BY <2>1, <2>8, <3>1 DEF Popen!Front
        <4>2. Popen!FromLine(x3')
          BY ONLY <2>6, <2>8, <3>1, <4>1
        <4>3. x3' \in Seq(Popen!Chars) /\ Len(x3') = n - 1
          BY ONLY <2>8, <4>1
        <4>4. x3' # <<>>
          BY ONLY <2>9, <3>1, <4>3
        <4> QED
          BY ONLY <2>9, <4>2, <4>3, <4>4
      <3>2. CASE ~(n > 1 /\ x2[n] = "nl")
        <4>1. x3' = SubSeq(x2, 1, n)
          BY <2>1, <2>8, <3>2
        <4>2. n > 1 => Popen!FromLine(x3')
          BY ONLY <2>6, <2>8, <3>2, <4>1
        <4>3. x3' \in Seq(Popen!Chars) /\ Len(x3') = n
          BY ONLY <2>8, <4>1
        <4>4. x3' # <<>>
          BY ONLY <2>9, <4>3
        <4> QED
          BY ONLY <2>9, <4>2, <4>3, <4>4
      <3> QED
        BY <3>1, <3>2
    <2>12. Popen!TypeOK'
      <3>1. x4' \in 0..PAT_SIZE - 1 /\ Len(x3') < PAT_SIZE
        BY <2>1, <2>4, <2>9, <2>11, FamilyAssumption
      <3> QED
        BY ONLY <1>a, <2>1, <2>7, <2>11, <3>1 DEF Popen!TypeOK
    <2>13. Popen!PieceInv'
      <3>1. Popen!Lines' = Popen!Lines
        BY <2>1, KeptLines
      <3>2. x2' = SubSeq(x5', Popen!Pos' + 1, Len(x5'))
        BY ONLY <2>1, <2>7, <2>10
      <3>3. \E c \in {0} \cup Popen!Newlines(x5') :
               /\ Popen!IsLine(c, Popen!Pos + 1)'
               /\ Popen!Pos' = c \/ Popen!Pos' >= c + PAT_SIZE - 1 \/ x2' = <<>>
        <4>1. PICK c \in {0} \cup Popen!Newlines(x5) :
                 /\ Popen!IsLine(c, p + n + 1)
                 /\ p + n = c \/ p + n >= c + PAT_SIZE - 1 \/ n = Len(x2)
          BY <2>6
        <4>2. n = Len(x2) => x2' = <<>>
          BY <2>1, <2>7, <2>9
        <4>3. Popen!IsLine(c, Popen!Pos + 1)'
          BY ONLY <2>1, <2>10, <4>1 DEF Popen!IsLine
        <4> QED
          BY <2>1, <2>10, <4>1, <4>2, <4>3
      <3>4. x1' \in {"check", "popen"} => x3' # <<>> /\ Len(x3') <= x4' /\ Popen!FromLine(x3)'
        <4>1. x1' \in {"check", "popen"} => n > 1
          BY <2>1, <2>9
        <4> QED
          BY <2>1, <2>11, <3>1, <4>1 DEF Popen!FromLine
      <3>5. x1' # "popen" /\ Popen!Pos' \in Nat /\ x5' \in Seq(Popen!Chars)
        BY <2>1, <2>2, <2>9, <2>10
      <3> QED
        BY ONLY <3>2, <3>3, <3>4, <3>5 DEF Popen!PieceInv
    <2>14. Popen!RunsWhatWasTyped' /\ x6' \in Seq(Seq(Popen!Chars))
      BY <1>a, <2>1, RanKept
    <2> QED
      BY <2>12, <2>13, <2>14 DEF Popen!IndInv
  <1>2. CASE Popen!Eof
    <2>1. x1' = "exited" /\ UNCHANGED <<x2, x3, x4, x5, x6>>
      BY <1>2 DEF Popen!Eof
    <2>2. Popen!TypeOK'
      BY <1>a, <2>1 DEF Popen!TypeOK
    <2>3. Popen!PieceInv'
      BY <1>a, <2>1, PopenKeeps
    <2>4. Popen!RunsWhatWasTyped'
      BY <1>a, <2>1, RanKept
    <2> QED
      BY <1>a, <2>1, <2>2, <2>3, <2>4 DEF Popen!IndInv
  <1>3. CASE Popen!Check
    <2>1. /\ x1 = "check" /\ UNCHANGED <<x2, x3, x4, x5, x6>>
          /\ x1' = IF \E i \in 1..x4 : i <= Len(x3) /\ x3[i] \notin Valid THEN "fgets" ELSE "popen"
      BY <1>3 DEF Popen!Check
    <2>2. x3 # <<>> /\ Len(x3) <= x4 /\ Popen!FromLine(x3)
      BY <1>a, <2>1 DEF Popen!PieceInv
    <2>3. x1' = "popen" => \A k \in 1..Len(x3) : x3[k] \in Valid
      BY <1>a, <2>1, <2>2 DEF Popen!TypeOK
    <2>4. Popen!TypeOK'
      BY <1>a, <2>1 DEF Popen!TypeOK
    <2>5. Popen!PieceInv'
      BY <1>a, <2>1, <2>2, <2>3, PopenKeeps
    <2>6. Popen!RunsWhatWasTyped'
      BY <1>a, <2>1, RanKept
    <2> QED
      BY <1>a, <2>1, <2>4, <2>5, <2>6 DEF Popen!IndInv
  <1>4. CASE Popen!Run
    <2>1. /\ x1 = "popen" /\ x6' = Append(x6, x3) /\ x1' = "fgets"
          /\ UNCHANGED <<x2, x3, x4, x5>>
      BY <1>4 DEF Popen!Run
    <2>2. /\ x3 \in Seq(Popen!Chars) /\ x3 # <<>> /\ Popen!FromLine(x3)
          /\ \A k \in 1..Len(x3) : x3[k] \in Valid
      BY <1>a, <2>1 DEF Popen!PieceInv, Popen!TypeOK
    <2>3. Popen!TypeOK'
      BY <1>a, <2>1 DEF Popen!TypeOK
    <2>4. Popen!PieceInv'
      BY <1>a, <2>1, PopenKeeps
    <2>5. /\ x6' \in Seq(Seq(Popen!Chars)) /\ Len(x6) \in Nat /\ Len(x6') = Len(x6) + 1
          /\ x6'[Len(x6) + 1] = x3 /\ \A i \in 1..Len(x6) : x6'[i] = x6[i]
      BY <1>a, <2>1, <2>2
    <2>6. Popen!RunsWhatWasTyped'
      <3>1. Popen!Lines' = Popen!Lines
        BY <2>1, KeptLines
      <3> SUFFICES ASSUME NEW i \in 1..Len(x6')
                   PROVE  /\ x6'[i] # <<>> /\ \A k \in 1..Len(x6'[i]) : x6'[i][k] \in Valid
                          /\ Popen!FromLine(x6[i])'
        BY DEF Popen!RunsWhatWasTyped
      <3>2. /\ x6'[i] # <<>> /\ \A k \in 1..Len(x6'[i]) : x6'[i][k] \in Valid
            /\ Popen!FromLine(x6'[i])
        <4>1. CASE i = Len(x6) + 1
          BY <2>2, <2>5, <4>1
        <4>2. CASE i # Len(x6) + 1
          <5>1. i \in 1..Len(x6) /\ x6'[i] = x6[i]
            <6>1. i \in 1..Len(x6) + 1
              BY <2>5
            <6>2. i \in 1..Len(x6)
              BY ONLY <2>5, <4>2, <6>1
            <6> QED
              BY ONLY <2>5, <6>2
          <5> QED
            BY <1>a, <5>1 DEF Popen!RunsWhatWasTyped
        <4> QED
          BY <4>1, <4>2
      <3> QED
        BY <3>1, <3>2 DEF Popen!FromLine
    <2> QED
      BY <2>3, <2>4, <2>5, <2>6 DEF Popen!IndInv
  <1>5. CASE Popen!PopenFails
    <2>1. x1' = "fgets" /\ UNCHANGED <<x2, x3, x4, x5, x6>>
      BY <1>5 DEF Popen!PopenFails
    <2>2. Popen!TypeOK'
      BY <1>a, <2>1 DEF Popen!TypeOK
    <2>3. Popen!PieceInv'
      BY <1>a, <2>1, PopenKeeps
    <2>4. Popen!RunsWhatWasTyped'
      BY <1>a, <2>1, RanKept
    <2> QED
      BY <1>a, <2>1, <2>2, <2>3, <2>4 DEF Popen!IndInv
  <1>6. CASE UNCHANGED Popen!vars
    <2>1. UNCHANGED <<x1, x2, x3, x4, x5, x6>>
      BY <1>6 DEF Popen!vars
    <2>2. Popen!TypeOK'
      BY <1>a, <2>1 DEF Popen!TypeOK
    <2>3. Popen!PieceInv'
      <3>1. /\ x1 \in {"check", "popen"} => x3 # <<>> /\ Len(x3) <= x4 /\ Popen!FromLine(x3)
            /\ x1 = "popen" => \A k \in 1..Len(x3) : x3[k] \in Valid
        BY <1>a DEF Popen!PieceInv
      <3> QED
        BY <1>a, <2>1, <3>1, PopenKeeps
    <2>4. Popen!RunsWhatWasTyped'
      BY <1>a, <2>1, RanKept
    <2> QED
      BY <1>a, <2>1, <2>2, <2>3, <2>4 DEF Popen!IndInv
  <1> QED
    BY <1>1, <1>2, <1>3, <1>4, <1>5, <1>6 DEF Popen!Next

\* No command holds a character that is not valid, not even from a line that
\* came in pieces, and patterns that fit are used as typed (popen_glob.c lines
\* 28-50), for any input and any buffer of two characters or more.
THEOREM PopenRunsTyped == FamilySpec => []RunsWhatWasTyped
  <1>1. FamilyInit => RunsWhatWasTyped
    <2> SUFFICES ASSUME Popen!Init PROVE Popen!IndInv /\ Popen!RunsWhatWasTyped
      BY DEF FamilyInit, RunsWhatWasTyped
    <2>1. /\ x1 = "fgets" /\ x2 \in Popen!SeqOf(Popen!Chars, MaxInput) /\ x5 = x2
          /\ x3 = <<>> /\ x4 = 0 /\ x6 = <<>>
      BY DEF Popen!Init
    <2>2. PICK m \in 0..MaxInput : x2 \in [1..m -> Popen!Chars]
      BY <2>1 DEF Popen!SeqOf
    <2>3. x2 \in Seq(Popen!Chars) /\ Len(x2) \in Nat
      BY <2>2, FamilyAssumption
    <2>4. <<>> \in Seq(Popen!Chars) /\ <<>> \in Seq(Seq(Popen!Chars)) /\ Len(<<>>) = 0
      OBVIOUS
    <2>5. Popen!TypeOK
      BY <2>1, <2>3, <2>4, FamilyAssumption DEF Popen!TypeOK
    <2>6. Popen!Pos = 0
      BY <2>1, <2>3 DEF Popen!Pos
    <2>7. x2 = SubSeq(x5, Popen!Pos + 1, Len(x5))
      BY <2>1, <2>3, <2>6
    <2>8. Popen!IsLine(0, Popen!Pos + 1)
      BY <2>6 DEF Popen!IsLine, Popen!Newlines
    <2>9. Popen!PieceInv
      BY <2>1, <2>3, <2>6, <2>7, <2>8 DEF Popen!PieceInv
    <2>10. Popen!RunsWhatWasTyped
      BY <2>1, <2>4 DEF Popen!RunsWhatWasTyped
    <2> QED
      BY <2>1, <2>4, <2>5, <2>9, <2>10 DEF Popen!IndInv
  <1>2. RunsWhatWasTyped /\ [FamilyNext]_all => RunsWhatWasTyped'
    <2> SUFFICES ASSUME RunsWhatWasTyped, [FamilyNext]_all, program' = "popen_glob"
                 PROVE  Popen!IndInv' /\ Popen!RunsWhatWasTyped'
      BY DEF RunsWhatWasTyped
    <2>1. Popen!IndInv'
      BY FamilyStep, PopenStep DEF RunsWhatWasTyped
    <2> QED
      BY <2>1 DEF Popen!IndInv
  <1> QED
    BY <1>1, <1>2, PTL DEF FamilySpec
=============================================================================
