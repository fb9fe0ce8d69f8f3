------------------------------ MODULE PosixSem ------------------------------
(***************************************************************************)
(* The tools of posix_semaphores/ on one semaphore name: psem_create,      *)
(* psem_post, psem_wait, psem_getvalue and psem_unlink, each run by its    *)
(* own processes.  A name leads to a semaphore; unlinking removes the      *)
(* name, not the semaphore, and a later creation makes another one.        *)
(***************************************************************************)
EXTENDS Integers, FiniteSets

CONSTANTS SemCreators, Posters, Waiters, Getters, SemUnlinkers,
          SemValues,    \* the value argument of psem_create
          SemMax,       \* SEM_VALUE_MAX
          MaxSems,      \* bound: semaphores made
          SemMortal     \* the processes that may be killed

Users == Posters \cup Waiters \cup Getters
Procs == SemCreators \cup Users \cup SemUnlinkers
Sems == 1..MaxSems

VARIABLES pc,           \* pc[p]: "start", "opened", "done", "failed", "killed"
          name,         \* the semaphore of the name, 0 for none
          made,         \* semaphores made so far
          val,          \* val[s]: its value
          first,        \* history: first[s]: the value it was made with
          sem,          \* sem[p]: the semaphore p has opened
          shown         \* shown[p]: the value psem_getvalue printed, or -1

vars == <<pc, name, made, val, first, sem, shown>>

Init == /\ pc = [p \in Procs |-> "start"]
        /\ name = 0 /\ made = 0
        /\ val = [s \in Sems |-> 0] /\ first = [s \in Sems |-> 0]
        /\ sem = [p \in Procs |-> 0]
        /\ shown = [p \in Procs |-> -1]

Move(p, to) == pc' = [pc EXCEPT ![p] = to]

-----------------------------------------------------------------------------
(* psem_create [-c] [-x] name perms value                                  *)

CreateResets(p, c, x, v) ==
    /\ p \in SemCreators /\ pc[p] = "start" /\ name # 0
    /\ IF c /\ x THEN Move(p, "failed") /\ UNCHANGED <<sem, val>>
       ELSE /\ Move(p, "done") /\ sem' = [sem EXCEPT ![p] = name]
            /\ val' = [val EXCEPT ![name] = IF v > SemMax THEN @ ELSE v]
    /\ UNCHANGED <<name, made, first, shown>>

\* sem_open() of psem_create: with O_CREAT alone an existing semaphore is
\* opened and the value is ignored.
CreateOld(p, c, x, v) ==
    /\ p \in SemCreators /\ pc[p] = "start" /\ name # 0
    /\ IF c /\ x THEN Move(p, "failed") /\ UNCHANGED sem
       ELSE Move(p, "done") /\ sem' = [sem EXCEPT ![p] = name]
    /\ UNCHANGED <<name, made, val, first, shown>>

CreateNew(p, c, x, v) ==
    /\ p \in SemCreators /\ pc[p] = "start" /\ name = 0
    /\ IF ~c \/ v > SemMax
         THEN Move(p, "failed") /\ UNCHANGED <<name, made, val, first, sem>>
         ELSE /\ made < MaxSems
              /\ Move(p, "done")
              /\ name' = made + 1 /\ made' = made + 1
              /\ val' = [val EXCEPT ![made + 1] = v]
              /\ first' = [first EXCEPT ![made + 1] = v]
              /\ sem' = [sem EXCEPT ![p] = made + 1]
    /\ UNCHANGED shown

-----------------------------------------------------------------------------
(* The other tools.                                                        *)

\* sem_open(argv[1], 0)
Open(p) == /\ p \in Users /\ pc[p] = "start"
           /\ IF name = 0 THEN Move(p, "failed") /\ UNCHANGED sem
              ELSE Move(p, "opened") /\ sem' = [sem EXCEPT ![p] = name]
           /\ UNCHANGED <<name, made, val, first, shown>>

\* sem_post() fails (EOVERFLOW) at the largest value.
Post(p) == /\ p \in Posters /\ pc[p] = "opened"
           /\ IF val[sem[p]] = SemMax
                THEN Move(p, "failed") /\ UNCHANGED val
                ELSE Move(p, "done") /\ val' = [val EXCEPT ![sem[p]] = @ + 1]
           /\ UNCHANGED <<name, made, first, sem, shown>>

\* sem_wait() blocks while the value is 0.
Wait(p) == /\ p \in Waiters /\ pc[p] = "opened"
           /\ val[sem[p]] > 0
           /\ val' = [val EXCEPT ![sem[p]] = @ - 1]
           /\ Move(p, "done")
           /\ UNCHANGED <<name, made, first, sem, shown>>

GetValue(p) == /\ p \in Getters /\ pc[p] = "opened"
               /\ shown' = [shown EXCEPT ![p] = val[sem[p]]]
               /\ Move(p, "done")
               /\ UNCHANGED <<name, made, val, first, sem>>

\* sem_unlink(): who has the semaphore open keeps it.
Unlink(p) == /\ p \in SemUnlinkers /\ pc[p] = "start"
             /\ Move(p, IF name = 0 THEN "failed" ELSE "done")
             /\ name' = 0
             /\ UNCHANGED <<made, val, first, sem, shown>>

Kill(p) == /\ p \in SemMortal /\ pc[p] \in {"start", "opened"}
           /\ Move(p, "killed")
           /\ UNCHANGED <<name, made, val, first, sem, shown>>

Tool(p) == \/ \E c, x \in BOOLEAN, v \in SemValues : CreateOld(p, c, x, v) \/ CreateNew(p, c, x, v)
           \/ Open(p) \/ Post(p) \/ Wait(p) \/ GetValue(p) \/ Unlink(p)

Next == \E p \in Procs : Tool(p) \/ Kill(p)

Spec == Init /\ [][Next]_vars

-----------------------------------------------------------------------------
TypeOK == /\ pc \in [Procs -> {"start", "opened", "done", "failed", "killed"}]
          /\ name \in 0..made /\ made \in 0..MaxSems
          /\ val \in [Sems -> 0..SemMax] /\ first \in [Sems -> 0..SemMax]
          /\ sem \in [Procs -> 0..MaxSems]
          /\ shown \in [Procs -> -1..SemMax]

Done(P, s) == {p \in P : pc[p] = "done" /\ sem[p] = s}

\* No post is lost and none wakes two: the value of every semaphore is what
\* it was made with, plus the successful posts, minus the waits that
\* returned.  Creating a semaphore that exists does not reset it, and a post
\* goes to the semaphore that was opened even if its name is gone
\* (psem_create.c line 43, psem_post.c line 21, psem_wait.c line 22).
Conserved == \A s \in 1..made :
    val[s] = first[s] + Cardinality(Done(Posters, s)) - Cardinality(Done(Waiters, s))

\* Only semaphores that were made are open.
OpenInv == \A p \in Procs : /\ sem[p] <= made
                            /\ pc[p] = "opened" => sem[p] > 0

\* What the proof of Conserved rests on.
IndInv == TypeOK /\ OpenInv /\ Conserved
=============================================================================
