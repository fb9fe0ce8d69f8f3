----------------------------- MODULE MultiWait -----------------------------
(***************************************************************************)
(* procexec/multi_wait.c: one child per argument, and a parent that calls  *)
(* wait() until there is no child left.  What the program inherits is part *)
(* of its initial state: children of the process that exec'ed it, and a    *)
(* disposition of SIGCHLD to ignore, which makes the kernel reap children  *)
(* by itself.                                                              *)
(***************************************************************************)
EXTENDS Integers, FiniteSets

CONSTANTS N,            \* argc - 1
          Inherited,    \* children the process has when main() starts
          ForkMayFail   \* may fork() fail?

Kids == 1..N
Children == Kids \cup Inherited

VARIABLES parent,       \* "fork", "wait", "exited" or "failed"
          j,            \* the children before j were forked
          kid,          \* kid[k]: "none", "runs", "zombie" or "reaped"
          ignored,      \* is SIGCHLD ignored?
          numDead       \* (int) wait() calls that returned a child

vars == <<parent, j, kid, ignored, numDead>>

Init == /\ parent = "fork" /\ j = 1
        /\ kid = [k \in Children |-> IF k \in Inherited THEN "runs" ELSE "none"]
        /\ ignored \in BOOLEAN
        /\ numDead = 0

Fork == /\ parent = "fork" /\ j <= N
        /\ kid' = [kid EXCEPT ![j] = "runs"]
        /\ j' = j + 1
        /\ UNCHANGED <<parent, ignored, numDead>>

\* The children made so far are left to run on.
ForkFails == /\ ForkMayFail /\ parent = "fork" /\ j <= N
             /\ parent' = "failed"
             /\ UNCHANGED <<j, kid, ignored, numDead>>

ForkedAll == /\ parent = "fork" /\ j > N
             /\ parent' = "wait"
             /\ UNCHANGED <<j, kid, ignored, numDead>>

Zombies == {k \in Children : kid[k] = "zombie"}
Running == {k \in Children : kid[k] = "runs"}

\* wait() returns one zombie, which one is the kernel's choice.
Reap == /\ parent = "wait"
        /\ \E k \in Zombies : kid' = [kid EXCEPT ![k] = "reaped"]
        /\ numDead' = numDead + 1
        /\ UNCHANGED <<parent, j, ignored>>

\* The error is taken for ECHILD while a child is still running.
NoMoreChildrenEarly == /\ parent = "wait" /\ Zombies = {}
                       /\ parent' = "exited"
                       /\ UNCHANGED <<j, kid, ignored, numDead>>

\* wait() = -1 with ECHILD: no child, running or dead, is left.
NoMoreChildren == /\ parent = "wait" /\ Zombies = {} /\ Running = {}
                  /\ parent' = "exited"
                  /\ UNCHANGED <<j, kid, ignored, numDead>>

\* The child sleeps and exits, or is killed: wait(NULL) does not tell the two
\* apart.  Without a parent that cares its status is taken by the kernel.
KidEnds(k) == /\ kid[k] = "runs"
              /\ kid' = [kid EXCEPT ![k] =
                     IF ignored \/ parent \in {"exited", "failed"}
                     THEN "reaped" ELSE "zombie"]
              /\ UNCHANGED <<parent, j, ignored, numDead>>

Parent == Fork \/ ForkedAll \/ Reap \/ NoMoreChildren

Next == Parent \/ ForkFails \/ \E k \in Children : KidEnds(k)

Spec == Init /\ [][Next]_vars

-----------------------------------------------------------------------------
TypeOK == /\ parent \in {"fork", "wait", "exited", "failed"}
          /\ j \in 1..N + 1
          /\ kid \in [Children -> {"none", "runs", "zombie", "reaped"}]
          /\ ignored \in BOOLEAN
          /\ numDead \in Nat

\* "parent waits for each child to exit" (line 43): a parent that exits with
\* success leaves no child behind, and numDead counted each of them once,
\* the inherited ones included, unless SIGCHLD is ignored: then none.
AllReaped == parent = "exited" =>
    /\ \A k \in Children : kid[k] = "reaped"
    /\ numDead = IF ignored THEN 0 ELSE Cardinality(Children)

\* Who has been forked, and that numDead is the number of children reaped by
\* wait() as long as the parent is there to call it.
CountInv == /\ \A k \in Children : kid[k] = "none" <=> k \in Kids /\ k >= j
            /\ parent \in {"wait", "exited"} => j = N + 1
            /\ ignored => Zombies = {} /\ numDead = 0
            /\ ~ignored /\ parent \in {"fork", "wait"} =>
                 numDead = Cardinality({k \in Children : kid[k] = "reaped"})

\* What the proof of AllReaped rests on.
IndInv == TypeOK /\ CountInv /\ AllReaped

\* The parent and every child end (lines 31-56).
AllEnded == /\ parent \in {"exited", "failed"}
            /\ \A k \in Children : kid[k] # "runs"
=============================================================================
