------------------------------ MODULE PipeSync ------------------------------
(***************************************************************************)
(* pipes_and_fifo/pipe_sync.c: a parent forks one child per argument; each *)
(* child closes its write end of a shared pipe when its work is done, and  *)
(* the parent waits for end of file.  The case of a failed fork() has no   *)
(* break: the parent falls into the branch of the child.                   *)
(***************************************************************************)
EXTENDS Integers

CONSTANTS N,            \* argc - 1: the number of children
          ForkMayFail,  \* may fork() fail?
          MayDie        \* the children that may be killed

ASSUME PipeSyncAssumption == /\ N \in Nat \ {0}
                             /\ ForkMayFail \in BOOLEAN
                             /\ MayDie \subseteq 1..N

Kids == 1..N

VARIABLES parent,       \* "fork", "read", "ready", or, after a
                        \* failed fork, "asChild" and then "gone"
          j,            \* the children before j were forked
          kid,          \* kid[k]: "none", "closeR", "work", "ended"
          wr,           \* the processes that hold the write end (0: parent)
          rd            \* the processes that hold the read end

vars == <<parent, j, kid, wr, rd>>

Init == /\ parent = "fork" /\ j = 1
        /\ kid = [k \in Kids |-> "none"]
        /\ wr = {0} /\ rd = {0}         \* pipe(filedes)

\* The child inherits both ends with the fork itself.
Fork == /\ parent = "fork" /\ j <= N
        /\ kid' = [kid EXCEPT ![j] = "closeR"]
        /\ wr' = wr \cup {j} /\ rd' = rd \cup {j}
        /\ j' = j + 1
        /\ UNCHANGED parent

ForkFails == /\ ForkMayFail
             /\ parent = "fork" /\ j <= N
             /\ parent' = "asChild"
             /\ rd' = rd \ {0}          \* close(filedes[0])
             /\ UNCHANGED <<j, kid, wr>>

\* The rest of the child's branch, run by the parent: sleep, close the write
\* end, _exit(EXIT_SUCCESS).
ParentAsChild == /\ parent = "asChild"
                 /\ parent' = "gone"
                 /\ wr' = wr \ {0}
                 /\ UNCHANGED <<j, kid, rd>>

ParentCloseWEarly == /\ parent = "fork"
                     /\ parent' = "read"
                     /\ wr' = wr \ {0}
                     /\ UNCHANGED <<j, kid, rd>>

ParentCloseW == /\ parent = "fork" /\ j > N
                /\ parent' = "read"
                /\ wr' = wr \ {0}
                /\ UNCHANGED <<j, kid, rd>>

\* read() blocks while anybody holds the write end, and then returns 0.
ParentRead == /\ parent = "read"
              /\ wr = {}
              /\ parent' = "ready"
              /\ rd' = rd \ {0}
              /\ UNCHANGED <<j, kid, wr>>

KidCloseBoth(k) == /\ kid[k] = "closeR"
                   /\ kid' = [kid EXCEPT ![k] = "work"]
                   /\ rd' = rd \ {k} /\ wr' = wr \ {k}
                   /\ UNCHANGED <<parent, j>>

KidCloseR(k) == /\ kid[k] = "closeR"
                /\ kid' = [kid EXCEPT ![k] = "work"]
                /\ rd' = rd \ {k}
                /\ UNCHANGED <<parent, j, wr>>

\* The work is done: close(filedes[1]) and _exit.
KidCloseW(k) == /\ kid[k] = "work"
                /\ kid' = [kid EXCEPT ![k] = "ended"]
                /\ wr' = wr \ {k}
                /\ UNCHANGED <<parent, j, rd>>

\* A child that is killed, or fails, loses its descriptors too.
KidDies(k) == /\ k \in MayDie /\ kid[k] \in {"closeR", "work"}
              /\ kid' = [kid EXCEPT ![k] = "ended"]
              /\ wr' = wr \ {k} /\ rd' = rd \ {k}
              /\ UNCHANGED <<parent, j>>

Parent == Fork \/ ParentCloseW \/ ParentRead \/ ParentAsChild
Kid(k) == KidCloseR(k) \/ KidCloseW(k)

Next == Parent \/ ForkFails \/ \E k \in Kids : Kid(k) \/ KidDies(k)

Spec == Init /\ [][Next]_vars

-----------------------------------------------------------------------------
TypeOK == /\ parent \in {"fork", "read", "ready", "asChild", "gone"}
          /\ j \in 1..N + 1
          /\ kid \in [Kids -> {"none", "closeR", "work", "ended"}]
          /\ wr \subseteq 0..N
          /\ rd \subseteq 0..N

\* "if all the child processes have closed their file descriptors and then
\* parent does a read() call, it sees the EOF, thus stating synchronization
\* is complete" (lines 5-6): the parent is ready only after every child was
\* forked and has finished, even if children die; and what blocks it is a
\* child that has not finished, never a write end nobody will close.
Barrier == /\ parent = "ready" => \A k \in Kids : kid[k] = "ended"
           /\ parent = "read" /\ wr # {} => \E k \in Kids : kid[k] \in {"closeR", "work"}

\* Who holds the write end: the processes that have not finished, and the
\* parent until it is done forking.  The barrier follows from this.
WriteEnds == /\ \A k \in Kids : k \in wr <=> kid[k] \in {"closeR", "work"}
             /\ \A k \in Kids : k < j <=> kid[k] # "none"
             /\ 0 \in wr <=> parent \in {"fork", "asChild"}
             /\ parent \in {"read", "ready"} => j = N + 1
             /\ parent = "ready" => wr = {}

\* What the proof of Barrier rests on.
IndInv == TypeOK /\ WriteEnds

\* "The purpose of this program is to achieve synchronization between parent
\* and multiple child processes" (line 2): a parent that exits successfully
\* has waited for the children it made.
ExitsSynchronized == parent \in {"ready", "gone"} =>
    \A k \in Kids : kid[k] \in {"none", "ended"}
=============================================================================
