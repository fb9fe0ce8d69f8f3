----------------------------- MODULE ForkShare -----------------------------
(***************************************************************************)
(* Programs in which a child changes something it shares with its parent,  *)
(* and the parent waits for the child before it looks:                     *)
(*   "anony_mmap"         an integer in a shared mapping (memory_mappings/ *)
(*                        anony_mmap.c), incremented;                      *)
(*   "fork_file_sharing"  the offset and the status flags of an open file  *)
(*                        (procexec/fork_file_sharing.c), set one after    *)
(*                        the other.                                       *)
(* Both are started without children of their own.  What is shared is the  *)
(* sequence of values that wait() is to make visible.                      *)
(***************************************************************************)
EXTENDS Integers

CONSTANTS Programs,     \* the programs considered
          MayFail,      \* the calls that may fail
          MayDie        \* the processes that may be killed

VARIABLES prog,
          parent,       \* the call the parent is in, or how it ended
          child,        \* the same for the child
          shared,       \* the shared values
          printed       \* what the parent printed last, or <<>>

vars == <<prog, parent, child, shared, printed>>

Ended == {"exited", "failed", "killed"}

\* The values the parent starts with, and those the child leaves: the integer,
\* or the offset and whether O_APPEND is set.
Before(p) == IF p = "anony_mmap" THEN <<1>> ELSE <<0, 0>>
After(p) == IF p = "anony_mmap" THEN <<2>> ELSE <<1000, 1>>

Init == /\ prog \in Programs
        /\ parent = "setup" /\ child = "none"
        /\ shared = <<>> /\ printed = <<>>

\* anony_mmap: mmap() and *addr = 1.  fork_file_sharing: mkstemp().
Setup == /\ parent = "setup"
         /\ shared' = Before(prog)
         /\ parent' = "fork"
         /\ UNCHANGED <<prog, child, printed>>

\* anony_mmap goes on after the error and dies of *addr = 1; the other exits.
SetupFails == /\ "setup" \in MayFail /\ parent = "setup"
              /\ parent' = IF prog = "anony_mmap" THEN "killed" ELSE "failed"
              /\ UNCHANGED <<prog, child, shared, printed>>

Fork == /\ parent = "fork"
        /\ parent' = "wait" /\ child' = "first"
        /\ UNCHANGED <<prog, shared, printed>>

\* anony_mmap has no exit in case -1: the parent prints the value as the
\* child, increments it and exits with success.
ForkFails == /\ "fork" \in MayFail /\ parent = "fork"
             /\ IF prog = "anony_mmap"
                THEN /\ parent' = "exited"
                     /\ printed' = shared /\ shared' = After(prog)
                ELSE parent' = "failed" /\ UNCHANGED <<shared, printed>>
             /\ UNCHANGED <<prog, child>>

\* (*addr)++, or lseek(fd, 1000, SEEK_SET).
ChangeFirst == /\ child = "first"
               /\ shared' = [shared EXCEPT ![1] = After(prog)[1]]
               /\ child' = IF prog = "anony_mmap" THEN "exit" ELSE "second"
               /\ UNCHANGED <<prog, parent, printed>>

\* fcntl(F_GETFL), O_APPEND, fcntl(F_SETFL).
ChangeSecond == /\ child = "second"
                /\ shared' = [shared EXCEPT ![2] = After(prog)[2]]
                /\ child' = "exit"
                /\ UNCHANGED <<prog, parent, printed>>

\* A child of fork_file_sharing whose call fails exits with failure.
ChangeFails == /\ "change" \in MayFail /\ prog = "fork_file_sharing"
               /\ child \in {"first", "second"}
               /\ child' = "failed"
               /\ UNCHANGED <<prog, parent, shared, printed>>

ChildExit == /\ child = "exit"
             /\ child' = "exited"
             /\ UNCHANGED <<prog, parent, shared, printed>>

\* wait(NULL) does not look at the status.  With SIGCHLD ignored it waits as
\* long and then fails: fork_file_sharing exits, anony_mmap goes on.
Wait == /\ parent = "wait" /\ child \in Ended
        /\ \/ parent' = "print"
           \/ "wait" \in MayFail /\ prog = "fork_file_sharing" /\ parent' = "failed"
        /\ UNCHANGED <<prog, child, shared, printed>>

PrintShared == /\ parent = "print"
               /\ printed' = shared
               /\ parent' = "exited"
               /\ UNCHANGED <<prog, child, shared>>

\* fcntl(F_GETFL) of the parent fails.
PrintFails == /\ "print" \in MayFail /\ prog = "fork_file_sharing"
              /\ parent = "print"
              /\ parent' = "failed"
              /\ UNCHANGED <<prog, child, shared, printed>>

KillParent == /\ "parent" \in MayDie /\ parent \notin Ended
              /\ parent' = "killed"
              /\ UNCHANGED <<prog, child, shared, printed>>

KillChild == /\ "child" \in MayDie /\ child \notin Ended \cup {"none"}
             /\ child' = "killed"
             /\ UNCHANGED <<prog, parent, shared, printed>>

Parent == Setup \/ Fork \/ Wait \/ PrintShared
Child == ChangeFirst \/ ChangeSecond \/ ChildExit

Next == \/ Parent \/ Child
        \/ SetupFails \/ ForkFails \/ ChangeFails \/ PrintFails
        \/ KillParent \/ KillChild

Spec == Init /\ [][Next]_vars

-----------------------------------------------------------------------------
TypeOK == /\ prog \in Programs
          /\ parent \in {"setup", "fork", "wait", "print"} \cup Ended
          /\ child \in {"none", "first", "second", "exit"} \cup Ended
          /\ shared \in {<<>>, Before(prog), <<1000, 0>>, After(prog)}
          /\ printed \in {<<>>, Before(prog), <<1000, 0>>, After(prog)}

\* "the parent waits for the child to exit and then prints the value" (anony_
\* mmap.c lines 5-6, fork_file_sharing.c lines 55-69): a parent that made a
\* child prints all of what the child changed, and what it prints no longer
\* changes, even if the child was killed on the way.  One that made none exits
\* with success only in anony_mmap (case -1, lines 42-49), with the old value
\* printed and the new one in the mapping.
PrintsFinal == parent = "exited" =>
    IF child # "none"
    THEN /\ child \in Ended /\ printed = shared
         /\ child = "exited" => printed = After(prog)
    ELSE prog = "anony_mmap" /\ printed = Before(prog) /\ shared = After(prog)

\* How far the child has got is how much of the change is made, and a parent
\* past wait() has no child left.
ChangeInv == /\ parent \in {"setup", "fork"} => child = "none"
             /\ parent = "fork" => shared = Before(prog)
             /\ child = "first" => shared = Before(prog)
             /\ child = "second" =>
                  prog = "fork_file_sharing" /\ shared = <<1000, 0>>
             /\ child \in {"exit", "exited"} => shared = After(prog)
             /\ parent = "print" => child \in Ended

\* What the proof of PrintsFinal rests on.
IndInv == TypeOK /\ ChangeInv /\ PrintsFinal

AllEnded == parent \in Ended /\ child \in Ended \cup {"none"}
=============================================================================
