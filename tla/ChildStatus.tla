---------------------------- MODULE ChildStatus ----------------------------
(***************************************************************************)
(* procexec/child_status.c: a child that exits at once or pauses for ever, *)
(* signals from outside that stop, continue or kill it, and a parent that  *)
(* waits for it.  Lines 56-58 are an if without braces: exit(EXIT_FAILURE) *)
(* follows every return of waitpid(), and the lines after it (the report   *)
(* of the status, lines 60-66) are never reached.                          *)
(***************************************************************************)
EXTENDS Integers

CONSTANTS MaxChanges    \* bound: how often the child is stopped and continued

VARIABLES parent,       \* "fork", "wait" or "failed"
          child,        \* "none", "start", "pause", "stopped", "exited", "killed"
          report,       \* the status change waitpid() would return, or "none"
          detected,     \* the status changes waitpid() has returned
          changes       \* stops and continues so far

vars == <<parent, child, report, detected, changes>>

Init == /\ parent = "fork" /\ child = "none"
        /\ report = "none" /\ detected = {} /\ changes = 0

Fork == /\ parent = "fork"
        /\ parent' = "wait" /\ child' = "start"
        /\ UNCHANGED <<report, detected, changes>>

ForkFails == /\ parent = "fork"
             /\ parent' = "failed"
             /\ UNCHANGED <<child, report, detected, changes>>

\* With an argument the child exits, without one it loops in pause().
Start == /\ child = "start"
         /\ \/ child' = "exited" /\ report' = "exited"
            \/ child' = "pause" /\ UNCHANGED report
         /\ UNCHANGED <<parent, detected, changes>>

\* waitpid(-1, &status, WUNTRACED | WCONTINUED), then exit(EXIT_FAILURE).
Waitpid == /\ parent = "wait" /\ report # "none"
           /\ detected' = detected \cup {report}
           /\ report' = "none"
           /\ parent' = "failed"
           /\ UNCHANGED <<child, changes>>

Stop == /\ child = "pause" /\ changes < MaxChanges
        /\ child' = "stopped" /\ report' = "stopped"
        /\ changes' = changes + 1
        /\ UNCHANGED <<parent, detected>>

Continue == /\ child = "stopped" /\ changes < MaxChanges
            /\ child' = "pause" /\ report' = "continued"
            /\ changes' = changes + 1
            /\ UNCHANGED <<parent, detected>>

Killed == /\ child \in {"start", "pause", "stopped"}
          /\ child' = "killed" /\ report' = "killed"
          /\ UNCHANGED <<parent, detected, changes>>

Next == Fork \/ ForkFails \/ Start \/ Waitpid \/ Stop \/ Continue \/ Killed

Spec == Init /\ [][Next]_vars

-----------------------------------------------------------------------------
\* "The parent process repeatedly waits on the child until it detects that
\* the child either exited normally or was killed by a signal" (child_status.c
\* lines 11-13): a parent that made a child and ended has seen its end.
DetectsEnd == parent = "failed" /\ child # "none" =>
    detected \cap {"exited", "killed"} # {}
=============================================================================
