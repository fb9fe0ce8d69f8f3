------------------------------ MODULE ForkSync ------------------------------
(***************************************************************************)
(* procexec/fork_sig_sync.c: a parent blocks SYNC_SIG, installs a handler, *)
(* forks, and sleeps in sigsuspend() until the child, its work done, sends *)
(* the signal.  Other processes may send SYNC_SIG too and may kill either  *)
(* process.  Signals are the kernel's: one SYNC_SIG at most is pending.    *)
(***************************************************************************)
EXTENDS Integers

CONSTANTS ForkMayFail,  \* may fork() fail?
          MayDie,       \* the processes that may be killed
          MaxStray      \* bound: signals sent by other processes

VARIABLES parent,       \* the call the parent is in, or how it ended
          child,        \* the same for the child
          blocked,      \* is SYNC_SIG in the parent's mask?
          handler,      \* is the handler installed?
          pending,      \* is a SYNC_SIG pending for the parent?
          target,       \* what getppid() returned to the child
          stray         \* signals sent by others so far

vars == <<parent, child, blocked, handler, pending, target, stray>>

Ended == {"exited", "failed", "killed"}

Init == /\ parent = "block" /\ child = "none"
        /\ blocked = FALSE /\ handler = FALSE /\ pending = FALSE
        /\ target = "none" /\ stray = 0

\* What SYNC_SIG does to the parent: sigsuspend() has an empty mask while it
\* sleeps, takes the signal and returns with the mask of before.
Signal == IF parent = "asleep"
          THEN parent' = "restore" /\ UNCHANGED pending
          ELSE IF blocked THEN pending' = TRUE /\ UNCHANGED parent
          ELSE IF handler THEN UNCHANGED <<parent, pending>>
          ELSE parent' = "killed" /\ UNCHANGED pending

-----------------------------------------------------------------------------
(* The parent.                                                             *)

NoBlock == /\ parent = "block"
           /\ parent' = "install"
           /\ UNCHANGED <<child, blocked, handler, pending, target, stray>>

Block == /\ parent = "block"
         /\ blocked' = TRUE
         /\ parent' = "install"
         /\ UNCHANGED <<child, handler, pending, target, stray>>

Install == /\ parent = "install"
           /\ handler' = TRUE
           /\ parent' = "fork"
           /\ UNCHANGED <<child, blocked, pending, target, stray>>

Fork == /\ parent = "fork"
        /\ parent' = "suspend" /\ child' = "work"
        /\ UNCHANGED <<blocked, handler, pending, target, stray>>

ForkFails == /\ ForkMayFail /\ parent = "fork"
             /\ parent' = "failed"
             /\ UNCHANGED <<child, blocked, handler, pending, target, stray>>

\* A signal that is already pending is taken at once.
Suspend == /\ parent = "suspend"
           /\ parent' = IF pending THEN "restore" ELSE "asleep"
           /\ pending' = FALSE
           /\ UNCHANGED <<child, blocked, handler, target, stray>>

\* sigprocmask(SIG_SETMASK, &origMask): a signal that came meanwhile only
\* runs the handler.  exit(EXIT_SUCCESS).
Restore == /\ parent = "restore"
           /\ blocked' = FALSE /\ pending' = FALSE
           /\ parent' = "exited"
           /\ UNCHANGED <<child, handler, target, stray>>

-----------------------------------------------------------------------------
(* The child.                                                              *)

SignalFirst == /\ child = "work"
               /\ target' = IF parent \in Ended THEN "init" ELSE "parent"
               /\ child' = "signal"
               /\ Signal
               /\ UNCHANGED <<blocked, handler, stray>>

\* The work is done; getppid() is init if the parent has ended.
Work == /\ child = "work"
        /\ target' = IF parent \in Ended THEN "init" ELSE "parent"
        /\ child' = "signal"
        /\ UNCHANGED <<parent, blocked, handler, pending, stray>>

\* kill() fails for init (EPERM) and, once the parent was reaped, for it too
\* (ESRCH); before that it succeeds without effect.
Kill == /\ child = "signal"
        /\ \/ /\ target = "parent" /\ parent \notin Ended
              /\ Signal /\ child' = "exited"
           \/ /\ target = "parent" /\ parent \in Ended
              /\ child' \in {"exited", "failed"} /\ UNCHANGED <<parent, pending>>
           \/ /\ target = "init"
              /\ child' = "failed" /\ UNCHANGED <<parent, pending>>
        /\ UNCHANGED <<blocked, handler, target, stray>>

-----------------------------------------------------------------------------
(* The other processes.                                                    *)

Stray == /\ stray < MaxStray /\ parent \notin Ended
         /\ stray' = stray + 1
         /\ Signal
         /\ UNCHANGED <<child, blocked, handler, target>>

KillParent == /\ "parent" \in MayDie /\ parent \notin Ended
              /\ parent' = "killed"
              /\ UNCHANGED <<child, blocked, handler, pending, target, stray>>

KillChild == /\ "child" \in MayDie /\ child \in {"work", "signal"}
             /\ child' = "killed"
             /\ UNCHANGED <<parent, blocked, handler, pending, target, stray>>

Parent == Block \/ Install \/ Fork \/ Suspend \/ Restore
Child == Work \/ Kill

Next == Parent \/ ForkFails \/ Child \/ Stray \/ KillParent \/ KillChild

Spec == Init /\ [][Next]_vars

-----------------------------------------------------------------------------
TypeOK == /\ parent \in {"block", "install", "fork", "suspend", "asleep",
                         "restore"} \cup Ended
          /\ child \in {"none", "work", "signal"} \cup Ended
          /\ blocked \in BOOLEAN /\ handler \in BOOLEAN /\ pending \in BOOLEAN
          /\ target \in {"none", "parent", "init"}
          /\ stray \in Nat

\* Who has been told: nothing is pending for a parent that nobody signalled,
\* the mask covers the time from line 27 to line 73, and the child signals
\* the parent while it exists or not at all.
Told == child = "exited" \/ stray > 0

MaskInv == /\ parent \in {"suspend", "asleep", "restore"} => blocked /\ handler
           /\ parent = "fork" => blocked /\ handler
           /\ parent = "install" => blocked
           /\ pending => Told
           /\ parent \in {"restore", "exited"} => Told
           /\ parent \in {"block", "install", "fork"} => child = "none"
           /\ child = "signal" => target # "none"
           /\ parent \in {"suspend", "asleep", "restore"} => child # "none"
           /\ target = "init" \/ child = "failed" => parent \in Ended

\* A signal the child has sent is where the parent will find it: pending until
\* sigsuspend() takes it, and taken when the parent was asleep already.
SignalKept == child = "exited" => /\ parent = "suspend" => pending
                                  /\ parent # "asleep"

\* What the proofs of AfterWork and NotLost rest on.
IndInv == TypeOK /\ MaskInv /\ SignalKept

\* "waits for the child to complete" (line 62): unless somebody else sent
\* SYNC_SIG, a parent that got past sigsuspend() finds the child's work done.
AfterWork == parent \in {"restore", "exited"} /\ stray = 0 => child = "exited"

\* The signal of the child is not lost between fork() and sigsuspend() (lines
\* 41-66): a parent that sleeps has a child that has yet to signal it, unless
\* the child was killed.
NotLost == parent = "asleep" => child \in {"work", "signal", "killed"}

\* The parent ends, unless the child was killed before it signalled: then
\* nobody ends sigsuspend().
AllEnded == /\ parent \in Ended \/ (parent = "asleep" /\ child = "killed")
            /\ child \in Ended \cup {"none"}
=============================================================================
