--------------------------- MODULE MqNotifyThread ---------------------------
(***************************************************************************)
(* posix_message_queues/mq_notify_thread.c: every notification starts a    *)
(* thread that registers again (notifySetup) and drains the queue, while   *)
(* earlier threads may still be draining.  The threads are interchangeable *)
(* and counted: notif of them have not yet registered, draining of them    *)
(* are in the receive loop.                                                *)
(***************************************************************************)
EXTENDS MessageQueue

CONSTANT MayFail        \* may a call other than mq_notify() fail?

VARIABLES mainPc,       \* "setup", "pause", "exited" (by EBUSY) or "failed"
          draining,     \* threads in the loop of line 38
          startEmpty    \* history: was the queue empty at the first mq_notify?

vars == <<q, ppc, reg, notif, mainPc, draining, startEmpty>>

Init == /\ QueueInit
        /\ mainPc = "setup"
        /\ draining = 0
        /\ startEmpty = TRUE

\* notifySetup() in main: nobody else registers, so it cannot meet EBUSY.
MainSetup == /\ mainPc = "setup"
             /\ mainPc' = "pause"
             /\ reg' = TRUE
             /\ startEmpty' = (q = {})
             /\ UNCHANGED <<q, ppc, notif, draining>>

\* notifySetup() in threadFunc, before the thread takes any message.  EBUSY
\* would end the whole process.
ThreadSetup == /\ mainPc = "pause" /\ notif > 0
               /\ IF reg
                    THEN /\ mainPc' = "exited" /\ reg' = FALSE
                         /\ notif' = 0 /\ draining' = 0
                    ELSE /\ reg' = TRUE /\ notif' = notif - 1
                         /\ draining' = draining + 1
                         /\ UNCHANGED mainPc
               /\ UNCHANGED <<q, ppc, startEmpty>>

ThreadReceive == /\ mainPc = "pause" /\ draining > 0
                 /\ \E m \in q : Take(m, ppc)
                 /\ UNCHANGED <<reg, notif, mainPc, draining, startEmpty>>

ThreadEndEarly == /\ mainPc = "pause" /\ draining > 0
                  /\ draining' = draining - 1
                  /\ UNCHANGED <<queueVars, mainPc, startEmpty>>

ThreadEndRegisters ==
             /\ mainPc = "pause" /\ draining > 0
             /\ q = {}
             /\ draining' = draining - 1
             /\ reg' = ~reg
             /\ mainPc' = IF reg THEN "exited" ELSE mainPc
             /\ UNCHANGED <<q, ppc, notif, startEmpty>>

\* mq_receive() fails with EAGAIN and the thread returns.
ThreadEnd == /\ mainPc = "pause" /\ draining > 0
             /\ q = {}
             /\ draining' = draining - 1
             /\ UNCHANGED <<queueVars, mainPc, startEmpty>>

\* mq_open() of main, mq_getattr() or malloc() of a new thread fails, or
\* mq_receive() with another error than EAGAIN: exit() ends every thread.
Fail == /\ MayFail
        /\ mainPc = "setup" \/ (mainPc = "pause" /\ notif + draining > 0)
        /\ mainPc' = "failed" /\ reg' = FALSE
        /\ notif' = 0 /\ draining' = 0
        /\ UNCHANGED <<q, ppc, startEmpty>>

OtherStep == Others /\ UNCHANGED <<mainPc, draining, startEmpty>>

Threads == ThreadSetup \/ ThreadReceive \/ ThreadEnd

Next == MainSetup \/ Threads \/ Fail \/ OtherStep

Spec == Init /\ [][Next]_vars

-----------------------------------------------------------------------------
TypeOK == /\ QueueTypeOK
          /\ mainPc \in {"setup", "pause", "exited", "failed"}
          /\ draining \in Nat
          /\ startEmpty \in BOOLEAN

\* Registering is a token: exactly one of the registration, a thread that
\* has not yet registered and main before its setup holds it (lines 36, 57
\* and 78), whatever threads are still draining; a process that has ended
\* leaves no registration behind.
Token == IF mainPc \in {"exited", "failed"} THEN ~reg
         ELSE (IF reg THEN 1 ELSE 0) + notif + (IF mainPc = "setup" THEN 1 ELSE 0) = 1

\* No thread ever meets EBUSY, which would end the process.
NeverBusy == mainPc # "exited"

\* No lost wake-up (lines 36-39): while messages are queued some thread is
\* there to take them, if the queue was empty when main registered.
AttendedQueue ==
    startEmpty /\ mainPc = "pause" /\ q # {} => notif > 0 \/ draining > 0

\* What the proofs of the three properties rest on.
IndInv == TypeOK /\ NeverBusy /\ Token /\ AttendedQueue

\* Every queued message leaves the queue.
Drained == (q # {} /\ mainPc = "pause") ~> (q = {} \/ ~startEmpty \/ mainPc = "failed")
=============================================================================
