--------------------------- MODULE MqNotifySignal ---------------------------
(***************************************************************************)
(* posix_message_queues/mq_notify_signal.c: a process that is told by      *)
(* SIGUSR1 that a message has arrived, registers again and drains the      *)
(* queue.  The signal is blocked except in sigsuspend().  Any process may  *)
(* send SIGUSR1 too (signals/sig_sender.c does).                           *)
(***************************************************************************)
EXTENDS MessageQueue

CONSTANTS MaxStray,     \* bound: signals sent by other processes
          MayFail       \* may another call of the program fail?

VARIABLES pc,           \* "register", "suspend", "reregister", "drain", "exited"
                        \* (by EBUSY) or "failed" (by another error)
          stray,        \* a signal that is not a notification is pending
          strays,       \* how many of them were sent
          startEmpty    \* history: was the queue empty at the first mq_notify?

vars == <<q, ppc, reg, notif, pc, stray, strays, startEmpty>>

Init == /\ QueueInit
        /\ pc = "register"
        /\ stray = FALSE /\ strays = 0
        /\ startEmpty = TRUE

\* mq_notify() fails with EBUSY while a process, this one too, is registered.
\* The program exits then, and its registration goes with it.
MqNotify(next) == /\ pc' = IF reg THEN "exited" ELSE next
                  /\ reg' = ~reg

Register == /\ pc = "register"
            /\ MqNotify("suspend")
            /\ startEmpty' = (q = {})
            /\ UNCHANGED <<q, ppc, notif, stray, strays>>

\* A pending SIGUSR1 is one signal, however often it was sent.
Sigsuspend == /\ pc = "suspend"
              /\ notif > 0 \/ stray
              /\ notif' = 0 /\ stray' = FALSE
              /\ pc' = "reregister"
              /\ UNCHANGED <<q, ppc, reg, strays, startEmpty>>

Reregister == /\ pc = "reregister"
              /\ MqNotify("drain")
              /\ UNCHANGED <<q, ppc, notif, stray, strays, startEmpty>>

DrainOne == /\ pc = "drain"
            /\ IF q # {} THEN (\E m \in q : Take(m, ppc)) /\ pc' = "suspend"
               ELSE pc' = "suspend" /\ UNCHANGED <<q, ppc>>
            /\ UNCHANGED <<reg, notif, stray, strays, startEmpty>>

\* mq_receive() in the loop of line 94, until it fails with EAGAIN.
Drain == /\ pc = "drain"
         /\ IF q # {} THEN (\E m \in q : Take(m, ppc)) /\ UNCHANGED pc
            ELSE pc' = "suspend" /\ UNCHANGED <<q, ppc>>
         /\ UNCHANGED <<reg, notif, stray, strays, startEmpty>>

\* A call of the start-up fails, or mq_receive() with another error than
\* EAGAIN: the program exits and its registration is gone.
Fail == /\ MayFail /\ pc \in {"register", "drain"}
        /\ pc' = "failed"
        /\ reg' = FALSE
        /\ UNCHANGED <<q, ppc, notif, stray, strays, startEmpty>>

StraySignal == /\ strays < MaxStray
               /\ pc \notin {"register", "exited", "failed"}
               /\ stray' = TRUE /\ strays' = strays + 1
               /\ UNCHANGED <<queueVars, pc, startEmpty>>

Program == Register \/ Sigsuspend \/ Reregister \/ Drain

OtherStep == Others /\ UNCHANGED <<pc, stray, strays, startEmpty>>

Next == Program \/ Fail \/ OtherStep \/ StraySignal

Spec == Init /\ [][Next]_vars

-----------------------------------------------------------------------------
TypeOK == /\ QueueTypeOK
          /\ pc \in {"register", "suspend", "reregister", "drain", "exited", "failed"}
          /\ stray \in BOOLEAN
          /\ strays \in 0..MaxStray
          /\ startEmpty \in BOOLEAN

\* Without stray signals the program never meets EBUSY: it registers only
\* after its registration was used up (lines 87-92).
NeverBusy == strays = 0 => pc # "exited"

\* No lost wake-up (lines 87-95): a program that sleeps with no signal
\* pending has left no message behind, if the queue was empty when it first
\* registered.
SleepsOnEmpty ==
    startEmpty /\ pc = "suspend" /\ notif = 0 /\ ~stray => q = {}

\* While it sleeps or drains, the program is registered or has a notification
\* coming; without stray signals it has exactly one of the two.
TokenInv ==
    /\ pc \in {"suspend", "drain"} => reg \/ notif > 0
    /\ strays = 0 => /\ ~stray
                     /\ pc \in {"suspend", "drain"} => IF reg THEN notif = 0 ELSE notif = 1
                     /\ pc \in {"register", "reregister"} => ~reg /\ notif = 0

\* What the proofs of NeverBusy and SleepsOnEmpty rest on.
IndInv == TypeOK /\ TokenInv /\ NeverBusy /\ SleepsOnEmpty

\* Every message that is queued leaves the queue (lines 86-101), if the queue
\* was empty at the first registration and no stray signal or error ends the
\* program.
HasMessage == q # {} /\ pc # "register"
DrainedOrExcused == q = {} \/ ~startEmpty \/ strays > 0 \/ pc = "failed"
=============================================================================
