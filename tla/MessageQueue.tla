---------------------------- MODULE MessageQueue ----------------------------
(***************************************************************************)
(* A POSIX message queue as the programs of posix_message_queues use it:   *)
(* pmsg_send and pmsg_receive processes, each sending or receiving one     *)
(* message, and one process that may be registered with mq_notify().  The  *)
(* queue is the kernel's.  A message is named by its sender; which of the  *)
(* queued messages a receiver gets (the priorities) is left open.          *)
(***************************************************************************)
EXTENDS Integers, FiniteSets

CONSTANTS Senders,      \* pmsg_send processes
          Receivers,    \* pmsg_receive processes
          NonBlock,     \* those started with -n (O_NONBLOCK)
          MaxMsg        \* mq_maxmsg of the queue

ASSUME QueueAssumption == /\ MaxMsg \in Nat \ {0}
                          /\ Senders \cap Receivers = {}

VARIABLES q,            \* the messages in the queue
          ppc,          \* ppc[p]: where process p is
          reg,          \* is a process registered for notification?
          notif         \* notifications sent and not yet acted upon

queueVars == <<q, ppc, reg, notif>>

Procs == Senders \cup Receivers
BlockedSenders == {s \in Senders : ppc[s] = "blocked"}
BlockedReceivers == {r \in Receivers : ppc[r] = "blocked"}

QueueInit == /\ q = {}
             /\ ppc = [p \in Procs |-> "start"]
             /\ reg = FALSE
             /\ notif = 0

\* The kernel notifies once, when a message arrives at an empty queue, and
\* removes the registration.
NotifyOnArrival == IF q = {} /\ reg
                     THEN reg' = FALSE /\ notif' = notif + 1
                     ELSE UNCHANGED <<reg, notif>>

\* mq_send() by pmsg_send: to a full queue it fails or blocks, to a waiting
\* receiver the message is handed directly, else it is queued.
Send(s) ==
    /\ ppc[s] = "start"
    /\ IF Cardinality(q) = MaxMsg
         THEN /\ ppc' = [ppc EXCEPT ![s] = IF s \in NonBlock THEN "failed" ELSE "blocked"]
              /\ UNCHANGED <<q, reg, notif>>
         ELSE IF BlockedReceivers # {}
         THEN \E r \in BlockedReceivers :
                /\ ppc' = [ppc EXCEPT ![s] = "done", ![r] = "done"]
                /\ UNCHANGED <<q, reg, notif>>
         ELSE /\ q' = q \cup {s}
              /\ ppc' = [ppc EXCEPT ![s] = "done"]
              /\ NotifyOnArrival

\* Message m leaves the queue; the message of a blocked sender takes its
\* place, without a notification.
Take(m, newPpc) ==
    IF BlockedSenders = {}
      THEN q' = q \ {m} /\ ppc' = newPpc
      ELSE \E s \in BlockedSenders :
             /\ q' = (q \ {m}) \cup {s}
             /\ ppc' = [newPpc EXCEPT ![s] = "done"]

\* mq_receive() by pmsg_receive.
Receive(r) ==
    /\ ppc[r] = "start"
    /\ IF q = {}
         THEN /\ ppc' = [ppc EXCEPT ![r] = IF r \in NonBlock THEN "failed" ELSE "blocked"]
              /\ UNCHANGED q
         ELSE \E m \in q : Take(m, [ppc EXCEPT ![r] = "done"])
    /\ UNCHANGED <<reg, notif>>

Others == (\E s \in Senders : Send(s)) \/ (\E r \in Receivers : Receive(r))

QueueTypeOK == /\ q \subseteq Senders
               /\ ppc \in [Procs -> {"start", "blocked", "done", "failed"}]
               /\ reg \in BOOLEAN
               /\ notif \in Nat
=============================================================================
