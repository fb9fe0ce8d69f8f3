----------------------------- MODULE QueueTools -----------------------------
(***************************************************************************)
(* The tools of posix_message_queues/ on one queue name: pmsg_create,      *)
(* pmsg_send, pmsg_receive, pmsg_getattr and pmsg_unlink, each run by its  *)
(* own processes of one unprivileged user.  Queues are the kernel's: a     *)
(* name leads to a queue, unlinking removes the name and not the queue,    *)
(* and messages leave in the order of their priorities, then of their      *)
(* arrival.  A message is named by its sender.                             *)
(***************************************************************************)
EXTENDS Integers, FiniteSets, SequencesExt

CONSTANTS QCreators, QSenders, QReceivers, QGetters, QUnlinkers,
          QNonBlock,    \* the processes started with -n
          Attrs,        \* [maxmsg, msgsize] given to pmsg_create
          Perms,        \* the octal-perms argument as digits, <<>> if absent
          Prio,         \* Prio[s]: the priority pmsg_send s gives
          Length,       \* Length[s]: the length of its message
          MaxQueues     \* bound: queues made

Users == QSenders \cup QReceivers \cup QGetters
Procs == QCreators \cup Users \cup QUnlinkers

VARIABLES pc,           \* pc[p]: "start", "opened", "blocked", "received",
                        \* "done", "failed"; "denied": open failed with EACCES;
                        \* "lost": write() failed after mq_receive()
          name,         \* the queue of the name, 0 for none
          queues,       \* the queues made: [attr, perms, mode, msgs]
          mq,           \* mq[p]: the queue p has opened
          got           \* got[p]: the sender of what p received, or p itself;
                        \* for pmsg_getattr the number of messages

vars == <<pc, name, queues, mq, got>>

Init == /\ pc = [p \in Procs |-> "start"]
        /\ name = 0 /\ queues = <<>>
        /\ mq = [p \in Procs |-> 0]
        /\ got = [p \in Procs |-> p]

Move(p, to) == pc' = [pc EXCEPT ![p] = to]

-----------------------------------------------------------------------------
(* Permissions.  The owner's bits are the third octal digit of a mode.     *)

Number(digits, base) == FoldLeft(LAMBDA n, d : base * n + d, 0, digits)

OwnerBits(mode) == LET digit == (mode \div 64) % 8
                   IN (IF digit >= 4 THEN {"r"} ELSE {})
                      \cup (IF (digit \div 2) % 2 = 1 THEN {"w"} ELSE {})

\* S_IRUSR | S_IWUSR without an argument, otherwise atoi() of it.
ModeOf(digits) == IF digits = <<>> THEN 384 ELSE Number(digits, 10)

MayOpen(need) == need \subseteq OwnerBits(queues[name].mode)

-----------------------------------------------------------------------------
(* pmsg_create [-cx] [-m maxmsg] [-s msgsize] name [octal-perms]           *)

CreateOld(p, c, x) ==
    /\ p \in QCreators /\ pc[p] = "start" /\ name # 0
    /\ IF c /\ x THEN Move(p, "failed") /\ UNCHANGED mq
       ELSE IF ~MayOpen({"r", "w"}) THEN Move(p, "denied") /\ UNCHANGED mq
       ELSE Move(p, "done") /\ mq' = [mq EXCEPT ![p] = name]
    /\ UNCHANGED <<name, queues, got>>

\* mq_open() refuses attributes that are not positive (EINVAL).
CreateNew(p, c, attr, perms) ==
    /\ p \in QCreators /\ pc[p] = "start" /\ name = 0
    /\ IF ~c \/ attr.maxmsg <= 0 \/ attr.msgsize <= 0
       THEN Move(p, "failed") /\ UNCHANGED <<name, queues, mq>>
       ELSE /\ Len(queues) < MaxQueues
            /\ queues' = Append(queues, [attr |-> attr, perms |-> perms,
                                         mode |-> ModeOf(perms), msgs |-> <<>>])
            /\ name' = Len(queues')
            /\ mq' = [mq EXCEPT ![p] = name']
            /\ Move(p, "done")
    /\ UNCHANGED got

-----------------------------------------------------------------------------
(* The other tools open the queue and do one thing.                        *)

Open(p) == /\ p \in Users /\ pc[p] = "start"
           /\ IF name = 0 THEN Move(p, "failed") /\ UNCHANGED mq
              ELSE IF ~MayOpen(IF p \in QSenders THEN {"w"} ELSE {"r"})
              THEN Move(p, "denied") /\ UNCHANGED mq
              ELSE Move(p, "opened") /\ mq' = [mq EXCEPT ![p] = name]
           /\ UNCHANGED <<name, queues, got>>

\* The message goes behind those of its own or a higher priority.
Before(msgs, s) == {i \in 1..Len(msgs) : Prio[msgs[i]] >= Prio[s]}
Insert(msgs, s) == InsertAt(msgs, Cardinality(Before(msgs, s)) + 1, s)

Msgs(p) == queues[mq[p]].msgs
SetMsgs(p, msgs) == queues' = [queues EXCEPT ![mq[p]].msgs = msgs]
Blocked(P, p) == {r \in P : pc[r] = "blocked" /\ mq[r] = mq[p]}

\* A pmsg_send that does not look at what mq_send() returned.
SendUnchecked(p) ==
    /\ p \in QSenders /\ pc[p] = "opened"
    /\ IF Length[p] > queues[mq[p]].attr.msgsize
       THEN Move(p, "done") /\ UNCHANGED <<queues, got>>
       ELSE IF Len(Msgs(p)) = queues[mq[p]].attr.maxmsg
       THEN Move(p, IF p \in QNonBlock THEN "done" ELSE "blocked") /\ UNCHANGED <<queues, got>>
       ELSE IF Blocked(QReceivers, p) # {}
       THEN \E r \in Blocked(QReceivers, p) :
              /\ pc' = [pc EXCEPT ![p] = "done", ![r] = "received"]
              /\ got' = [got EXCEPT ![r] = p]
              /\ UNCHANGED queues
       ELSE /\ SetMsgs(p, Insert(Msgs(p), p))
            /\ Move(p, "done") /\ UNCHANGED got
    /\ UNCHANGED <<name, mq>>

\* mq_send(): EMSGSIZE, a full queue, a waiting receiver, or into the queue.
Send(p) ==
    /\ p \in QSenders /\ pc[p] = "opened"
    /\ IF Length[p] > queues[mq[p]].attr.msgsize
       THEN Move(p, "failed") /\ UNCHANGED <<queues, got>>
       ELSE IF Len(Msgs(p)) = queues[mq[p]].attr.maxmsg
       THEN Move(p, IF p \in QNonBlock THEN "failed" ELSE "blocked") /\ UNCHANGED <<queues, got>>
       ELSE IF Blocked(QReceivers, p) # {}
       THEN \E r \in Blocked(QReceivers, p) :
              /\ pc' = [pc EXCEPT ![p] = "done", ![r] = "received"]
              /\ got' = [got EXCEPT ![r] = p]
              /\ UNCHANGED queues
       ELSE /\ SetMsgs(p, Insert(Msgs(p), p))
            /\ Move(p, "done") /\ UNCHANGED got
    /\ UNCHANGED <<name, mq>>

\* mq_getattr() for the size of the buffer, then mq_receive(); the message of
\* a blocked sender takes the free place.  The receiver now has the message.
Receive(p) ==
    /\ p \in QReceivers /\ pc[p] = "opened"
    /\ IF Msgs(p) = <<>>
       THEN /\ Move(p, IF p \in QNonBlock THEN "failed" ELSE "blocked")
            /\ UNCHANGED <<queues, got>>
       ELSE /\ got' = [got EXCEPT ![p] = Head(Msgs(p))]
            /\ IF Blocked(QSenders, p) = {}
               THEN SetMsgs(p, Tail(Msgs(p))) /\ Move(p, "received")
               ELSE \E s \in Blocked(QSenders, p) :
                      /\ SetMsgs(p, Insert(Tail(Msgs(p)), s))
                      /\ pc' = [pc EXCEPT ![p] = "received", ![s] = "done"]
    /\ UNCHANGED <<name, mq>>

\* The message is written to standard output; if that fails the tool exits with
\* failure, and the message, which has left the queue, is lost.
Write(p) == /\ p \in QReceivers /\ pc[p] = "received"
            /\ \E to \in {"done", "lost"} : Move(p, to)
            /\ UNCHANGED <<name, queues, mq, got>>

GetAttr(p) == /\ p \in QGetters /\ pc[p] = "opened"
              /\ got' = [got EXCEPT ![p] = Len(Msgs(p))]
              /\ Move(p, "done")
              /\ UNCHANGED <<name, queues, mq>>

Unlink(p) == /\ p \in QUnlinkers /\ pc[p] = "start"
             /\ Move(p, IF name = 0 THEN "failed" ELSE "done")
             /\ name' = 0
             /\ UNCHANGED <<queues, mq, got>>

Tool(p) == \/ \E c, x \in BOOLEAN : CreateOld(p, c, x)
           \/ \E c \in BOOLEAN, a \in Attrs, d \in Perms : CreateNew(p, c, a, d)
           \/ Open(p) \/ Send(p) \/ Receive(p) \/ Write(p) \/ GetAttr(p) \/ Unlink(p)

Next == \E p \in Procs : Tool(p)

Spec == Init /\ [][Next]_vars

-----------------------------------------------------------------------------
Queue == [attr : [maxmsg : Nat \ {0}, msgsize : Nat \ {0}], perms : Perms,
          mode : {ModeOf(d) : d \in Perms}, msgs : Seq(QSenders)]

TypeOK == /\ pc \in [Procs -> {"start", "opened", "blocked", "received", "done", "failed",
                            "denied", "lost"}]
          /\ queues \in Seq(Queue) /\ Len(queues) <= MaxQueues
          /\ name \in 0..Len(queues)
          /\ mq \in [Procs -> 0..Len(queues)]
          /\ got \in [Procs -> Procs \cup Nat]

Sent(i) == {s \in QSenders : pc[s] = "done" /\ mq[s] = i}
Took(r) == pc[r] \in {"received", "done", "lost"}
Received(i) == {r \in QReceivers : Took(r) /\ mq[r] = i}
Got(i) == {got[r] : r \in Received(i)}
Waiting(i) == {p \in Procs : pc[p] = "blocked" /\ mq[p] = i}

\* What is sent to a queue is in it or was received from it, once.
SentOnce(i, msgs) ==
    /\ Sent(i) = ToSet(msgs) \cup Got(i)
    /\ \A r, t \in Received(i) : got[r] = got[t] => r = t
    /\ \A r \in Received(i) : got[r] \notin ToSet(msgs)

Ordered(msgs) == \A a, b \in 1..Len(msgs) : a < b => Prio[msgs[a]] >= Prio[msgs[b]]

\* Who waits has a reason to.
WaitsForCause(i, msgs) == \A p \in Waiting(i) :
    IF p \in QReceivers THEN msgs = <<>> ELSE Len(msgs) = queues[i].attr.maxmsg

\* Every message sent with success is in its queue or was taken from it by
\* mq_receive(), once and from the queue it was sent to, also when the name
\* was removed or given to a new queue in between (pmsg_send.c 32-45, pmsg_
\* receive.c 34-55, pmsg_unlink.c 13); nobody waits for what is there, and a
\* queue keeps to its limits and to the order of priorities.
DeliveredFrom(i) == LET msgs == queues[i].msgs IN
    /\ SentOnce(i, msgs) /\ Ordered(msgs) /\ WaitsForCause(i, msgs)
    /\ Len(msgs) <= queues[i].attr.maxmsg

\* A receiver that exits with failure has taken no message, unless write()
\* failed after mq_receive() (pmsg_receive.c 52-61): only then is one lost.
LostOnlyByWrite == \A r \in QReceivers : Took(r) \/ got[r] = r

Delivered == (\A i \in 1..Len(queues) : DeliveredFrom(i)) /\ LostOnlyByWrite

\* No message is in a queue twice.
Once(msgs) == \A a, b \in 1..Len(msgs) : msgs[a] = msgs[b] => a = b

\* Who is at work has opened a queue; only senders and receivers wait.
OpenInv == \A p \in Procs :
    /\ pc[p] \in {"opened", "blocked"} => p \in Users /\ mq[p] > 0
    /\ pc[p] = "blocked" => p \notin QGetters

\* What the proof of Delivered rests on.
IndInv == /\ TypeOK /\ OpenInv /\ Delivered
          /\ \A i \in 1..Len(queues) : Once(queues[i].msgs)

\* "[octal-perms]" (pmsg_create.c line 14, psem_create.c line 12, pshm_create.c
\* line 14): the owner of a queue has the rights the octal argument says.
PermsAsWritten == \A i \in 1..Len(queues) : queues[i].perms # <<>> =>
    OwnerBits(queues[i].mode) = OwnerBits(Number(queues[i].perms, 8))
=============================================================================
