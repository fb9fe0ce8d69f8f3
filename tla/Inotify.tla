------------------------------- MODULE Inotify -------------------------------
(***************************************************************************)
(* inotify/inotify_demo.c: the program watches its files and prints the    *)
(* events that read() returns, walking a buffer of records of different    *)
(* lengths.  The event queue is the kernel's: bounded, with one overflow   *)
(* event for everything that did not fit, and with equal neighbours made   *)
(* one.  A header is one unit long, a name NameLen units.                  *)
(***************************************************************************)
EXTENDS Integers, SequencesExt

CONSTANTS NumFiles,     \* argc - 1
          Masks,        \* what can happen to a file
          Named,        \* the files whose events have a name (directories)
          NameLen,      \* NAME_MAX + 1, in units
          BufLen,       \* BUF_LEN
          MaxQueued,    \* max_queued_events
          MaxEvents     \* bound: events that happen

VARIABLES pc,           \* "watch", "read", "walk" or "failed"
          j,            \* the files before j are watched
          queue,        \* the kernel's queue
          buf,          \* what read() returned, one element per unit
          p,            \* the position of the walk in buf
          happened,     \* events so far
          accepted,     \* history: the events the kernel queued
          shown         \* the events displayed

vars == <<pc, j, queue, buf, p, happened, accepted, shown>>

Overflow == [wd |-> 0, mask |-> "IN_Q_OVERFLOW", len |-> 0]
Pad == [wd |-> 0, mask |-> "name", len |-> 0]    \* a unit of a name

Init == /\ pc = "watch" /\ j = 1
        /\ queue = <<>> /\ buf = <<>> /\ p = 0
        /\ happened = 0 /\ accepted = <<>> /\ shown = <<>>

Watch == /\ pc = "watch" /\ j <= NumFiles
         /\ j' = j + 1
         /\ pc' = IF j' > NumFiles THEN "read" ELSE "watch"
         /\ UNCHANGED <<queue, buf, p, happened, accepted, shown>>

WatchFails == /\ pc = "watch" /\ j <= NumFiles
              /\ pc' = "failed"
              /\ UNCHANGED <<j, queue, buf, p, happened, accepted, shown>>

\* The kernel: something happens to a watched file.
Event(f, m) == [wd |-> f, mask |-> m, len |-> IF f \in Named THEN NameLen ELSE 0]

Happens(f, m) ==
    LET e == IF Len(queue) < MaxQueued THEN Event(f, m) ELSE Overflow
        merged == queue # <<>> /\ (\/ queue[Len(queue)] = e
                                   \/ e = Overflow /\ Contains(queue, e))
    IN /\ f < j /\ happened < MaxEvents
       /\ happened' = happened + 1
       /\ queue' = IF merged THEN queue ELSE Append(queue, e)
       /\ accepted' = IF merged THEN accepted ELSE Append(accepted, e)
       /\ UNCHANGED <<pc, j, buf, p, shown>>

\* Records lie one after the other, a header and its name each: where they end
\* in a buffer whose first `from' units are something else.
Ends(es, from) == LET end[i \in 0..Len(es)] ==
                          IF i = 0 THEN from ELSE end[i - 1] + 1 + es[i].len
                  IN end

\* The unit u of a buffer that holds n of the events es.
Unit(es, n, u) == IF \E i \in 1..n : u = Ends(es, 0)[i - 1] + 1
                  THEN es[CHOOSE i \in 1..n : u = Ends(es, 0)[i - 1] + 1] ELSE Pad

\* read() blocks without events, and returns as many whole ones as fit.
Read == /\ pc = "read" /\ queue # <<>>
        /\ \E n \in 1..Len(queue) :
             LET end == Ends(queue, 0)
             IN /\ end[n] <= BufLen /\ (n < Len(queue) => end[n + 1] > BufLen)
                /\ buf' = [u \in 1..end[n] |-> Unit(queue, n, u)]
                /\ queue' = SubSeq(queue, n + 1, Len(queue))
        /\ p' = 0 /\ pc' = "walk"
        /\ UNCHANGED <<j, happened, accepted, shown>>

\* What is printed stands for the event: its mask bits, and its name if any.
displayInotifyEvent(e) == shown' = Append(shown, e)

DisplayHeaderOnly ==
        /\ pc = "walk" /\ p < Len(buf)
        /\ displayInotifyEvent(buf[p + 1])
        /\ p' = p + 1
        /\ UNCHANGED <<pc, j, queue, buf, happened, accepted>>

\* p += sizeof(struct inotify_event) + event->len.
Display == /\ pc = "walk" /\ p < Len(buf)
           /\ displayInotifyEvent(buf[p + 1])
           /\ p' = p + 1 + buf[p + 1].len
           /\ UNCHANGED <<pc, j, queue, buf, happened, accepted>>

Displayed == /\ pc = "walk" /\ p >= Len(buf)
             /\ pc' = "read" /\ buf' = <<>> /\ p' = 0
             /\ UNCHANGED <<j, queue, happened, accepted, shown>>

Program == Watch \/ Read \/ Display \/ Displayed

Next == Program \/ WatchFails \/ \E f \in 1..NumFiles, m \in Masks : Happens(f, m)

Spec == Init /\ [][Next]_vars

-----------------------------------------------------------------------------
Events == [wd : 0..NumFiles, mask : Masks \cup {"IN_Q_OVERFLOW"}, len : {0, NameLen}]

\* The queue is never longer than its limit and the overflow event.
TypeOK == /\ pc \in {"watch", "read", "walk", "failed"}
          /\ j \in 1..NumFiles + 1
          /\ Len(buf) <= BufLen /\ p \in 0..Len(buf)
          /\ Len(queue) <= MaxQueued + 1

\* Read but not shown: what the walk has before it.
Unshown == SubSeq(accepted, Len(shown) + 1, Len(accepted) - Len(queue))

\* "process all events in buffer returned by read()" (lines 89-96): the walk is
\* at the start of a record and its steps lead to the end of the buffer, and
\* every event the kernel queued is displayed once and in order, whatever
\* arrives between two reads.
EventsShown ==
    /\ accepted = shown \o Unshown \o queue
    /\ Ends(Unshown, p)[Len(Unshown)] = Len(buf)
    /\ \A i \in 1..Len(Unshown) : buf[Ends(Unshown, p)[i - 1] + 1] = Unshown[i]

QueueInv == /\ accepted \in Seq(Events) /\ queue \in Seq(Events) /\ shown \in Seq(Events)
            /\ Len(queue) = MaxQueued + 1 => queue[Len(queue)] = Overflow
            /\ pc # "walk" => buf = <<>> /\ p = 0

IndInv == TypeOK /\ QueueInv /\ EventsShown
=============================================================================
