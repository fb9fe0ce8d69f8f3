----------------------------- MODULE EpollInput -----------------------------
(***************************************************************************)
(* alternative_io/epoll_input.c on FIFOs: the program opens its files one  *)
(* after the other, waits for events with epoll_wait(), reads from what    *)
(* has input and closes what only hung up.  The events are a snapshot: the *)
(* writers go on while the program works through it.  FIFOs and epoll are  *)
(* the kernel's; bytes are counted in units.                               *)
(***************************************************************************)
EXTENDS Integers, FiniteSets

CONSTANTS NumFiles,     \* argc - 1
          MaxEvents,    \* MAX_EVENTS
          MaxBuf,       \* MAX_BUF
          MaxWritten,   \* bound: units written to a file
          MaxLives      \* bound: how often the writer of a file opens it

ASSUME EpollAssumption == /\ NumFiles \in Nat \ {0} /\ MaxEvents \in Nat \ {0}
                          /\ MaxBuf \in Nat \ {0} /\ MaxWritten \in Nat
                          /\ MaxLives \in Nat

Files == 1..NumFiles

VARIABLES pc,           \* "open", "wait", "handle" or "done"
          j,            \* the files before j have been opened
          evlist,       \* the events still to be handled
          open,         \* the descriptors that are open
          numOpenFds,
          writer,       \* writer[f]: does a writer have f open?
          lives,        \* lives[f]: how often it opened f
          written,      \* written[f]: units written
          consumed      \* consumed[f]: units read

vars == <<pc, j, evlist, open, numOpenFds, writer, lives, written, consumed>>
writerVars == <<writer, lives, written>>

Data(f) == written[f] - consumed[f]
HangUp(f) == ~writer[f]

Init == /\ pc = "open" /\ j = 1
        /\ evlist = {} /\ open = {} /\ numOpenFds = 0
        /\ writer = [f \in Files |-> FALSE]
        /\ lives = [f \in Files |-> 0]
        /\ written = [f \in Files |-> 0]
        /\ consumed = [f \in Files |-> 0]

\* open(argv[j]) returns when a writer opens the file too; EPOLL_CTL_ADD.
Open == /\ pc = "open" /\ j <= NumFiles
        /\ lives[j] < MaxLives
        /\ writer' = [writer EXCEPT ![j] = TRUE]
        /\ lives' = [lives EXCEPT ![j] = @ + 1]
        /\ open' = open \cup {j}
        /\ j' = j + 1
        /\ UNCHANGED <<pc, evlist, numOpenFds, written, consumed>>

OpenedAll == /\ pc = "open" /\ j > NumFiles
             /\ numOpenFds' = NumFiles
             /\ pc' = "wait"
             /\ UNCHANGED <<j, evlist, open, writerVars, consumed>>

Ready == {f \in open : Data(f) > 0 \/ HangUp(f)}
Event(f) == [fd |-> f, in |-> Data(f) > 0, hup |-> HangUp(f)]

\* At most MAX_EVENTS of the ready descriptors; EINTR only repeats the call.
EpollWait == /\ pc = "wait" /\ numOpenFds > 0
             /\ Ready # {}
             /\ \E S \in SUBSET Ready :
                  /\ S # {} /\ Cardinality(S) <= MaxEvents
                  /\ S = Ready \/ Cardinality(S) = MaxEvents
                  /\ evlist' = {Event(f) : f \in S}
             /\ pc' = "handle"
             /\ UNCHANGED <<j, open, numOpenFds, writerVars, consumed>>

ReadBoth(e) == /\ pc = "handle" /\ e \in evlist /\ e.in
               /\ consumed' = [consumed EXCEPT ![e.fd] =
                       @ + (IF Data(e.fd) < MaxBuf THEN Data(e.fd) ELSE MaxBuf)]
               /\ open' = IF e.hup THEN open \ {e.fd} ELSE open
               /\ numOpenFds' = IF e.hup THEN numOpenFds - 1 ELSE numOpenFds
               /\ evlist' = evlist \ {e}
               /\ UNCHANGED <<pc, j, writerVars>>

ReadAgain(e) == /\ pc = "handle" /\ e \in evlist /\ e.in
                /\ consumed' = [consumed EXCEPT ![e.fd] =
                       @ + (IF Data(e.fd) < MaxBuf THEN Data(e.fd) ELSE MaxBuf)]
                /\ UNCHANGED <<pc, j, evlist, open, numOpenFds, writerVars>>

\* read() takes what is there, at most MAX_BUF, even if the writer hung up.
HandleIn(e) == /\ pc = "handle" /\ e \in evlist /\ e.in
               /\ consumed' = [consumed EXCEPT ![e.fd] =
                       @ + (IF Data(e.fd) < MaxBuf THEN Data(e.fd) ELSE MaxBuf)]
               /\ evlist' = evlist \ {e}
               /\ UNCHANGED <<pc, j, open, numOpenFds, writerVars>>

HangupMiscount(e) ==
                /\ pc = "handle" /\ e \in evlist /\ ~e.in
                /\ open' = open \ {e.fd}
                /\ evlist' = evlist \ {e}
                /\ UNCHANGED <<pc, j, numOpenFds, writerVars, consumed>>

\* Only a hang-up without input closes the descriptor.
HandleHup(e) == /\ pc = "handle" /\ e \in evlist /\ ~e.in
                /\ open' = open \ {e.fd}
                /\ numOpenFds' = numOpenFds - 1
                /\ evlist' = evlist \ {e}
                /\ UNCHANGED <<pc, j, writerVars, consumed>>

HandledAll == /\ pc = "handle" /\ evlist = {}
              /\ pc' = IF numOpenFds > 0 THEN "wait" ELSE "done"
              /\ UNCHANGED <<j, evlist, open, numOpenFds, writerVars, consumed>>

-----------------------------------------------------------------------------
(* The writers.  A later writer of the same FIFO is a new life.            *)

WriterOpen(f) == /\ f \in open /\ ~writer[f] /\ lives[f] < MaxLives
                 /\ writer' = [writer EXCEPT ![f] = TRUE]
                 /\ lives' = [lives EXCEPT ![f] = @ + 1]
                 /\ UNCHANGED <<pc, j, evlist, open, numOpenFds, written, consumed>>

Write(f) == /\ f \in open /\ writer[f] /\ written[f] < MaxWritten
            /\ written' = [written EXCEPT ![f] = @ + 1]
            /\ UNCHANGED <<pc, j, evlist, open, numOpenFds, writer, lives, consumed>>

WriterClose(f) == /\ writer[f]
                  /\ writer' = [writer EXCEPT ![f] = FALSE]
                  /\ UNCHANGED <<pc, j, evlist, open, numOpenFds, lives, written, consumed>>

-----------------------------------------------------------------------------
Program == \/ Open \/ OpenedAll \/ EpollWait \/ HandledAll
           \/ \E e \in evlist : HandleIn(e) \/ HandleHup(e)

Next == Program \/ \E f \in Files : WriterOpen(f) \/ Write(f) \/ WriterClose(f)

Spec == Init /\ [][Next]_vars

-----------------------------------------------------------------------------
TypeOK == /\ pc \in {"open", "wait", "handle", "done"}
          /\ j \in 1..NumFiles + 1
          /\ evlist \subseteq [fd : Files, in : BOOLEAN, hup : BOOLEAN]
          /\ open \subseteq Files
          /\ numOpenFds \in Int
          /\ writer \in [Files -> BOOLEAN]
          /\ lives \in [Files -> Nat]
          /\ written \in [Files -> Nat]
          /\ consumed \in [Files -> Nat]
          /\ \A f \in Files : consumed[f] <= written[f]

\* numOpenFds counts the open descriptors, so the loop of line 59 ends
\* exactly when all of them are closed, and a snapshot never names a
\* descriptor that was closed or names it twice (lines 75-99).
CountsOpen == pc # "open" =>
    /\ numOpenFds = Cardinality(open)
    /\ \A e \in evlist : e.fd \in open
    /\ \A e, f \in evlist : e.fd = f.fd => e = f

\* Input seen by the snapshot is still there when it is handled: read() at
\* line 82 never blocks and never returns 0.
ReadsSomething == \A e \in evlist : e.in => Data(e.fd) > 0

\* A hang-up without input is final while the file has had one writer.
HangUpIsFinal == \A e \in evlist : ~e.in /\ lives[e.fd] <= 1 =>
    ~writer[e.fd] /\ Data(e.fd) = 0

\* The snapshot is never stale: what the loop of lines 75-99 takes from it is
\* still so when it is handled.
SnapshotValid == TypeOK /\ CountsOpen /\ ReadsSomething /\ HangUpIsFinal

\* "This ensures that all the outstanding input ... is consumed ... before
\* the file descriptor is closed" (line 91).  It holds for a file that was
\* opened for writing once; a writer that comes back between epoll_wait() and
\* close() loses what it writes.
AllConsumed == \A f \in Files :
    f < j /\ f \notin open /\ lives[f] <= 1 => Data(f) = 0

\* While files are being opened, those before j are open and nothing else has
\* happened; each of them has had a writer.
Opening == /\ IF pc = "open" THEN open = 1..j - 1 /\ evlist = {} ELSE j = NumFiles + 1
           /\ \A f \in Files : f < j => lives[f] >= 1
           /\ \A f \in Files : f >= j => lives[f] = 0

\* What the proofs of SnapshotValid and AllConsumed rest on.
IndInv == SnapshotValid /\ AllConsumed /\ Opening

\* "All file descriptors closed; bye" (line 102): when every writer is done,
\* the program reads everything, closes everything and ends.
Terminates == (pc = "wait") ~> (pc = "done")
=============================================================================
