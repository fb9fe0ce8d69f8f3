------------------------------ MODULE MCAltIo ------------------------------
(***************************************************************************)
(* The programs that wait for input by an event interface, for TLC: epoll, *)
(* signal-driven I/O and inotify.  They share no state: a behaviour is one *)
(* of the program that `program' names.  epoll_input has the variables of  *)
(* EpollInput, which keep their initial values in the other behaviours;    *)
(* the other two use x1, x2, ... as their variables, in the order in which *)
(* their modules declare them.                                             *)
(***************************************************************************)
EXTENDS EpollInput

CONSTANTS Chars, MaxTyped,
          NumWatched, Masks, Named, NameLen, BufLen, MaxQueued, MaxHappened

ASSUME FamilyAssumption == MaxTyped \in Nat
ASSUME WatcherAssumption == /\ NumWatched \in Nat /\ NameLen \in Nat
                            /\ BufLen \in Nat /\ MaxQueued \in Nat

VARIABLES program, x1, x2, x3, x4, x5, x6, x7, x8, x9, x10

Sigio == INSTANCE DemoSigio WITH MayBeKilled <- TRUE, pc <- x1, gotSigio <- x2,
            done <- x3, async <- x4, sigio <- x5, handler <- x6, cbreak <- x7,
            input <- x8, typed <- x9, shown <- x10
Watcher == INSTANCE Inotify WITH NumFiles <- NumWatched, MaxEvents <- MaxHappened,
            pc <- x1, j <- x2, queue <- x3, buf <- x4, p <- x5, happened <- x6,
            accepted <- x7, shown <- x8

all == <<program, vars, x1, x2, x3, x4, x5, x6, x7, x8, x9, x10>>

FamilyInit ==
    /\ Init
    /\ \/ /\ program = "epoll_input"
          /\ x1 = 0 /\ x2 = 0 /\ x3 = 0 /\ x4 = 0 /\ x5 = 0 /\ x6 = 0 /\ x7 = 0
          /\ x8 = 0 /\ x9 = 0 /\ x10 = 0
       \/ program = "demo_sigio" /\ Sigio!Init
       \/ program = "inotify_demo" /\ Watcher!Init /\ x9 = 0 /\ x10 = 0

InEpoll(A) == program = "epoll_input" /\ A
              /\ UNCHANGED <<program, x1, x2, x3, x4, x5, x6, x7, x8, x9, x10>>
InSigio(A) == program = "demo_sigio" /\ A /\ UNCHANGED <<program, vars>>
InWatcher(A) == program = "inotify_demo" /\ A /\ UNCHANGED <<program, vars, x9, x10>>

FamilyNext == InEpoll(Next) \/ InSigio(Sigio!Next) \/ InWatcher(Watcher!Next)

\* The programs run, a pending signal is delivered, and no writer keeps its
\* FIFO open for ever.
Fairness == /\ WF_all(InEpoll(Program))
            /\ \A f \in Files : WF_all(InEpoll(WriterClose(f)))
            /\ WF_all(InSigio(Sigio!Main)) /\ WF_all(InSigio(Sigio!Handle))

FamilySpec == FamilyInit /\ [][FamilyNext]_all /\ Fairness

-----------------------------------------------------------------------------
\* demo_sigio: no character waits without a signal or a flag that leads to it,
\* and the first '#' ends the program with the terminal restored (demo_sigio.c
\* lines 67-84).
SigioReads == program = "demo_sigio" =>
    Sigio!IndInv /\ Sigio!NoStrandedInput /\ Sigio!HashEnds

\* inotify_demo: the walk over the records of a buffer displays every event
\* the kernel queued, once and in order (inotify_demo.c lines 77-96).
EventsShown == program = "inotify_demo" => Watcher!IndInv /\ Watcher!EventsShown

\* Input is attended to: when every writer is done epoll_input reads all,
\* closes all and ends (epoll_input.c line 102), and what is typed for
\* demo_sigio is read unless it ends (demo_sigio.c lines 66-84).
InputAttended ==
    /\ Terminates
    /\ (program = "demo_sigio" /\ Sigio!Waiting) ~> (program = "demo_sigio" /\ Sigio!Attended)
=============================================================================
