---------------------------- MODULE MCProcesses ----------------------------
(***************************************************************************)
(* The programs that make processes or threads, for TLC.  They share no    *)
(* state: a behaviour is one of the program that `program' names.          *)
(* pipe_sync has the variables of PipeSync, which keep their initial       *)
(* values in the other behaviours; the other programs use x1, x2, ... as   *)
(* their variables, in the order in which their modules declare them.      *)
(***************************************************************************)
EXTENDS PipeSync, FiniteSets

CONSTANTS StrLen, BufSize, Capacity, NumLines, MayFail, MayBeKilled, MaxStray,
          Inherited, FlagSets, OpenSets, OpenMax, BD_MAX_CLOSE, PAT_SIZE, Valid, MaxInput

ASSUME FamilyAssumption ==
    /\ StrLen \in Nat /\ BufSize \in Nat /\ Capacity \in Nat \ {0} /\ NumLines \in Nat
    /\ MaxStray \in Nat
    /\ IsFiniteSet(Inherited) /\ Inherited \cap 1..N = {}
    /\ {} \in FlagSets /\ OpenMax \subseteq Nat /\ BD_MAX_CLOSE \in Nat
    /\ PAT_SIZE \in Nat \ {0, 1} /\ MaxInput \in Nat

VARIABLES program, x1, x2, x3, x4, x5, x6, x7, x8, x9

Simple == INSTANCE SimplePipe WITH MayDie <- MayBeKilled, pc <- x1, rd <- x2,
            wr <- x3, left <- x4, pipe <- x5, buf <- x6, out <- x7, lost <- x8
Filter == INSTANCE PipeFilter WITH pc <- x1, fds <- x2, filedes <- x3, pipe <- x4,
            wrote <- x5, count <- x6
SigSync == INSTANCE ForkSync WITH MayDie <- MayBeKilled, parent <- x1, child <- x2,
            blocked <- x3, handler <- x4, pending <- x5, target <- x6, stray <- x7
Multi == INSTANCE MultiWait WITH parent <- x1, j <- x2, kid <- x3, ignored <- x4,
            numDead <- x5
Share == INSTANCE ForkShare WITH Programs <- {"anony_mmap", "fork_file_sharing"},
            MayDie <- MayBeKilled, prog <- x1, parent <- x2, child <- x3,
            shared <- x4, printed <- x5
Cancel == INSTANCE ThreadCancel WITH MayFail <- ForkMayFail, main <- x1,
            thread <- x2, asked <- x3, res <- x4
Become == INSTANCE Daemon WITH Limits <- {-1} \cup OpenMax, pc <- x1, prog <- x2, flags <- x3,
            leads <- x4, session <- x5, tty <- x6, fds <- x7, env <- x8, maxfd <- x9
Popen == INSTANCE PopenGlob WITH PopenMayFail <- ForkMayFail, pc <- x1,
            input <- x2, pat <- x3, len <- x4, history <- x5, ran <- x6

all == <<program, vars, x1, x2, x3, x4, x5, x6, x7, x8, x9>>

from5 == <<x5, x6, x7, x8, x9>>
from6 == <<x6, x7, x8, x9>>
from7 == <<x7, x8, x9>>
from8 == <<x8, x9>>
Zero8 == x8 = 0 /\ x9 = 0
Zero7 == x7 = 0 /\ Zero8
Zero6 == x6 = 0 /\ Zero7
Zero5 == x5 = 0 /\ Zero6

FamilyInit ==
    /\ Init
    /\ \/ /\ program = "pipe_sync"
          /\ x1 = 0 /\ x2 = 0 /\ x3 = 0 /\ x4 = 0 /\ Zero5
       \/ program = "simple_pipe" /\ Simple!Init /\ x9 = 0
       \/ program = "pipe_ls_wc" /\ Filter!Init /\ Zero7
       \/ program = "fork_sig_sync" /\ SigSync!Init /\ Zero8
       \/ program = "multi_wait" /\ Multi!Init /\ Zero6
       \/ program = "fork_share" /\ Share!Init /\ Zero6
       \/ program = "thread_cancel" /\ Cancel!Init /\ Zero5
       \/ program = "become_daemon" /\ Become!Init
       \/ program = "popen_glob" /\ Popen!Init /\ Zero7

In(p, A) == program = p /\ A /\ UNCHANGED <<program, vars>>

InSync(A) == program = "pipe_sync" /\ A
             /\ UNCHANGED <<program, x1, x2, x3, x4, from5>>
InSimple(A) == In("simple_pipe", A) /\ UNCHANGED x9
InFilter(A) == In("pipe_ls_wc", A) /\ UNCHANGED from7
InSigSync(A) == In("fork_sig_sync", A) /\ UNCHANGED from8
InMulti(A) == In("multi_wait", A) /\ UNCHANGED from6
InShare(A) == In("fork_share", A) /\ UNCHANGED from6
InCancel(A) == In("thread_cancel", A) /\ UNCHANGED from5
InBecome(A) == In("become_daemon", A)
InPopen(A) == In("popen_glob", A) /\ UNCHANGED from7

FamilyNext ==
    \/ InSync(Next)
    \/ InSimple(Simple!Next)
    \/ InFilter(Filter!Next)
    \/ InSigSync(SigSync!Next)
    \/ InMulti(Multi!Next)
    \/ InShare(Share!Next)
    \/ InCancel(Cancel!Next)
    \/ InBecome(Become!Next)
    \/ InPopen(Popen!Next)

\* Every process and thread goes on while it can; no call has to fail, nobody
\* has to be killed and no stray signal has to come.
Fairness ==
    /\ WF_all(InSync(Parent)) /\ \A k \in Kids : WF_all(InSync(Kid(k)))
    /\ WF_all(InSimple(Simple!Parent))
    /\ \A p \in Simple!Procs : WF_all(InSimple(Simple!Reader(p)))
    /\ WF_all(InFilter(Filter!Parent))
    /\ WF_all(InFilter(Filter!Ls)) /\ WF_all(InFilter(Filter!Wc))
    /\ WF_all(InSigSync(SigSync!Parent)) /\ WF_all(InSigSync(SigSync!Child))
    /\ WF_all(InMulti(Multi!Parent))
    /\ \A k \in Multi!Children : WF_all(InMulti(Multi!KidEnds(k)))
    /\ WF_all(InShare(Share!Parent)) /\ WF_all(InShare(Share!Child))
    /\ WF_all(InCancel(Cancel!Main)) /\ WF_all(InCancel(Cancel!Thread))
    /\ \A p \in Become!Procs : WF_all(InBecome(Become!Step(p)))

FamilySpec == FamilyInit /\ [][FamilyNext]_all /\ Fairness

-----------------------------------------------------------------------------
\* simple_pipe: a child that ends normally has printed every byte the parent
\* wrote but those of a write it reported as failed, even if the parent was
\* killed in the middle (simple_pipe.c lines 48-57 and 70); and the two never
\* wait for each other (lines 46-76).
AllEchoed == program = "simple_pipe" =>
    Simple!IndInv /\ Simple!AllEchoed /\ Simple!NeverStuck

\* wc counts every line ls wrote, whatever standard descriptors pipe_ls_wc was
\* started with: ls and wc run with exactly the right end of the pipe (pipe_
\* ls_wc.c lines 31-102), and a parent that exits with success waited for both
\* (lines 104-113); and the three never wait for each other.
CountsAll == program = "pipe_ls_wc" =>
    /\ Filter!IndInv /\ Filter!Plumbed /\ Filter!CountsAll /\ Filter!WaitedForBoth
    /\ Filter!NeverStuck

\* fork_sig_sync: a parent that got past sigsuspend() finds the child's work
\* done unless a stranger sent SYNC_SIG, and it never sleeps with the child's
\* signal behind it (fork_sig_sync.c lines 27-73).
AfterWork == program = "fork_sig_sync" =>
    SigSync!IndInv /\ SigSync!AfterWork /\ SigSync!NotLost

\* A parent that waited sees the end of what it waited for: every child of
\* multi_wait was reaped and counted once (multi_wait.c lines 43-56), what
\* the child of anony_mmap or fork_file_sharing left is what is printed, and
\* only an anony_mmap that made no child exits with success without it
\* (anony_mmap.c lines 42-56, fork_file_sharing.c lines 39-70), and the
\* thread of thread_cancel was cancelled (thread_cancel.c lines 40-51).
Collected ==
    /\ program = "multi_wait" => Multi!IndInv /\ Multi!AllReaped
    /\ program = "fork_share" => Share!IndInv /\ Share!PrintsFinal
    /\ program = "thread_cancel" => Cancel!TypeOK /\ Cancel!Joined

\* A process for which becomeDaemon() returned 0 cannot get a controlling
\* terminal, is the only one to return, and keeps no descriptor of its caller
\* below the limit (become_daemon.c lines 23-72).
Detached == program = "become_daemon" => Become!IndInv /\ Become!Detached

\* popen_glob: no command holds a character that is not valid, not even from
\* a line that came in pieces, and patterns that fit are used as typed
\* (popen_glob.c lines 28-50).
RunsWhatWasTyped == program = "popen_glob" => Popen!IndInv /\ Popen!RunsWhatWasTyped

\* All processes end or settle, whoever is killed: nobody keeps an end of a
\* pipe that another waits for, loses the signal another sleeps for, or
\* leaves a child unreaped (pipe_sync.c 46-76, simple_pipe.c 46-76,
\* pipe_ls_wc.c 37-111, fork_sig_sync.c 27-73, multi_wait.c 31-56,
\* anony_mmap.c 28-56, thread_cancel.c 11-51, become_daemon.c 27-72).
AllEnd == <>CASE program = "pipe_sync" -> parent \in {"ready", "gone"}
              [] program = "simple_pipe" -> Simple!AllEnded
              [] program = "pipe_ls_wc" -> Filter!AllEnded
              [] program = "fork_sig_sync" -> SigSync!AllEnded
              [] program = "multi_wait" -> Multi!AllEnded
              [] program = "fork_share" -> Share!AllEnded
              [] program = "thread_cancel" -> Cancel!AllEnded
              [] program = "become_daemon" -> Become!Settled
              [] OTHER -> TRUE
=============================================================================
