----------------------------- MODULE MCPosixIpc -----------------------------
(***************************************************************************)
(* The programs on POSIX IPC objects, for TLC: mq_notify_thread, mq_       *)
(* notify_signal, the message queue tools, the shared memory tools and the *)
(* semaphore tools.  They share no state: a behaviour is one of the kind   *)
(* that `kind' names.  mq_notify_thread has the variables of               *)
(* MqNotifyThread, which keep their initial values in the other            *)
(* behaviours; the others use x1, x2, ... as their variables, in the order *)
(* in which their modules declare them.                                    *)
(***************************************************************************)
EXTENDS MqNotifyThread, TLC

CONSTANTS Creators, Writers, Readers, Unlinkers, Sizes, Mortal, MaxObjs, Zero, w1, w2,
          SemCreators, Posters, Waiters, Getters, SemUnlinkers, SemValues, SemMax,
          MaxSems, SemMortal, MaxStray,
          QCreators, QSenders, QReceivers, QGetters, QUnlinkers, QNonBlock,
          s1, s2, MaxQueues, MsgLen, Prio, Length, Attrs, Perms

\* A process runs one program; values and lengths are unsigned.
ASSUME FamilyAssumption ==
    /\ MaxStray \in Nat
    /\ SemMax \in Nat /\ MaxSems \in Nat /\ SemValues \subseteq Nat
    /\ IsFiniteSet(Posters) /\ IsFiniteSet(Waiters)
    /\ \A p \in Posters : p \notin Waiters \cup Getters \cup SemCreators \cup SemUnlinkers
    /\ \A p \in Waiters : p \notin Getters \cup SemCreators \cup SemUnlinkers
    /\ MsgLen \in [Writers -> Nat] /\ Sizes \subseteq Nat /\ MaxObjs \in Nat
    /\ \A p \in Writers : p \notin Creators \cup Readers \cup Unlinkers
    /\ \A p \in Readers : p \notin Creators \cup Unlinkers
    /\ \A p \in Creators : p \notin Unlinkers
    /\ Zero \notin Creators \cup Writers

\* Each of the queue tools runs in a process of its own; priorities are
\* unsigned, attributes are what atoi() returns.
ASSUME ToolsAssumption ==
    /\ Attrs \subseteq [maxmsg : Int, msgsize : Int] /\ Prio \in [QSenders -> Nat]
    /\ MaxQueues \in Nat
    /\ \A p \in QSenders : p \notin QReceivers \cup QGetters \cup QCreators \cup QUnlinkers
    /\ \A p \in QReceivers : p \notin QGetters \cup QCreators \cup QUnlinkers
    /\ \A p \in QGetters : p \notin QCreators \cup QUnlinkers

VARIABLES kind, x1, x2, x3, x4, x5, x6, x7, x8, x9, x10

\* Writers of a long and of a short string; senders of a short message and of
\* a longer one with a higher priority; queues for one or two messages, one of
\* them too small for the longer message, and attributes that are refused.
MCMsgLen == (w1 :> 2) @@ (w2 :> 1)
MCPrio == (s1 :> 0) @@ (s2 :> 1)
MCLength == (s1 :> 1) @@ (s2 :> 2)
MCAttrs == {[maxmsg |-> 1, msgsize |-> 2], [maxmsg |-> 2, msgsize |-> 2],
            [maxmsg |-> 1, msgsize |-> 1], [maxmsg |-> 0, msgsize |-> 1]}
MCPerms == {<<>>, <<6, 0, 0>>}

Shm == INSTANCE SharedMemory WITH name <- x1, mem <- x2, pc <- x3,
         obj <- x4, len <- x5, pos <- x6, out <- x7, last <- x8, src <- x9, mixed <- x10
Sem == INSTANCE PosixSem WITH pc <- x1, name <- x2, made <- x3, val <- x4, first <- x5,
         sem <- x6, shown <- x7
Sig == INSTANCE MqNotifySignal WITH q <- x1, ppc <- x2, reg <- x3, notif <- x4, pc <- x5,
         stray <- x6, strays <- x7, startEmpty <- x8
Tools == INSTANCE QueueTools WITH pc <- x1, name <- x2, queues <- x3, mq <- x4, got <- x5

all == <<kind, vars, x1, x2, x3, x4, x5, x6, x7, x8, x9, x10>>

from6 == <<x6, x7, x8, x9, x10>>
from8 == <<x8, x9, x10>>
from9 == <<x9, x10>>
Zero9 == x9 = 0 /\ x10 = 0
Zero8 == x8 = 0 /\ Zero9
Zero6 == x6 = 0 /\ x7 = 0 /\ Zero8

FamilyInit ==
    /\ Init
    /\ \/ kind = "thread" /\ x1 = 0 /\ x2 = 0 /\ x3 = 0 /\ x4 = 0 /\ x5 = 0 /\ Zero6
       \/ kind = "shm" /\ Shm!Init
       \/ kind = "sem" /\ Sem!Init /\ Zero8
       \/ kind = "signal" /\ Sig!Init /\ Zero9
       \/ kind = "tools" /\ Tools!Init /\ Zero6

In(k, A) == kind = k /\ A /\ UNCHANGED <<kind, vars>>

InThread(A) == kind = "thread" /\ A /\ UNCHANGED <<kind, x1, x2, x3, x4, x5, from6>>
InShm(A) == In("shm", A)
InSem(A) == In("sem", A) /\ UNCHANGED from8
InSig(A) == In("signal", A) /\ UNCHANGED from9
InTools(A) == In("tools", A) /\ UNCHANGED from6

FamilyNext == \/ InThread(Next) \/ InShm(Shm!Next) \/ InSem(Sem!Next)
              \/ InSig(Sig!Next) \/ InTools(Tools!Next)

\* The two programs that wait for notifications are scheduled.
Fairness == /\ WF_all(InThread(MainSetup)) /\ WF_all(InThread(Threads))
            /\ WF_all(InSig(Sig!Program))

FamilySpec == FamilyInit /\ [][FamilyNext]_all /\ Fairness

-----------------------------------------------------------------------------
\* Shared memory: a writer that was alone on the object leaves exactly its
\* string there (pshm_write.c lines 20-51), a reader that was alone prints the
\* whole string of the writer before it (pshm_read.c lines 20-39), and SIGBUS
\* or a short write needs a concurrent resize.
WholeMessages ==
    kind = "shm" => /\ Shm!IndInv /\ Shm!FaultsOnlyMixed
                    /\ Shm!WholeMessage /\ Shm!ReadsWhole

\* No post is lost and none wakes two; creating again resets nothing
\* (psem_create.c line 43, psem_post.c line 21, psem_wait.c line 22).
Conserved == kind = "sem" => Sem!IndInv /\ Sem!Conserved

\* mq_notify_signal never sleeps on a message with no signal pending, if the
\* queue was empty when it first registered (lines 87-95), and meets EBUSY
\* only after a stray signal (lines 87-92).
SleepsOnEmpty == kind = "signal" => Sig!IndInv /\ Sig!SleepsOnEmpty /\ Sig!NeverBusy

\* The queue tools lose, duplicate and mix up no message, whatever happens to
\* the name meanwhile (pmsg_send.c 32-45, pmsg_receive.c 34-61, pmsg_unlink.c
\* 13), except one that a receiver took and could not write.
Delivered == kind = "tools" => Tools!IndInv /\ Tools!Delivered

\* Every message leaves the queue that mq_notify_thread (lines 36-39) or mq_
\* notify_signal (lines 86-101) attends to, unless a stray signal or an error
\* ends the program.
AllDrained == /\ Drained
              /\ (kind = "signal" /\ Sig!HasMessage) ~> (kind = "signal" /\ Sig!DrainedOrExcused)
=============================================================================
