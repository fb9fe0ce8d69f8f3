----------------------------- MODULE MCSignals -----------------------------
(***************************************************************************)
(* The signal receivers of signals/ and their senders, for TLC.  They      *)
(* share no state: a behaviour is one of sig_receiver or one of            *)
(* catch_rtsigs, and the variables of the other keep the value 0.          *)
(***************************************************************************)
EXTENDS Integers

CONSTANTS Senders, MaxSigs,
          NSIG, SIGINT, SIGQUIT, SIGCONT, SIGKILL,
          Ends, NoHandler, Stops, Ignored, RtSigs,
          Finals, QueueLimit

\* The signal numbers are the kernel's; 0 for no second signal.
ASSUME SignalsAssumption ==
    /\ NSIG \in Nat /\ SIGINT \in 1..NSIG - 1
    /\ Ends \subseteq 1..NSIG - 1 /\ Finals \subseteq 0..NSIG - 1 /\ MaxSigs \in Nat
    /\ SIGINT \notin NoHandler \cup Stops \cup Ignored \cup RtSigs \cup {SIGCONT}
    /\ Stops \subseteq 1..NSIG - 1 /\ SIGCONT \in 1..NSIG - 1

VARIABLES program, pc, n, handled, blocked, stopped, sigCnt, spc, todo, sig, hist,
          pending, kernel, gotSigint, shown, fin,
          pend, inHandler, woken, allDone, log

Count == INSTANCE SigCount
Rt == INSTANCE CatchRtsigs

countOnly == <<pending, kernel, gotSigint, shown, fin>>
rtOnly == <<pend, inHandler, woken, allDone, log>>
vars == <<program, pc, n, handled, blocked, stopped, sigCnt, spc, todo, sig, hist,
          countOnly, rtOnly>>

Init == \/ /\ program = "sig_receiver" /\ Count!Init
           /\ pend = 0 /\ inHandler = 0 /\ woken = 0 /\ allDone = 0 /\ log = 0
        \/ /\ program = "catch_rtsigs" /\ Rt!Init
           /\ pending = 0 /\ kernel = 0 /\ gotSigint = 0 /\ shown = 0 /\ fin = 0

InCount(A) == program = "sig_receiver" /\ A /\ UNCHANGED <<program, rtOnly>>
InRt(A) == program = "catch_rtsigs" /\ A /\ UNCHANGED <<program, countOnly>>

Next == InCount(Count!Next) \/ InRt(Rt!Next)

\* The fairness of the receivers, in their own behaviours.
Fairness == WF_vars(InCount(Count!Receiver)) /\ WF_vars(InRt(Rt!Receiver))

Spec == Init /\ [][Next]_vars /\ Fairness

-----------------------------------------------------------------------------
\* A sig_receiver that ended because of a sender's SIGINT shows at least one
\* of the signals that sender sent before it, unless the kernel took one away
\* (sig_receiver.c lines 11-17, 28 and 65-73); what is sent while blocked is
\* counted once if it is a standard signal (lines 34-62).
KindCounted ==
    program = "sig_receiver" => Count!IndInv /\ Count!KindCounted /\ Count!Coalesced

\* catch_rtsigs handles every queued value once and in the order of queueing
\* (catch_rtsigs.c lines 11-29, t_sigqueue.c lines 31-37), and what was queued
\* before the unblocking before it exits, even if SIGINT came first (line 56).
QueuedHandled ==
    program = "catch_rtsigs" => Rt!IndInv /\ Rt!InOrder /\ Rt!OwedHandled

\* catch_rtsigs pauses with allDone set only if the flag was set between the
\* test and pause() (catch_rtsigs.c lines 78-79).
PausesOnlyByRace == program = "catch_rtsigs" => Rt!PausesOnlyByRace

\* SIGINT ends sig_receiver, also when it comes before the handlers are set
\* or while it is blocked (sig_receiver.c line 2), and SIGINT or SIGTERM ends
\* catch_rtsigs in pause(), also when it has lost an earlier one (catch_
\* rtsigs.c lines 14-17 and 78-82), unless a signal has stopped them.
InterruptEnds ==
    /\ (program = "sig_receiver" /\ Count!Interrupted)
          ~> (program = "sig_receiver" /\ (stopped \/ ~Count!Alive))
    /\ (program = "catch_rtsigs" /\ Rt!PausedInterrupted)
          ~> (program = "catch_rtsigs" /\ (stopped \/ Rt!Gone))
=============================================================================
