------------------------------ MODULE SigCount ------------------------------
(***************************************************************************)
(* signals/sig_receiver.c counts the signals that signals/sig_sender.c     *)
(* processes send it, until SIGINT ends it.  Signals are numbers.  The     *)
(* kernel keeps one pending signal of a standard kind and queues the       *)
(* real-time ones; it lets a process that it has brought to a handler go   *)
(* on only when no signal can be delivered any more.  A stop signal takes  *)
(* a pending SIGCONT away, and SIGCONT the pending stop signals.           *)
(***************************************************************************)
EXTENDS Integers, FiniteSets

CONSTANTS NSIG,         \* signals are 1..NSIG - 1
          SIGINT, SIGCONT, SIGKILL,
          NoHandler,    \* SIGKILL, SIGSTOP: neither caught nor blocked
          Stops,        \* the signals whose default is to stop
          Ignored,      \* the signals whose default is to do nothing
          RtSigs,       \* the real-time signals
          Senders,
          MaxSigs,      \* bound: the num-sigs argument
          Finals        \* the sig-num-2 argument of a sender, 0 for none

Sigs == 1..NSIG - 1

VARIABLES pc,           \* "setup", "block", "sleep", "loop", "print", "done", "killed"
          n,            \* the signal the loop of the receiver is at
          handled,      \* the signals that have sigHandler
          blocked,      \* are the signals blocked?
          pending,      \* pending[k]: signals k sent and not delivered
          kernel,       \* does the receiver wait for the kernel to deliver signals?
          stopped,      \* is the receiver stopped?
          sigCnt, gotSigint,
          shown,        \* shown[k]: the count that was printed
          spc,          \* spc[s]: "first", "second", "done" or "failed"
          todo,         \* todo[s]: signals s has still to send
          sig, fin,     \* the sig-num arguments of s
          hist          \* history: hist.open[k] signals were sent unblocked,
                        \* hist.shut[k] while blocked; hist.ints: the senders
                        \* whose SIGINT came; hist.seen: those of them
                        \* whose SIGINT was handled before the counts are shown;
                        \* hist.gone: kinds of which the kernel dropped one, or
                        \* did the default action

recvVars == <<pc, n, handled, blocked, kernel, sigCnt, gotSigint, shown>>
sendVars == <<spc, todo, sig, fin>>
vars == <<pc, n, handled, blocked, pending, kernel, stopped, sigCnt, gotSigint,
          shown, spc, todo, sig, fin, hist>>

Init == /\ pc = "setup" /\ n = 1
        /\ handled = {} /\ blocked = FALSE /\ pending = [k \in Sigs |-> 0]
        /\ kernel = FALSE /\ stopped = FALSE
        /\ sigCnt = [k \in Sigs |-> 0] /\ gotSigint = FALSE
        /\ shown = [k \in Sigs |-> 0]
        /\ spc = [s \in Senders |-> "first"]
        /\ todo \in [Senders -> 1..MaxSigs]
        /\ sig \in [Senders -> Sigs] /\ fin \in [Senders -> Finals]
        /\ hist = [open |-> [k \in Sigs |-> 0], shut |-> [k \in Sigs |-> 0],
                   ints |-> {}, seen |-> {}, gone |-> {}]

Alive == pc \notin {"done", "killed"}

Deliverable == {k \in Sigs : pending[k] > 0 /\ (blocked => k \in NoHandler)}

\* The receiver's own code runs.
Runs == ~stopped /\ (kernel => Deliverable = {})

-----------------------------------------------------------------------------
(* The receiver.                                                           *)

\* signal(n, sigHandler) for every signal, failing for those of NoHandler;
\* then, if a sleep time was given, the receiver blocks signals.
Setup == /\ pc = "setup" /\ Runs
         /\ handled' = handled \cup ({n} \ NoHandler)
         /\ IF n < NSIG - 1 THEN n' = n + 1 /\ UNCHANGED pc
            ELSE n' = 1 /\ pc' \in {"block", "loop"}
         /\ kernel' = FALSE
         /\ UNCHANGED <<blocked, pending, stopped, sigCnt, gotSigint, shown,
                        sendVars, hist>>

\* sigprocmask(SIG_BLOCK) of all signals, and the sleep.
Block == /\ pc = "block" /\ Runs
         /\ blocked' = TRUE
         /\ pc' = "sleep" /\ kernel' = FALSE
         /\ UNCHANGED <<n, handled, pending, stopped, sigCnt, gotSigint, shown,
                        sendVars, hist>>

UnblockForgotten == /\ pc = "sleep" /\ Runs
                    /\ pc' = "loop" /\ kernel' = TRUE
                    /\ UNCHANGED <<n, handled, blocked, pending, stopped, sigCnt,
                                   gotSigint, shown, sendVars, hist>>

\* sigprocmask() to the empty mask: it returns when what is pending is delivered.
Unblock == /\ pc = "sleep" /\ Runs
           /\ blocked' = FALSE
           /\ pc' = "loop" /\ kernel' = TRUE
           /\ UNCHANGED <<n, handled, pending, stopped, sigCnt, gotSigint, shown,
                          sendVars, hist>>

\* The busy loop ends when the flag is seen.
Loop == /\ pc = "loop" /\ Runs /\ gotSigint
        /\ pc' = "print" /\ kernel' = FALSE
        /\ UNCHANGED <<n, handled, blocked, pending, stopped, sigCnt, gotSigint,
                       shown, sendVars, hist>>

ShowOneShort ==
        /\ pc = "print" /\ Runs
        /\ shown' = [shown EXCEPT ![n] = sigCnt[n]]
        /\ n' = n + 1
        /\ pc' = IF n = NSIG - 2 THEN "done" ELSE "print"
        /\ kernel' = FALSE
        /\ UNCHANGED <<handled, blocked, pending, stopped, sigCnt, gotSigint,
                       sendVars, hist>>

Show == /\ pc = "print" /\ Runs
        /\ shown' = [shown EXCEPT ![n] = sigCnt[n]]
        /\ n' = n + 1
        /\ pc' = IF n = NSIG - 1 THEN "done" ELSE "print"
        /\ kernel' = FALSE
        /\ UNCHANGED <<handled, blocked, pending, stopped, sigCnt, gotSigint,
                       sendVars, hist>>

-----------------------------------------------------------------------------
(* Delivery, of one signal after the other.                                *)

\* sigHandler runs.
Deliver(k) ==
    /\ Alive /\ ~stopped /\ k \in Deliverable \cap handled
    /\ pending' = [pending EXCEPT ![k] = @ - 1]
    /\ kernel' = TRUE
    /\ IF k = SIGINT
         THEN /\ gotSigint' = TRUE
              /\ hist' = [hist EXCEPT !.seen = IF pc # "print" THEN hist.ints ELSE @]
              /\ UNCHANGED sigCnt
         ELSE /\ sigCnt' = [sigCnt EXCEPT ![k] = @ + 1]
              /\ UNCHANGED <<gotSigint, hist>>
    /\ UNCHANGED <<pc, n, handled, blocked, stopped, shown, sendVars>>

\* The default action of a signal without handler: to stop, or to terminate.
DeliverDefault(k) ==
    /\ Alive /\ ~stopped /\ k \in Deliverable \ handled
    /\ pending' = [pending EXCEPT ![k] = @ - 1]
    /\ kernel' = TRUE
    /\ stopped' = (k \in Stops)
    /\ pc' = IF k \in Stops THEN pc ELSE "killed"
    /\ hist' = [hist EXCEPT !.gone = @ \cup {k}]
    /\ UNCHANGED <<n, handled, blocked, sigCnt, gotSigint, shown, sendVars>>

-----------------------------------------------------------------------------
(* The senders.                                                            *)

\* The pending signals that k takes away when it is sent.
Discards(k) == IF k \in Stops THEN {SIGCONT} ELSE IF k = SIGCONT THEN Stops ELSE {}

\* A signal that would do nothing is not made pending.
Dropped(k) == k \in Ignored \ handled /\ ~blocked

\* The pending signals k, one more sent: kill() keeps one of a standard kind,
\* and queues a real-time signal unless the queue is full.
Queued(k) == IF Dropped(k) THEN {pending[k]}
             ELSE IF k \in RtSigs /\ pending[k] > 0 THEN {pending[k], pending[k] + 1}
             ELSE {1}

\* kill(pid, k) by s: it fails when the receiver is gone.
Kill(s, k, next) ==
    IF Alive
      THEN /\ \E c \in Queued(k) :
                pending' = [j \in Sigs |-> IF j = k THEN c
                                           ELSE IF j \in Discards(k) THEN 0 ELSE pending[j]]
           /\ stopped' = (stopped /\ k \notin {SIGCONT, SIGKILL})
           /\ spc' = [spc EXCEPT ![s] = next]
           /\ hist' = [hist EXCEPT
                !.open[k] = IF blocked THEN @ ELSE @ + 1,
                !.shut[k] = IF blocked THEN @ + 1 ELSE @,
                !.ints = IF k = SIGINT THEN @ \cup {s} ELSE @,
                !.gone = @ \cup {j \in Discards(k) : pending[j] > 0}
                           \cup {j \in {k} : Dropped(j)}]
      ELSE spc' = [spc EXCEPT ![s] = "failed"] /\ UNCHANGED <<pending, stopped, hist>>

\* One round of the loop that sends num-sigs signals.
SendFirst(s) == /\ spc[s] = "first"
                /\ todo' = [todo EXCEPT ![s] = @ - 1]
                /\ Kill(s, sig[s], IF todo[s] > 1 THEN "first"
                                   ELSE IF fin[s] # 0 THEN "second" ELSE "done")
                /\ UNCHANGED <<recvVars, sig, fin>>

SendSecond(s) == /\ spc[s] = "second"
                 /\ Kill(s, fin[s], "done")
                 /\ UNCHANGED <<recvVars, todo, sig, fin>>

Receiver == \/ Setup \/ Block \/ Unblock \/ Loop \/ Show
            \/ \E k \in Sigs : Deliver(k) \/ DeliverDefault(k)
Sender(s) == SendFirst(s) \/ SendSecond(s)

Next == Receiver \/ \E s \in Senders : Sender(s)

Spec == Init /\ [][Next]_vars

-----------------------------------------------------------------------------
TypeOK == /\ pc \in {"setup", "block", "sleep", "loop", "print", "done", "killed"}
          /\ n \in 1..NSIG
          /\ handled \subseteq Sigs \ NoHandler
          /\ blocked \in BOOLEAN /\ gotSigint \in BOOLEAN
          /\ kernel \in BOOLEAN /\ stopped \in BOOLEAN
          /\ pending \in [Sigs -> Nat]
          /\ sigCnt \in [Sigs -> Nat] /\ shown \in [Sigs -> Nat]
          /\ spc \in [Senders -> {"first", "second", "done", "failed"}]
          /\ todo \in [Senders -> 0..MaxSigs]
          /\ \A s \in Senders : /\ spc[s] = "first" => todo[s] > 0
                                /\ spc[s] = "second" => fin[s] # 0
          /\ sig \in [Senders -> Sigs] /\ fin \in [Senders -> Finals]
          /\ hist \in [open : [Sigs -> Nat], shut : [Sigs -> Nat],
                      ints : SUBSET Senders, seen : SUBSET Senders, gone : SUBSET Sigs]

\* No kind of signal is lost: a receiver that ended because of a sender's
\* SIGINT shows at least one of the signals that sender sent before it,
\* although SIGINT may be handled first (sig_receiver.c lines 11-17, 65-73).
\* Excepted are kinds of which the kernel dropped one or did the default
\* action: SIGSTOP, which keeps no handler (line 28), a signal sent before
\* signal() that does nothing, and SIGCONT and stop signals that met.
KindCounted == pc = "done" =>
    \A s \in hist.seen :
        sig[s] = SIGINT \/ sig[s] \in hist.gone \/ shown[sig[s]] >= 1

\* "the standard (non-RT) signals are not queued" (sig_sender.c lines 2-6):
\* what was sent while the signals were blocked is counted at most once for
\* a standard signal and at most as often as it was sent for a real-time one,
\* nothing is counted that was not sent.
Coalesced == \A k \in Sigs :
    sigCnt[k] <= hist.open[k] + (IF k \in RtSigs \/ hist.shut[k] = 0
                                 THEN hist.shut[k] ELSE 1)

\* Where the loops of the receiver are, and when its signals are blocked.
PlaceInv == /\ pc \in {"setup", "print"} => n < NSIG
            /\ pc \in {"block", "sleep", "loop"} => n = 1
            /\ pc = "done" => n = NSIG
            /\ blocked => pc \in {"sleep", "killed"}

\* The signal s sent before its SIGINT was lost to the kernel, or counted.
Settled(s) == sig[s] = SIGINT \/ sig[s] \in hist.gone \/ sigCnt[sig[s]] >= 1

\* The signal a sender sent before its SIGINT is pending or settled; when the
\* SIGINT is handled it is settled before the receiver goes on, and it is
\* shown when the loop has passed it; a SIGINT is not lost.
KindInv ==
    /\ \A s \in Senders : spc[s] = "second" \/ s \in hist.ints =>
         pending[sig[s]] > 0 \/ Settled(s)
    /\ \A s \in hist.seen : \/ Settled(s)
                            \/ /\ pending[sig[s]] > 0 /\ kernel /\ ~blocked
                               /\ pc \notin {"print", "done"}
    /\ \A s \in hist.seen : pc \in {"print", "done"} /\ sig[s] < n =>
         sig[s] = SIGINT \/ sig[s] \in hist.gone \/ shown[sig[s]] >= 1
    /\ hist.ints # {} => pending[SIGINT] > 0 \/ gotSigint \/ pc = "killed"

\* A pending signal is not yet counted; what comes while blocked waits.
CountInv == \A k \in Sigs :
    /\ sigCnt[k] + pending[k]
         <= hist.open[k] + (IF k \in RtSigs \/ hist.shut[k] = 0
                            THEN hist.shut[k] ELSE 1)
    /\ k \notin RtSigs => pending[k] <= 1
    /\ blocked => sigCnt[k] <= hist.open[k]
    /\ pc \in {"setup", "block"} => hist.shut[k] = 0

\* What the proofs of KindCounted and Coalesced rest on.
IndInv == TypeOK /\ PlaceInv /\ KindInv /\ CountInv

\* "if and when it received the SIGINT it ends the process" (sig_receiver.c
\* line 2), also when it comes before the handlers are set or while blocked.
Interrupted == pending[SIGINT] > 0
=============================================================================
