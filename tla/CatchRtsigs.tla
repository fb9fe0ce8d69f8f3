---------------------------- MODULE CatchRtsigs ----------------------------
(***************************************************************************)
(* signals/catch_rtsigs.c handles the signals that signals/t_sigqueue.c    *)
(* processes queue to it, each with a value, until SIGINT or SIGTERM.      *)
(* Signals are numbers.  The kernel queues real-time signals, keeps one of *)
(* each other kind, and delivers the lowest number first; a process leaves *)
(* a system call only when no deliverable signal is left.  The handler     *)
(* runs with all signals blocked that can be.  A stop signal takes pending *)
(* SIGCONTs away, and SIGCONT the stop signals.  The program is given a    *)
(* block time: its body lies inside the test for arguments.                *)
(***************************************************************************)
EXTENDS Integers, Sequences, FiniteSetsExt

CONSTANTS NSIG,         \* signals are 1..NSIG - 1
          Ends,         \* SIGINT and SIGTERM
          SIGQUIT, SIGCONT, SIGKILL,
          NoHandler,    \* SIGKILL, SIGSTOP: neither caught nor blocked
          Stops,        \* the signals whose default is to stop
          Ignored,      \* the signals whose default is to do nothing
          RtSigs,       \* the real-time signals
          Senders,
          MaxSigs,      \* bound: the num-sigs argument
          QueueLimit    \* RLIMIT_SIGPENDING

Sigs == 1..NSIG - 1

VARIABLES pc,           \* "install", "block", "sleep", "unblock", "test",
                        \* "toPause", "pause", "exited" or "killed"
          n,            \* the signal sigaction() is called for next
          handled,      \* the signals that have siginfoHandler
          blocked,      \* is blockMask in force?
          pend,         \* pend[k]: values of the pending signals k
          inHandler,    \* does siginfoHandler sleep?
          stopped,      \* is the program stopped?
          woken,        \* has a handler interrupted the call main is in?
          allDone, sigCnt,
          log,          \* log[k]: values of k that were handled
          spc,          \* spc[s]: "send", "done" or "failed"
          sig, todo,    \* the arguments of s: its signal and number
          hist          \* history: hist.sent[k] values were queued, hist.owed[k]
                        \* of them before unblocking; hist.gone: kinds of which the
                        \* kernel took some away, or did the default action;
                        \* hist.at: pc when allDone was set

mainVars == <<n, handled, blocked, inHandler, woken, allDone, sigCnt, log>>
sendVars == <<spc, sig, todo>>
vars == <<pc, n, handled, blocked, pend, inHandler, stopped, woken, allDone,
          sigCnt, log, spc, sig, todo, hist>>

Init == /\ pc = "install" /\ n = 1
        /\ handled = {} /\ blocked = FALSE
        /\ pend = [k \in Sigs |-> <<>>] /\ log = [k \in Sigs |-> <<>>]
        /\ inHandler = FALSE /\ stopped = FALSE
        /\ woken = FALSE /\ allDone = FALSE /\ sigCnt = 0
        /\ spc = [s \in Senders |-> "send"]
        /\ sig \in [Senders -> Sigs] /\ todo \in [Senders -> 1..MaxSigs]
        /\ hist = [sent |-> [k \in Sigs |-> <<>>], owed |-> [k \in Sigs |-> 0],
                   gone |-> {}, at |-> "none"]

Gone == pc \in {"exited", "killed"}

\* The signals that can be delivered.
Deliverable == {k \in Sigs :
    /\ pend[k] # <<>>
    /\ k \in NoHandler \/ (~inHandler /\ (blocked => k \in Ends))}

\* The code of main() runs, and goes on after a system call.
Runs == ~inHandler /\ ~stopped
Returns == Runs /\ Deliverable = {}

-----------------------------------------------------------------------------
(* main().                                                                 *)

\* sigaction() for one signal after the other; it fails for those of NoHandler.
Install == /\ pc = "install" /\ Returns
           /\ handled' = handled \cup ({n} \ (NoHandler \cup {SIGQUIT}))
           /\ n' = n + 1
           /\ pc' = IF n = NSIG - 1 THEN "block" ELSE pc
           /\ UNCHANGED <<blocked, pend, inHandler, stopped, woken, allDone, sigCnt, log,
                          sendVars, hist>>

\* sigprocmask(SIG_SETMASK, &blockMask): all but SIGINT and SIGTERM.
Block == /\ pc = "block" /\ Returns
         /\ blocked' = TRUE /\ pc' = "sleep"
         /\ UNCHANGED <<n, handled, pend, inHandler, stopped, woken, allDone, sigCnt, log,
                        sendVars, hist>>

\* The sleep is over, or SIGINT or SIGTERM ended it.
Sleep == /\ pc = "sleep" /\ Returns
         /\ pc' = "unblock" /\ woken' = FALSE
         /\ UNCHANGED <<n, handled, blocked, pend, inHandler, stopped, allDone, sigCnt, log,
                        sendVars, hist>>

UnblockForgotten ==
           /\ pc = "unblock" /\ Returns
           /\ hist' = [hist EXCEPT !.owed = [k \in Sigs |-> Len(hist.sent[k])]]
           /\ pc' = "unblocked"
           /\ UNCHANGED <<n, handled, blocked, pend, inHandler, stopped, woken, allDone, sigCnt,
                          log, sendVars>>

\* sigprocmask(SIG_SETMASK, &prevMask).
Unblock == /\ pc = "unblock" /\ Returns
           /\ blocked' = FALSE /\ pc' = "unblocked"
           /\ hist' = [hist EXCEPT !.owed = [k \in Sigs |-> Len(hist.sent[k])]]
           /\ UNCHANGED <<n, handled, pend, inHandler, stopped, woken, allDone, sigCnt, log,
                          sendVars>>

PauseFirst == /\ pc = "unblocked" /\ Returns
             /\ pc' = "toPause" /\ woken' = FALSE
             /\ UNCHANGED <<n, handled, blocked, pend, inHandler, stopped, allDone, sigCnt, log,
                            sendVars, hist>>

\* It returns when what was pending is handled.
Unblocked == /\ pc = "unblocked" /\ Returns
             /\ pc' = "test" /\ woken' = FALSE
             /\ UNCHANGED <<n, handled, blocked, pend, inHandler, stopped, allDone, sigCnt, log,
                            sendVars, hist>>

\* while (!allDone)
Test == /\ pc = "test" /\ Runs
        /\ pc' = IF allDone THEN "exited" ELSE "toPause"
        /\ UNCHANGED <<mainVars, stopped, pend, sendVars, hist>>

\* pause() is called, and returns after a handler has run.
EnterPause == /\ pc = "toPause" /\ Runs
              /\ pc' = "pause" /\ woken' = FALSE
              /\ UNCHANGED <<n, handled, blocked, pend, inHandler, stopped, allDone, sigCnt, log,
                             sendVars, hist>>

LeavePause == /\ pc = "pause" /\ woken /\ Returns
              /\ pc' = "test"
              /\ UNCHANGED <<mainVars, stopped, pend, sendVars, hist>>

-----------------------------------------------------------------------------
(* Delivery.                                                               *)

\* siginfoHandler starts: SIGINT and SIGTERM only set the flag, the others
\* are counted, printed and slept on.
Deliver ==
    /\ ~Gone /\ ~stopped /\ Deliverable # {}
    /\ LET k == Min(Deliverable)
       IN  /\ k \in handled
           /\ pend' = [pend EXCEPT ![k] = Tail(@)]
           /\ log' = [log EXCEPT ![k] = Append(@, Head(pend[k]))]
           /\ woken' = TRUE
           /\ IF k \in Ends
                THEN /\ allDone' = TRUE
                     /\ hist' = IF allDone THEN hist ELSE [hist EXCEPT !.at = pc]
                     /\ UNCHANGED <<inHandler, sigCnt>>
                ELSE /\ inHandler' = TRUE /\ sigCnt' = sigCnt + 1
                     /\ UNCHANGED <<allDone, hist>>
    /\ UNCHANGED <<pc, n, handled, blocked, stopped, sendVars>>

\* The default action of a signal without handler: to stop, or to terminate.
DeliverDefault ==
    /\ ~Gone /\ ~stopped /\ Deliverable # {}
    /\ LET k == Min(Deliverable)
       IN  /\ k \notin handled
           /\ pend' = [pend EXCEPT ![k] = Tail(@)]
           /\ stopped' = (k \in Stops)
           /\ pc' = IF k \in Stops THEN pc ELSE "killed"
           /\ hist' = [hist EXCEPT !.gone = @ \cup {k}]
    /\ UNCHANGED <<mainVars, sendVars>>

HandlerReturn == /\ inHandler /\ ~Gone /\ ~stopped
                 /\ inHandler' = FALSE
                 /\ UNCHANGED <<pc, n, handled, blocked, stopped, pend, woken, allDone,
                                sigCnt, log, sendVars, hist>>

-----------------------------------------------------------------------------
(* t_sigqueue.                                                             *)

Queued == MapThenSumSet(LAMBDA k : Len(pend[k]), Sigs)

\* The pending signals that k takes away when it is sent.
Discards(k) == IF k \in Stops THEN {SIGCONT} ELSE IF k = SIGCONT THEN Stops ELSE {}

\* Nothing is queued for a signal that would do nothing, nor for a second one
\* of a kind that is not real-time.
Dropped(k) == \/ k \in Ignored \ handled /\ ~blocked /\ ~inHandler
              \/ k \notin RtSigs /\ pend[k] # <<>>

\* sigqueue() with the next value; it fails without a receiver or on a full queue.
Sigqueue(s) ==
    /\ spc[s] = "send"
    /\ LET k == sig[s]
           v == [from |-> s, num |-> todo[s]]
       IN IF Gone \/ (k \in RtSigs /\ Queued >= QueueLimit)
            THEN /\ spc' = [spc EXCEPT ![s] = "failed"]
                 /\ UNCHANGED <<stopped, pend, todo, hist>>
            ELSE /\ todo' = [todo EXCEPT ![s] = @ - 1]
                 /\ spc' = [spc EXCEPT ![s] = IF todo[s] = 1 THEN "done" ELSE @]
                 /\ stopped' = (stopped /\ k \notin {SIGCONT, SIGKILL})
                 /\ pend' = [j \in Sigs |->
                       IF j = k THEN IF Dropped(k) THEN pend[k] ELSE Append(pend[k], v)
                       ELSE IF j \in Discards(k) THEN <<>> ELSE pend[j]]
                 /\ hist' = [hist EXCEPT
                       !.sent[k] = IF Dropped(k) THEN @ ELSE Append(@, v),
                       !.gone = @ \cup {j \in Discards(k) : pend[j] # <<>>}]
    /\ UNCHANGED <<pc, mainVars, sig>>

-----------------------------------------------------------------------------
Receiver == \/ Install \/ Block \/ Sleep \/ Unblock \/ Unblocked \/ Test
            \/ EnterPause \/ LeavePause
            \/ Deliver \/ DeliverDefault \/ HandlerReturn

Next == Receiver \/ \E s \in Senders : Sigqueue(s)

Spec == Init /\ [][Next]_vars

-----------------------------------------------------------------------------
Value == [from : Senders, num : Nat]    \* sigqueue()'s value, and its sender

TypeOK == /\ pc \in {"install", "block", "sleep", "unblock", "unblocked", "test",
                     "toPause", "pause", "exited", "killed"}
          /\ n \in 1..NSIG /\ (pc = "install" => n < NSIG) /\ handled \subseteq Sigs \ NoHandler
          /\ blocked \in BOOLEAN /\ inHandler \in BOOLEAN /\ stopped \in BOOLEAN
          /\ woken \in BOOLEAN /\ allDone \in BOOLEAN
          /\ sigCnt \in Nat
          /\ pend \in [Sigs -> Seq(Value)] /\ log \in [Sigs -> Seq(Value)]
          /\ \A k \in Sigs : k \notin RtSigs => Len(pend[k]) <= 1
          /\ spc \in [Senders -> {"send", "done", "failed"}]
          /\ sig \in [Senders -> Sigs] /\ todo \in [Senders -> 0..MaxSigs]
          /\ \A s \in Senders : spc[s] = "send" => todo[s] > 0
          /\ hist.sent \in [Sigs -> Seq(Value)] /\ hist.owed \in [Sigs -> Nat]
          /\ hist.gone \subseteq Sigs
          /\ hist = [sent |-> hist.sent, owed |-> hist.owed, gone |-> hist.gone,
                     at |-> hist.at]

\* The runs of the handler that count: the i-th one of signal k.
HandlerRuns == UNION {{<<k, i>> : i \in 1..Len(log[k])} : k \in Sigs \ Ends}

\* Every value that was queued is handled once and in the order of queueing,
\* whatever is blocked meanwhile (lines 11-29, t_sigqueue.c lines 31-37), if
\* the kernel took none of its kind away; sigCnt counts the handler's runs.
InOrder == /\ \A k \in Sigs \ hist.gone : log[k] \o pend[k] = hist.sent[k]
           /\ sigCnt = Cardinality(HandlerRuns)

\* "allowing signals to be sent before they are unblocked and handled" (line
\* 56): what was queued before the unblocking is handled before the program
\* exits, even if SIGINT came first.
OwedHandled == pc = "exited" =>
    \A k \in Sigs \ hist.gone : Len(log[k]) >= hist.owed[k]

\* The program pauses with allDone set only if the flag was set between the
\* test and pause() (lines 78-79): at any other time SIGINT ends it.
PausesOnlyByRace == pc = "pause" /\ ~woken /\ allDone => hist.at = "toPause"

\* After the unblocking what is owed has been handled; whoever finds allDone
\* set on the way to pause() finds it set there.
OwedInv == /\ pc = "unblocked" => ~blocked
           /\ pc \in {"test", "toPause", "pause", "exited"} =>
                \A k \in Sigs \ hist.gone : Len(log[k]) >= hist.owed[k]
           /\ \A k \in Sigs : hist.owed[k] <= Len(hist.sent[k])
RaceInv == pc = "toPause" /\ allDone => hist.at = "toPause"

\* What the proofs of the three properties rest on.
IndInv == TypeOK /\ InOrder /\ OwedInv /\ RaceInv /\ PausesOnlyByRace

\* SIGINT or SIGTERM ends a program in pause() (lines 14-17 and 78-82), also
\* one that has lost an earlier one.
PausedInterrupted == pc = "pause" /\ \E k \in Ends : pend[k] # <<>>
=============================================================================
