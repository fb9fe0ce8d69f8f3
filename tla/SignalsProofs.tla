--------------------------- MODULE SignalsProofs ---------------------------
(***************************************************************************)
(* The signal receivers: what their run checks, for every number of        *)
(* signals and senders.  Each program has its inductive invariant IndInv,  *)
(* lemmas about its steps and theorems about the behaviours of the family. *)
(***************************************************************************)
EXTENDS MCSignals, Sequences, FiniteSetTheorems, WellFoundedInduction, TLAPS

-----------------------------------------------------------------------------
(* sig_receiver.                                                           *)

\* A record of the histories, its fields.
LEMMA CountHist ==
  ASSUME NEW h, h \in [open : [Count!Sigs -> Nat], shut : [Count!Sigs -> Nat],
                       ints : SUBSET Senders, seen : SUBSET Senders, gone : SUBSET Count!Sigs]
  PROVE  /\ h.open \in [Count!Sigs -> Nat] /\ h.shut \in [Count!Sigs -> Nat]
         /\ h.ints \in SUBSET Senders /\ h.seen \in SUBSET Senders
         /\ h.gone \in SUBSET Count!Sigs
         /\ h = [open |-> h.open, shut |-> h.shut, ints |-> h.ints, seen |-> h.seen,
                 gone |-> h.gone]
  OBVIOUS

\* A signal that is sent is one more; it waits for its delivery, or the kernel
\* drops it, as it may drop those that are pending.
LEMMA CountSent ==
  ASSUME Count!IndInv, NEW s \in Senders, NEW k \in Count!Sigs, NEW next,
         Count!Kill(s, k, next), UNCHANGED <<Count!recvVars, sig, fin>>,
         next \in {"first", "second", "done"}, next = "first" => todo'[s] > 0,
         todo' \in [Senders -> 0..MaxSigs],
         \A t \in Senders \ {s} : todo'[t] = todo[t],
         next = "second" => k = sig[s] /\ fin[s] # 0,
         k = SIGINT /\ sig[s] # SIGINT => spc[s] = "second"
  PROVE  Count!IndInv'
  <1> USE SignalsAssumption DEF Count!IndInv
  <1>1. CASE ~Count!Alive
    <2>1. /\ spc' = [spc EXCEPT ![s] = "failed"] /\ UNCHANGED <<pending, stopped, hist>>
          /\ UNCHANGED Count!recvVars
      BY <1>1 DEF Count!Kill
    <2>2. spc'[s] = "failed" /\ \A t \in Senders \ {s} : spc'[t] = spc[t]
      BY <2>1 DEF Count!TypeOK
    <2>3. Count!TypeOK'
      BY <2>1, <2>2 DEF Count!TypeOK, Count!recvVars
    <2>4. Count!PlaceInv' /\ Count!CountInv'
      BY <2>1 DEF Count!PlaceInv, Count!CountInv, Count!recvVars
    <2>5. Count!KindInv'
      BY <2>1, <2>2 DEF Count!KindInv, Count!Settled, Count!recvVars
    <2> QED
      BY <2>3, <2>4, <2>5
  <1>2. CASE Count!Alive
    <2>1. PICK c \in Count!Queued(k) :
             pending' = [j \in Count!Sigs |->
                IF j = k THEN c ELSE IF j \in Count!Discards(k) THEN 0 ELSE pending[j]]
      BY <1>2 DEF Count!Kill
    <2>2. /\ spc' = [spc EXCEPT ![s] = next]
          /\ stopped' = (stopped /\ k \notin {SIGCONT, SIGKILL})
          /\ hist' = [hist EXCEPT
                !.open[k] = IF blocked THEN @ ELSE @ + 1,
                !.shut[k] = IF blocked THEN @ + 1 ELSE @,
                !.ints = IF k = SIGINT THEN @ \cup {s} ELSE @,
                !.gone = @ \cup {j \in Count!Discards(k) : pending[j] > 0}
                           \cup {j \in {k} : Count!Dropped(j)}]
          /\ UNCHANGED <<pc, n, handled, blocked, kernel, sigCnt, gotSigint, shown>>
      BY <1>2 DEF Count!Kill, Count!recvVars
    <2>3. spc'[s] = next /\ \A t \in Senders \ {s} : spc'[t] = spc[t]
      BY <2>2 DEF Count!TypeOK
    <2>4. /\ hist'.seen = hist.seen
          /\ hist'.ints = IF k = SIGINT THEN hist.ints \cup {s} ELSE hist.ints
          /\ hist'.open = [hist.open EXCEPT ![k] = IF blocked THEN @ ELSE @ + 1]
          /\ hist'.shut = [hist.shut EXCEPT ![k] = IF blocked THEN @ + 1 ELSE @]
          /\ hist'.gone = hist.gone \cup {j \in Count!Discards(k) : pending[j] > 0}
                                    \cup {j \in {k} : Count!Dropped(j)}
          /\ hist' = [open |-> hist'.open, shut |-> hist'.shut, ints |-> hist'.ints,
                      seen |-> hist'.seen, gone |-> hist'.gone]
      <3>1. hist = [open |-> hist.open, shut |-> hist.shut, ints |-> hist.ints,
                    seen |-> hist.seen, gone |-> hist.gone]
        BY CountHist DEF Count!TypeOK
      <3> QED
        BY <2>2, <3>1
    <2>5. /\ pending \in [Count!Sigs -> Nat] /\ c \in Nat
          /\ c = pending[k] \/ c = pending[k] + 1 \/ c = 1
          /\ ~Count!Dropped(k) => c > 0
          /\ k \notin RtSigs => c <= 1
          /\ c > pending[k] => ~Count!Dropped(k) /\ c = pending[k] + 1
      <3>1. pending \in [Count!Sigs -> Nat] /\ pending[k] \in Nat
        BY DEF Count!TypeOK
      <3>2. k \notin RtSigs => pending[k] <= 1
        BY DEF Count!CountInv
      <3>3. CASE Count!Dropped(k)
        BY <3>1, <3>2, <3>3 DEF Count!Queued
      <3>4. CASE ~Count!Dropped(k)
        BY <3>1, <3>4 DEF Count!Queued
      <3> QED
        BY <3>3, <3>4
    <2>6. /\ pending'[k] = c
          /\ \A j \in Count!Sigs : j # k => /\ pending'[j] \in {0, pending[j]}
                                            /\ j \notin Count!Discards(k) => pending'[j] = pending[j]
      BY <2>1
    <2>7. Count!TypeOK'
      <3>1. pending' \in [Count!Sigs -> Nat]
        BY <2>1, <2>5
      <3>2. hist'.open \in [Count!Sigs -> Nat] /\ hist'.shut \in [Count!Sigs -> Nat]
        <4>1. hist.open \in [Count!Sigs -> Nat] /\ hist.shut \in [Count!Sigs -> Nat]
          BY CountHist DEF Count!TypeOK
        <4> QED
          BY <2>4, <4>1
      <3>3. hist'.ints \in SUBSET Senders /\ hist'.seen \in SUBSET Senders
        BY <2>4, CountHist DEF Count!TypeOK
      <3>4. hist'.gone \in SUBSET Count!Sigs
        <4>1. hist.gone \in SUBSET Count!Sigs
          BY CountHist DEF Count!TypeOK
        <4>2. Count!Discards(k) \subseteq Count!Sigs
          BY SignalsAssumption DEF Count!Discards, Count!Sigs
        <4> QED
          BY <2>4, <4>1, <4>2
      <3>5. hist' \in [open : [Count!Sigs -> Nat], shut : [Count!Sigs -> Nat],
                       ints : SUBSET Senders, seen : SUBSET Senders, gone : SUBSET Count!Sigs]
        BY <2>4, <3>2, <3>3, <3>4
      <3>6. stopped' \in BOOLEAN
        BY <2>2, Zenon
      <3>7. /\ spc' \in [Senders -> {"first", "second", "done", "failed"}]
            /\ \A t \in Senders : /\ spc'[t] = "first" => todo'[t] > 0
                                  /\ spc'[t] = "second" => fin'[t] # 0
        BY <2>2, <2>3 DEF Count!TypeOK
      <3>8. /\ pc' \in {"setup", "block", "sleep", "loop", "print", "done", "killed"}
            /\ n' \in 1..NSIG /\ handled' \subseteq Count!Sigs \ NoHandler
            /\ blocked' \in BOOLEAN /\ gotSigint' \in BOOLEAN /\ kernel' \in BOOLEAN
            /\ sigCnt' \in [Count!Sigs -> Nat] /\ shown' \in [Count!Sigs -> Nat]
            /\ sig' \in [Senders -> Count!Sigs] /\ fin' \in [Senders -> Finals]
        BY <2>2 DEF Count!TypeOK
      <3>9. todo' \in [Senders -> 0..MaxSigs]
        OBVIOUS
      <3> QED
        BY ONLY <3>1, <3>5, <3>6, <3>7, <3>8, <3>9, Zenon DEF Count!TypeOK
    <2>8. Count!PlaceInv'
      BY <2>2 DEF Count!PlaceInv
    <2>9. \A j \in Count!Sigs : pending[j] > 0 \/ j = k => pending'[j] > 0 \/ j \in hist'.gone
      BY <2>4, <2>5, <2>6
    <2>10. hist.gone \subseteq hist'.gone
      BY <2>4
    <2>11. Count!KindInv'
      <3>1. \A t \in Senders : sig[t] \in Count!Sigs
        BY DEF Count!TypeOK
      <3>2. \A t \in Senders : Count!Settled(t) => Count!Settled(t)'
        BY <2>2, <2>10 DEF Count!Settled
      <3>3. ASSUME NEW t \in Senders, spc'[t] = "second" \/ t \in hist'.ints
            PROVE  pending'[sig[t]] > 0 \/ Count!Settled(t)'
        <4>1. CASE spc[t] = "second" \/ t \in hist.ints
          BY <2>9, <3>1, <3>2, <4>1 DEF Count!KindInv, Count!Settled
        <4>2. CASE ~(spc[t] = "second" \/ t \in hist.ints)
          <5>1. t = s
            BY <2>3, <2>4, <3>3, <4>2
          <5>2. k = sig[s] \/ sig[s] = SIGINT
            BY <2>3, <2>4, <3>3, <4>2, <5>1
          <5> QED
            BY <2>9, <3>1, <5>1, <5>2 DEF Count!Settled
        <4> QED
          BY <4>1, <4>2
      <3>4. ASSUME NEW t \in hist'.seen
            PROVE  \/ Count!Settled(t)'
                   \/ /\ pending'[sig[t]] > 0 /\ kernel' /\ ~blocked'
                      /\ pc' \notin {"print", "done"}
        <4>1. t \in hist.seen /\ t \in Senders
          BY <2>4, <3>4, CountHist DEF Count!TypeOK
        <4> QED
          BY <2>2, <2>9, <3>1, <3>2, <4>1 DEF Count!KindInv, Count!Settled
      <3>5. hist'.ints # {} => pending'[SIGINT] > 0 \/ gotSigint' \/ pc' = "killed"
        <4>1. SIGINT \in Count!Sigs /\ SIGINT \notin Count!Discards(k) /\ ~Count!Dropped(SIGINT)
          BY DEF Count!Sigs, Count!Discards, Count!Dropped
        <4>2. k = SIGINT => pending'[SIGINT] > 0
          BY <2>5, <2>6, <4>1
        <4>3. k # SIGINT => hist'.ints = hist.ints /\ pending'[SIGINT] = pending[SIGINT]
          BY <2>4, <2>6, <4>1
        <4> QED
          BY <2>2, <4>2, <4>3 DEF Count!KindInv
      <3>6. UNCHANGED <<sig, pc, n, shown>> /\ hist'.seen = hist.seen
        BY <2>2, <2>4
      <3>7. \A t \in hist'.seen : pc' \in {"print", "done"} /\ sig'[t] < n' =>
              sig'[t] = SIGINT \/ sig'[t] \in hist'.gone \/ shown'[sig'[t]] >= 1
        BY <2>10, <3>6 DEF Count!KindInv
      <3> QED
        BY <3>3, <3>4, <3>5, <3>6, <3>7 DEF Count!KindInv
    <2>12. Count!CountInv'
      <3>1. hist.open \in [Count!Sigs -> Nat] /\ hist.shut \in [Count!Sigs -> Nat]
              /\ sigCnt \in [Count!Sigs -> Nat]
        BY CountHist DEF Count!TypeOK
      <3>2. \A i \in Count!Sigs : i # k =>
              hist'.open[i] = hist.open[i] /\ hist'.shut[i] = hist.shut[i]
        BY <2>4, <3>1
      <3>3. /\ hist'.open[k] = IF blocked THEN hist.open[k] ELSE hist.open[k] + 1
            /\ hist'.shut[k] = IF blocked THEN hist.shut[k] + 1 ELSE hist.shut[k]
        BY <2>4, <3>1
      <3> SUFFICES ASSUME NEW i \in Count!Sigs
                   PROVE  /\ sigCnt'[i] + pending'[i]
                               <= hist'.open[i] + (IF i \in RtSigs \/ hist'.shut[i] = 0
                                                   THEN hist'.shut[i] ELSE 1)
                          /\ i \notin RtSigs => pending'[i] <= 1
                          /\ blocked' => sigCnt'[i] <= hist'.open[i]
                          /\ pc' \in {"setup", "block"} => hist'.shut[i] = 0
        BY DEF Count!CountInv
      <3>4. /\ sigCnt[i] \in Nat /\ hist.open[i] \in Nat /\ hist.shut[i] \in Nat
            /\ pending[i] \in Nat
        BY <2>5, <3>1
      <3>5. /\ sigCnt[i] + pending[i]
                 <= hist.open[i] + (IF i \in RtSigs \/ hist.shut[i] = 0
                                    THEN hist.shut[i] ELSE 1)
            /\ i \notin RtSigs => pending[i] <= 1
            /\ blocked => sigCnt[i] <= hist.open[i]
            /\ pc \in {"setup", "block"} => hist.shut[i] = 0
        BY DEF Count!CountInv
      <3>6. blocked => pc \notin {"setup", "block"}
        BY DEF Count!PlaceInv
      <3>7. CASE i # k
        BY <2>2, <2>6, <3>2, <3>4, <3>5, <3>7
      <3>8. CASE i = k
        <4>1. c <= pending[i] + 1
          BY <2>5, <3>4, <3>8
        <4> QED
          BY <2>2, <2>5, <2>6, <3>3, <3>4, <3>5, <3>6, <3>8, <4>1
      <3> QED
        BY <3>7, <3>8
    <2> QED
      BY <2>7, <2>8, <2>11, <2>12
  <1> QED
    BY <1>1, <1>2

\* The delivery of a signal to sigHandler.
LEMMA CountDelivered ==
  ASSUME Count!IndInv, NEW k \in Count!Sigs, Count!Deliver(k)
  PROVE  Count!IndInv'
  <1> USE SignalsAssumption DEF Count!IndInv
  <1>1. /\ Count!Alive /\ pending[k] > 0 /\ k \in handled /\ ~blocked
        /\ pending' = [pending EXCEPT ![k] = @ - 1] /\ kernel' = TRUE
        /\ UNCHANGED <<pc, n, handled, blocked, stopped, shown, spc, todo, sig, fin>>
    BY DEF Count!Deliver, Count!Deliverable, Count!TypeOK, Count!sendVars
  <1>2. /\ pending \in [Count!Sigs -> Nat] /\ pending'[k] = pending[k] - 1
        /\ pending' \in [Count!Sigs -> Nat]
        /\ \A j \in Count!Sigs : j # k => pending'[j] = pending[j]
    BY <1>1 DEF Count!TypeOK
  <1>3. \/ /\ k = SIGINT /\ gotSigint' = TRUE /\ sigCnt' = sigCnt
           /\ hist' = [hist EXCEPT !.seen = IF pc # "print" THEN hist.ints ELSE @]
        \/ /\ k # SIGINT /\ sigCnt' = [sigCnt EXCEPT ![k] = @ + 1]
           /\ gotSigint' = gotSigint /\ hist' = hist
    BY DEF Count!Deliver
  <1>4. /\ hist'.seen = hist.seen \/ (hist'.seen = hist.ints /\ pc # "print")
        /\ hist'.open = hist.open /\ hist'.shut = hist.shut /\ hist'.ints = hist.ints
        /\ hist'.gone = hist.gone
        /\ hist' \in [open : [Count!Sigs -> Nat], shut : [Count!Sigs -> Nat],
                      ints : SUBSET Senders, seen : SUBSET Senders, gone : SUBSET Count!Sigs]
    BY <1>3 DEF Count!TypeOK
  <1>5. /\ sigCnt \in [Count!Sigs -> Nat] /\ sigCnt' \in [Count!Sigs -> Nat]
        /\ k # SIGINT => sigCnt'[k] = sigCnt[k] + 1
        /\ k = SIGINT => sigCnt'[k] = sigCnt[k]
        /\ \A j \in Count!Sigs : j # k => sigCnt'[j] = sigCnt[j]
    BY <1>3 DEF Count!TypeOK
  <1>6. Count!TypeOK'
    <2>1. gotSigint' \in BOOLEAN /\ kernel' \in BOOLEAN
      <3>1. gotSigint \in BOOLEAN
        BY DEF Count!TypeOK
      <3> QED
        BY <1>1, <1>3, <3>1, Zenon
    <2> QED
      BY <1>1, <1>2, <1>4, <1>5, <2>1 DEF Count!TypeOK
  <1>7. Count!PlaceInv'
    BY <1>1 DEF Count!PlaceInv
  <1>8. Count!KindInv'
    <2>1. \A t \in Senders : sig[t] \in Count!Sigs
      BY DEF Count!TypeOK
    <2>2. \A t \in Senders : Count!Settled(t) => Count!Settled(t)'
      BY <1>1, <1>4, <1>5, <2>1 DEF Count!Settled
    <2>3. \A t \in Senders : pending[sig[t]] > 0 => pending'[sig[t]] > 0 \/ Count!Settled(t)'
      BY <1>1, <1>2, <1>5, <2>1 DEF Count!Settled
    <2>4. \A t \in Senders : spc[t] = "second" \/ t \in hist.ints =>
            pending'[sig[t]] > 0 \/ Count!Settled(t)'
      BY <2>2, <2>3 DEF Count!KindInv
    <2>5. ASSUME NEW t \in hist'.seen
          PROVE  \/ Count!Settled(t)'
                 \/ /\ pending'[sig[t]] > 0 /\ kernel' /\ ~blocked'
                    /\ pc' \notin {"print", "done"}
      <3>0. t \in Senders
        BY <1>4, <2>5
      <3>1. CASE t \in hist.seen
        BY <1>1, <2>2, <2>3, <3>0, <3>1 DEF Count!KindInv
      <3>2. CASE t \in hist.ints /\ pc # "print"
        BY <1>1, <2>4, <3>0, <3>2 DEF Count!Alive
      <3> QED
        BY <1>4, <2>5, <3>1, <3>2
    <2>6. \A t \in hist'.seen : pc' \in {"print", "done"} /\ sig'[t] < n' =>
            sig'[t] = SIGINT \/ sig'[t] \in hist'.gone \/ shown'[sig'[t]] >= 1
      <3>1. pc' \in {"print", "done"} => hist'.seen = hist.seen
        BY <1>1, <1>4 DEF Count!Alive
      <3> QED
        BY <1>1, <1>4, <3>1 DEF Count!KindInv
    <2>7. hist'.ints # {} => pending'[SIGINT] > 0 \/ gotSigint' \/ pc' = "killed"
      <3>1. CASE k = SIGINT
        BY <1>3, <3>1
      <3>2. CASE k # SIGINT
        BY <1>1, <1>2, <1>3, <1>4, <3>2 DEF Count!KindInv, Count!Sigs
      <3> QED
        BY <3>1, <3>2
    <2> QED
      BY <1>1, <1>4, <2>4, <2>5, <2>6, <2>7 DEF Count!KindInv
  <1>9. Count!CountInv'
    <2>1. \A i \in Count!Sigs : /\ sigCnt[i] \in Nat /\ hist.open[i] \in Nat
                                /\ hist.shut[i] \in Nat /\ pending[i] \in Nat
      BY CountHist DEF Count!TypeOK
    <2>2. \A i \in Count!Sigs : /\ sigCnt'[i] + pending'[i] <= sigCnt[i] + pending[i]
                                /\ pending'[i] <= pending[i] /\ sigCnt'[i] + pending'[i] \in Nat
      BY <1>2, <1>5, <2>1
    <2>3. \A i \in Count!Sigs :
             sigCnt'[i] + pending'[i] <= hist.open[i] + (IF i \in RtSigs \/ hist.shut[i] = 0
                                                         THEN hist.shut[i] ELSE 1)
      BY <2>1, <2>2 DEF Count!CountInv
    <2>4. \A i \in Count!Sigs : i \notin RtSigs => pending'[i] <= 1
      BY <1>2, <2>1, <2>2 DEF Count!CountInv
    <2> QED
      BY <1>1, <1>4, <2>3, <2>4 DEF Count!CountInv
  <1> QED
    BY <1>6, <1>7, <1>8, <1>9

\* The default action of a signal.
LEMMA CountDefault ==
  ASSUME Count!IndInv, NEW k \in Count!Sigs, Count!DeliverDefault(k)
  PROVE  Count!IndInv'
  <1> USE SignalsAssumption DEF Count!IndInv
  <1>1. /\ Count!Alive /\ pending[k] > 0
        /\ pending' = [pending EXCEPT ![k] = @ - 1] /\ kernel' = TRUE
        /\ stopped' = (k \in Stops)
        /\ pc' = IF k \in Stops THEN pc ELSE "killed"
        /\ hist' = [hist EXCEPT !.gone = @ \cup {k}]
        /\ UNCHANGED <<n, handled, blocked, sigCnt, gotSigint, shown, spc, todo, sig, fin>>
    BY DEF Count!DeliverDefault, Count!Deliverable, Count!sendVars
  <1>2. /\ pending \in [Count!Sigs -> Nat] /\ pending'[k] = pending[k] - 1
        /\ pending' \in [Count!Sigs -> Nat]
        /\ \A j \in Count!Sigs : j # k => pending'[j] = pending[j]
    BY <1>1 DEF Count!TypeOK
  <1>3. /\ hist'.seen = hist.seen /\ hist'.open = hist.open /\ hist'.shut = hist.shut
        /\ hist'.ints = hist.ints /\ hist'.gone = hist.gone \cup {k}
        /\ hist' \in [open : [Count!Sigs -> Nat], shut : [Count!Sigs -> Nat],
                      ints : SUBSET Senders, seen : SUBSET Senders, gone : SUBSET Count!Sigs]
    BY <1>1 DEF Count!TypeOK
  <1>4. Count!TypeOK'
    <2>1. stopped' \in BOOLEAN /\ kernel' \in BOOLEAN
      <3>1. (stopped' = TRUE \/ stopped' = FALSE) /\ kernel' = TRUE
        BY <1>1
      <3> QED
        BY <3>1, Zenon
    <2> QED
      BY <1>1, <1>2, <1>3, <2>1 DEF Count!TypeOK
  <1>5. Count!PlaceInv'
    BY <1>1 DEF Count!PlaceInv
  <1>6. Count!KindInv'
    <2>1. \A t \in Senders : sig[t] \in Count!Sigs
      BY DEF Count!TypeOK
    <2>2. \A t \in Senders : Count!Settled(t) => Count!Settled(t)'
      BY <1>1, <1>3 DEF Count!Settled
    <2>3. \A t \in Senders : pending[sig[t]] > 0 => pending'[sig[t]] > 0 \/ Count!Settled(t)'
      BY <1>1, <1>2, <1>3, <2>1 DEF Count!Settled
    <2>4. \A t \in Senders : spc[t] = "second" \/ t \in hist.ints =>
            pending'[sig[t]] > 0 \/ Count!Settled(t)'
      BY <2>2, <2>3 DEF Count!KindInv
    <2>5. ASSUME NEW t \in hist.seen
          PROVE  \/ Count!Settled(t)'
                 \/ /\ pending'[sig[t]] > 0 /\ kernel' /\ ~blocked'
                    /\ pc' \notin {"print", "done"}
      <3>0. t \in Senders
        BY <2>5, CountHist DEF Count!TypeOK
      <3> QED
        BY <1>1, <2>2, <2>3, <2>5, <3>0 DEF Count!KindInv
    <2>6. \A t \in hist.seen : pc' \in {"print", "done"} /\ sig'[t] < n' =>
            sig'[t] = SIGINT \/ sig'[t] \in hist'.gone \/ shown'[sig'[t]] >= 1
      BY <1>1, <1>3 DEF Count!KindInv
    <2>7. hist'.ints # {} => pending'[SIGINT] > 0 \/ gotSigint' \/ pc' = "killed"
      <3>1. CASE k = SIGINT
        BY <1>1, <3>1
      <3>2. CASE k # SIGINT
        BY <1>1, <1>2, <1>3, <3>2 DEF Count!KindInv, Count!Sigs
      <3> QED
        BY <3>1, <3>2
    <2> QED
      BY <1>1, <1>3, <2>4, <2>5, <2>6, <2>7 DEF Count!KindInv
  <1>7. Count!CountInv'
    <2>1. \A i \in Count!Sigs : /\ sigCnt[i] \in Nat /\ hist.open[i] \in Nat
                                /\ hist.shut[i] \in Nat /\ pending[i] \in Nat
      BY CountHist DEF Count!TypeOK
    <2>2. \A i \in Count!Sigs : pending'[i] <= pending[i] /\ pending'[i] \in Nat
      BY <1>2, <2>1
    <2>3. \A i \in Count!Sigs :
             sigCnt[i] + pending'[i] <= hist.open[i] + (IF i \in RtSigs \/ hist.shut[i] = 0
                                                        THEN hist.shut[i] ELSE 1)
      BY <2>1, <2>2 DEF Count!CountInv
    <2>4. \A i \in Count!Sigs : i \notin RtSigs => pending'[i] <= 1
      BY <2>1, <2>2 DEF Count!CountInv
    <2>5. pc' \in {"setup", "block"} => pc' = pc
      BY <1>1
    <2> QED
      BY <1>1, <1>3, <2>3, <2>4, <2>5 DEF Count!CountInv
  <1> QED
    BY <1>4, <1>5, <1>6, <1>7

\* Every step of sig_receiver and its senders.
LEMMA CountStep == Count!IndInv /\ [Count!Next]_(Count!vars) => Count!IndInv'
  <1> SUFFICES ASSUME Count!IndInv, [Count!Next]_(Count!vars) PROVE Count!IndInv'
    OBVIOUS
  <1> USE SignalsAssumption DEF Count!IndInv
  <1>0. ASSUME Count!Runs, NEW t \in hist.seen PROVE Count!Settled(t)
    <2>1. sig[t] \in Count!Sigs
      BY <1>0, CountHist DEF Count!TypeOK
    <2> QED
      BY <1>0, <2>1 DEF Count!Runs, Count!Deliverable, Count!KindInv
  <1>1. CASE Count!Setup
    <2>1. /\ pc = "setup" /\ n \in 1..NSIG - 1 /\ handled' = handled \cup ({n} \ NoHandler)
          /\ (n < NSIG - 1 /\ n' = n + 1 /\ pc' = "setup")
               \/ (n' = 1 /\ pc' \in {"block", "loop"})
          /\ UNCHANGED <<blocked, pending, stopped, sigCnt, gotSigint, shown,
                         spc, todo, sig, fin, hist>>
      BY <1>1 DEF Count!Setup, Count!PlaceInv, Count!TypeOK, Count!sendVars
    <2>2. Count!TypeOK'
      <3>1. n \in Count!Sigs /\ n' \in 1..NSIG
        BY <2>1 DEF Count!Sigs
      <3>2. kernel' \in BOOLEAN
        BY <1>1, Zenon DEF Count!Setup
      <3> QED
        BY <2>1, <3>1, <3>2 DEF Count!TypeOK
    <2>3. Count!PlaceInv' /\ Count!CountInv'
      BY <2>1 DEF Count!PlaceInv, Count!CountInv
    <2>4. Count!KindInv'
      <3>1. \A t \in hist.seen : Count!Settled(t)
        BY <1>0, <1>1 DEF Count!Setup
      <3> QED
        BY <2>1, <3>1 DEF Count!KindInv, Count!Settled
    <2> QED
      BY <2>2, <2>3, <2>4
  <1>2. CASE Count!Block \/ Count!Unblock
    <2>1. /\ UNCHANGED <<n, handled, pending, stopped, sigCnt, gotSigint, shown,
                         spc, todo, sig, fin, hist>>
          /\ \/ pc = "block" /\ pc' = "sleep" /\ blocked' = TRUE
             \/ pc = "sleep" /\ pc' = "loop" /\ blocked' = FALSE
      BY <1>2 DEF Count!Block, Count!Unblock, Count!sendVars
    <2>2. blocked' \in BOOLEAN /\ kernel' \in BOOLEAN
      BY <1>2, Zenon DEF Count!Block, Count!Unblock
    <2>3. Count!TypeOK' /\ Count!PlaceInv'
      BY <2>1, <2>2 DEF Count!TypeOK, Count!PlaceInv
    <2>4. Count!KindInv'
      <3>1. \A t \in hist.seen : Count!Settled(t)
        BY <1>0, <1>2 DEF Count!Block, Count!Unblock
      <3> QED
        BY <2>1, <3>1 DEF Count!KindInv, Count!Settled
    <2>5. Count!CountInv'
      <3>1. \A i \in Count!Sigs : /\ sigCnt[i] \in Nat /\ hist.open[i] \in Nat
                                  /\ hist.shut[i] \in Nat /\ pending[i] \in Nat
        BY CountHist DEF Count!TypeOK
      <3>2. pc = "block" => \A i \in Count!Sigs : sigCnt[i] <= hist.open[i]
        BY <3>1 DEF Count!CountInv
      <3> QED
        BY <2>1, <3>2 DEF Count!CountInv
    <2> QED
      BY <2>3, <2>4, <2>5
  <1>3. ASSUME NEW k \in Count!Sigs, Count!Deliver(k) \/ Count!DeliverDefault(k)
        PROVE  Count!IndInv'
    BY <1>3, CountDelivered, CountDefault
  <1>5. CASE Count!Loop
    <2>1. /\ pc = "loop" /\ n = 1 /\ pc' = "print"
          /\ UNCHANGED <<n, handled, blocked, pending, stopped, sigCnt, gotSigint, shown,
                         spc, todo, sig, fin, hist>>
      BY <1>5 DEF Count!Loop, Count!PlaceInv, Count!sendVars
    <2>2. \A s \in hist.seen : ~(sig[s] < 1) /\ Count!Settled(s)
      <3>1. \A s \in hist.seen : sig[s] \in 1..NSIG - 1
        BY CountHist DEF Count!TypeOK, Count!Sigs
      <3> QED
        BY <1>0, <1>5, <3>1 DEF Count!Loop
    <2>3. Count!TypeOK'
      <3>1. kernel' \in BOOLEAN
        BY <1>5, Zenon DEF Count!Loop
      <3> QED
        BY <2>1, <3>1 DEF Count!TypeOK
    <2>4. Count!PlaceInv' /\ Count!CountInv'
      BY <2>1 DEF Count!PlaceInv, Count!CountInv
    <2>5. Count!KindInv'
      BY <2>1, <2>2 DEF Count!KindInv, Count!Settled
    <2> QED
      BY <2>3, <2>4, <2>5
  <1>6. CASE Count!Show
    <2>1. /\ pc = "print" /\ n \in Count!Sigs /\ n' = n + 1
          /\ shown' = [shown EXCEPT ![n] = sigCnt[n]]
          /\ pc' = IF n = NSIG - 1 THEN "done" ELSE "print"
          /\ UNCHANGED <<handled, blocked, pending, stopped, sigCnt, gotSigint,
                         spc, todo, sig, fin, hist>>
      BY <1>6 DEF Count!Show, Count!TypeOK, Count!PlaceInv, Count!Sigs, Count!sendVars
    <2>2. Count!TypeOK'
      <3>1. n' \in 1..NSIG
        BY <2>1 DEF Count!Sigs
      <3>2. kernel' \in BOOLEAN
        BY <1>6, Zenon DEF Count!Show
      <3> QED
        BY <2>1, <3>1, <3>2 DEF Count!TypeOK
    <2>3. Count!PlaceInv' /\ Count!CountInv'
      <3>1. Count!PlaceInv'
        BY <2>1 DEF Count!PlaceInv, Count!Sigs
      <3>2. Count!CountInv'
        BY <2>1 DEF Count!CountInv
      <3> QED
        BY <3>1, <3>2
    <2>4. Count!KindInv'
      <3>1. \A s \in hist.seen : sig[s] \in Count!Sigs /\ sig[s] \in Int /\ Count!Settled(s)
        <4>1. \A s \in hist.seen : sig[s] \in 1..NSIG - 1
          BY CountHist DEF Count!TypeOK, Count!Sigs
        <4> QED
          BY <1>0, <1>6, <4>1 DEF Count!Show, Count!Sigs
      <3>2. shown'[n] = sigCnt[n] /\ \A k \in Count!Sigs : k # n => shown'[k] = shown[k]
        BY <2>1 DEF Count!TypeOK
      <3>3. \A s \in hist.seen : sig[s] < n + 1 =>
               sig[s] = SIGINT \/ sig[s] \in hist.gone \/ shown'[sig[s]] >= 1
        BY <2>1, <3>1, <3>2 DEF Count!KindInv, Count!Settled, Count!Sigs
      <3> QED
        BY <2>1, <3>1, <3>3 DEF Count!KindInv, Count!Settled
    <2> QED
      BY <2>2, <2>3, <2>4
  <1>7. ASSUME NEW s \in Senders, Count!SendFirst(s) PROVE Count!IndInv'
    <2>1. PICK next : next = IF todo[s] > 1 THEN "first"
                             ELSE IF fin[s] # 0 THEN "second" ELSE "done"
      OBVIOUS
    <2>2. PICK k : k = sig[s]
      OBVIOUS
    <2>3. Count!Kill(s, k, next) /\ k \in Count!Sigs
      BY <1>7, <2>1, <2>2 DEF Count!SendFirst, Count!TypeOK
    <2>4. /\ todo' \in [Senders -> 0..MaxSigs] /\ todo'[s] = todo[s] - 1
          /\ \A t \in Senders \ {s} : todo'[t] = todo[t]
      <3>0. spc[s] = "first" /\ todo[s] \in 0..MaxSigs
        BY <1>7 DEF Count!SendFirst, Count!TypeOK
      <3>1. todo[s] - 1 \in 0..MaxSigs
        <4>1. todo[s] > 0
          BY <3>0 DEF Count!TypeOK
        <4> QED
          BY <3>0, <4>1
      <3>2. todo' = [todo EXCEPT ![s] = todo[s] - 1] /\ todo \in [Senders -> 0..MaxSigs]
        BY <1>7 DEF Count!SendFirst, Count!TypeOK
      <3> QED
        BY <3>1, <3>2
    <2>5. UNCHANGED <<Count!recvVars, sig, fin>>
      BY <1>7 DEF Count!SendFirst
    <2>6. next = "first" => todo'[s] > 0
      BY <2>1, <2>4 DEF Count!TypeOK
    <2> QED
      BY <2>1, <2>2, <2>3, <2>4, <2>5, <2>6, CountSent
  <1>8. ASSUME NEW s \in Senders, Count!SendSecond(s) PROVE Count!IndInv'
    <2>1. fin[s] \in Count!Sigs
      <3>1. fin[s] \in 0..NSIG - 1 /\ fin[s] # 0
        BY <1>8 DEF Count!SendSecond, Count!TypeOK
      <3> QED
        BY <3>1 DEF Count!Sigs
    <2>2. PICK k : k = fin[s]
      OBVIOUS
    <2>3. Count!Kill(s, k, "done") /\ UNCHANGED <<Count!recvVars, sig, fin, todo>> /\ spc[s] = "second"
      BY <1>8, <2>2 DEF Count!SendSecond
    <2> QED
      BY <2>1, <2>2, <2>3, CountSent DEF Count!TypeOK
  <1>9. CASE UNCHANGED Count!vars
    BY <1>9 DEF Count!vars, Count!TypeOK, Count!PlaceInv, Count!KindInv, Count!Settled,
                Count!CountInv
  <1> QED
    BY <1>1, <1>2, <1>3, <1>5, <1>6, <1>7, <1>8, <1>9
    DEF Count!Next, Count!Receiver, Count!Sender

-----------------------------------------------------------------------------
(* catch_rtsigs.                                                           *)

\* The kernel finds the lowest deliverable signal.
LEMMA LowestDeliverable ==
  ASSUME NEW S \in SUBSET Rt!Sigs, S # {}
  PROVE  Rt!Min(S) \in S
  <1>1. S \subseteq Nat
    BY SignalsAssumption DEF Rt!Sigs
  <1> DEFINE R == {ss \in Nat \X Nat : ss[1] < ss[2]}
  <1>2. IsWellFoundedOn(R, Nat)
    BY NatLessThanWellFounded, Zenon DEF OpToRel
  <1>3. PICK m \in S : \A y \in S : ~(<<y, m>> \in R)
    BY <1>1, <1>2, WFMin, Zenon
  <1>4. \A y \in S : m <= y
    <2> SUFFICES ASSUME NEW y \in S, ~(m <= y) PROVE FALSE
      OBVIOUS
    <2>1. <<y, m>> \in Nat \X Nat /\ y < m
      BY <1>1
    <2> QED
      BY <1>3, <2>1
  <1> QED
    BY <1>4 DEF Rt!Min

\* Cardinality is the same operator in the instance.
LEMMA RtCardinality == \A S : Rt!Cardinality(S) = Cardinality(S)
  BY DEF Rt!Cardinality, Cardinality

\* The handler's runs are finitely many, and one more is one more.
LEMMA RunsCounted ==
  ASSUME Rt!TypeOK, NEW k \in Rt!Sigs \ Ends, NEW v \in Rt!Value,
         log' = [log EXCEPT ![k] = Append(@, v)]
  PROVE  /\ Rt!Cardinality(Rt!HandlerRuns) \in Nat
         /\ Rt!Cardinality(Rt!HandlerRuns') = Rt!Cardinality(Rt!HandlerRuns) + 1
  <1>1. IsFiniteSet(Rt!Sigs \ Ends)
    <2>1. IsFiniteSet(1..NSIG - 1)
      BY FS_Interval, SignalsAssumption
    <2> QED
      BY <2>1, FS_Subset DEF Rt!Sigs
  <1> DEFINE T(i) == {<<i, m>> : m \in 1..Len(log[i])}
  <1>2. \A i \in Rt!Sigs \ Ends : IsFiniteSet(T(i))
    <2> SUFFICES ASSUME NEW i \in Rt!Sigs \ Ends PROVE IsFiniteSet(T(i))
      OBVIOUS
    <2>1. Len(log[i]) \in Nat
      BY DEF Rt!TypeOK
    <2>2. IsFiniteSet(1..Len(log[i]))
      BY <2>1, FS_Interval
    <2>3. IsFiniteSet({i} \X (1..Len(log[i])))
      BY <2>2, FS_Singleton, FS_Product
    <2>4. T(i) \subseteq {i} \X (1..Len(log[i]))
      OBVIOUS
    <2> QED
      BY <2>3, <2>4, FS_Subset
  <1>3. IsFiniteSet({T(i) : i \in Rt!Sigs \ Ends})
    <2> DEFINE I == Rt!Sigs \ Ends
               f == [i \in I |-> T(i)]
    <2>1. f \in Surjection(I, {T(i) : i \in I})
      BY Zenon DEF Surjection
    <2> QED
      BY <1>1, <2>1, FS_Surjection, Zenon
  <1>4. Rt!HandlerRuns = UNION {T(i) : i \in Rt!Sigs \ Ends}
    BY Zenon DEF Rt!HandlerRuns
  <1>5. IsFiniteSet(Rt!HandlerRuns)
    BY <1>2, <1>3, <1>4, FS_UNION, Zenon
  <1>6. Len(log[k]) \in Nat /\ Len(log'[k]) = Len(log[k]) + 1
          /\ \A i \in Rt!Sigs : i # k => log'[i] = log[i]
    BY DEF Rt!TypeOK
  <1>7. Rt!HandlerRuns' = Rt!HandlerRuns \cup {<<k, Len(log[k]) + 1>>}
    <2>1. ASSUME NEW z \in Rt!HandlerRuns' PROVE z \in Rt!HandlerRuns \cup {<<k, Len(log[k]) + 1>>}
      <3>1. PICK i \in Rt!Sigs \ Ends : \E m \in 1..Len(log'[i]) : z = <<i, m>>
        BY <2>1 DEF Rt!HandlerRuns
      <3>2. CASE i # k
        BY <1>6, <3>1, <3>2 DEF Rt!HandlerRuns
      <3>3. CASE i = k
        <4>0. PICK m \in 1..Len(log'[k]) : z = <<k, m>>
          BY <3>1, <3>3
        <4>1. m \in 1..Len(log[k]) \/ m = Len(log[k]) + 1
          BY <1>6, <4>0
        <4> QED
          BY <3>3, <4>0, <4>1 DEF Rt!HandlerRuns
      <3> QED
        BY <3>2, <3>3
    <2>2. ASSUME NEW z \in Rt!HandlerRuns PROVE z \in Rt!HandlerRuns'
      <3>1. PICK i \in Rt!Sigs \ Ends : \E m \in 1..Len(log[i]) : z = <<i, m>>
        BY <2>2 DEF Rt!HandlerRuns
      <3>2. \E m \in 1..Len(log'[i]) : z = <<i, m>>
        BY <1>6, <3>1
      <3> QED
        BY <3>2 DEF Rt!HandlerRuns
    <2>3. <<k, Len(log[k]) + 1>> \in Rt!HandlerRuns'
      <3>1. Len(log[k]) + 1 \in 1..Len(log'[k])
        BY <1>6
      <3> QED
        BY <3>1 DEF Rt!HandlerRuns
    <2> QED
      BY <2>1, <2>2, <2>3
  <1>8. <<k, Len(log[k]) + 1>> \notin Rt!HandlerRuns
    <2> SUFFICES ASSUME <<k, Len(log[k]) + 1>> \in Rt!HandlerRuns PROVE FALSE
      OBVIOUS
    <2>1. PICK i \in Rt!Sigs \ Ends : \E m \in 1..Len(log[i]) : <<k, Len(log[k]) + 1>> = <<i, m>>
      BY DEF Rt!HandlerRuns
    <2> QED
      BY <1>6, <2>1
  <1> QED
    BY <1>5, <1>7, <1>8, RtCardinality, FS_AddElement, FS_CardinalityType

\* Only signals that are not counted were handled: the runs are the same.
LEMMA RunsKept ==
  ASSUME \A i \in Rt!Sigs \ Ends : log'[i] = log[i]
  PROVE  Rt!HandlerRuns' = Rt!HandlerRuns
  BY DEF Rt!HandlerRuns

\* A value that is handled moves from the queue to the log.
LEMMA HeadMoves ==
  ASSUME NEW S, NEW a \in Seq(S), NEW b \in Seq(S), b # <<>>
  PROVE  /\ Head(b) \in S /\ Tail(b) \in Seq(S) /\ Append(a, Head(b)) \in Seq(S)
         /\ Append(a, Head(b)) \o Tail(b) = a \o b
         /\ Len(Append(a, Head(b))) = Len(a) + 1 /\ Len(Tail(b)) = Len(b) - 1
  OBVIOUS

\* A value that is queued comes last.
LEMMA AppendOuter ==
  ASSUME NEW S, NEW a \in Seq(S), NEW b \in Seq(S), NEW v \in S
  PROVE  a \o Append(b, v) = Append(a \o b, v)
  OBVIOUS

\* The start of the handler.
LEMMA RtDelivered == Rt!IndInv /\ Rt!Deliver => Rt!IndInv'
  <1> SUFFICES ASSUME Rt!IndInv, Rt!Deliver PROVE Rt!IndInv'
    OBVIOUS
  <1> USE SignalsAssumption DEF Rt!IndInv
  <1>1. PICK k : k = Rt!Min(Rt!Deliverable)
    OBVIOUS
  <1>2. k \in Rt!Sigs /\ pend[k] # <<>>
    <2>1. Rt!Deliverable \in SUBSET Rt!Sigs /\ Rt!Deliverable # {}
      BY DEF Rt!Deliver, Rt!Deliverable
    <2>2. k \in Rt!Deliverable
      BY <1>1, <2>1, LowestDeliverable
    <2> QED
      BY <2>2 DEF Rt!Deliverable
  <1>3. /\ pend' = [pend EXCEPT ![k] = Tail(@)]
        /\ log' = [log EXCEPT ![k] = Append(@, Head(pend[k]))]
        /\ woken' = TRUE
        /\ UNCHANGED <<pc, n, handled, blocked, stopped, Rt!sendVars>>
    BY <1>1 DEF Rt!Deliver
  <1>4. \/ /\ k \in Ends /\ allDone' = TRUE
           /\ hist' = IF allDone THEN hist ELSE [hist EXCEPT !.at = pc]
           /\ UNCHANGED <<inHandler, sigCnt>>
        \/ /\ k \notin Ends /\ inHandler' = TRUE /\ sigCnt' = sigCnt + 1
           /\ UNCHANGED <<allDone, hist>>
    BY <1>1 DEF Rt!Deliver
  <1>5. pend[k] \in Seq(Rt!Value) /\ log[k] \in Seq(Rt!Value)
    BY <1>2 DEF Rt!TypeOK
  <1>6. /\ Head(pend[k]) \in Rt!Value /\ pend'[k] \in Seq(Rt!Value) /\ log'[k] \in Seq(Rt!Value)
        /\ log'[k] \o pend'[k] = log[k] \o pend[k]
        /\ Len(log'[k]) = Len(log[k]) + 1 /\ Len(pend'[k]) = Len(pend[k]) - 1
        /\ Len(log[k]) \in Nat /\ Len(pend[k]) \in Nat
    <2>1. pend'[k] = Tail(pend[k]) /\ log'[k] = Append(log[k], Head(pend[k]))
      BY <1>2, <1>3 DEF Rt!TypeOK
    <2>2. Len(log[k]) \in Nat /\ Len(pend[k]) \in Nat
      BY <1>5
    <2>3. /\ Head(pend[k]) \in Rt!Value /\ Tail(pend[k]) \in Seq(Rt!Value)
          /\ Append(log[k], Head(pend[k])) \in Seq(Rt!Value)
          /\ Append(log[k], Head(pend[k])) \o Tail(pend[k]) = log[k] \o pend[k]
          /\ Len(Append(log[k], Head(pend[k]))) = Len(log[k]) + 1
          /\ Len(Tail(pend[k])) = Len(pend[k]) - 1
      BY ONLY <1>2, <1>5, HeadMoves, Zenon
    <2> QED
      BY <2>1, <2>2, <2>3, Zenon
  <1>7. \A i \in Rt!Sigs : i # k => pend'[i] = pend[i] /\ log'[i] = log[i]
    BY <1>3 DEF Rt!TypeOK
  <1>8. /\ hist'.sent = hist.sent /\ hist'.owed = hist.owed /\ hist'.gone = hist.gone
        /\ hist'.at = IF k \in Ends /\ ~allDone THEN pc ELSE hist.at
        /\ hist' = [sent |-> hist'.sent, owed |-> hist'.owed, gone |-> hist'.gone, at |-> hist'.at]
    <2>1. hist = [sent |-> hist.sent, owed |-> hist.owed, gone |-> hist.gone, at |-> hist.at]
      BY DEF Rt!TypeOK
    <2> QED
      BY <1>4, <2>1
  <1>9. Rt!TypeOK'
    <2>1. pend' \in [Rt!Sigs -> Seq(Rt!Value)] /\ log' \in [Rt!Sigs -> Seq(Rt!Value)]
      BY <1>2, <1>3, <1>6 DEF Rt!TypeOK
    <2>2. woken' \in BOOLEAN /\ allDone' \in BOOLEAN /\ inHandler' \in BOOLEAN
      BY <1>3, <1>4, Zenon DEF Rt!TypeOK
    <2>3. \A i \in Rt!Sigs : i \notin RtSigs => Len(pend'[i]) <= 1
      <3>1. k \notin RtSigs => Len(pend[k]) <= 1
        BY <1>2 DEF Rt!TypeOK
      <3>2. k \notin RtSigs => Len(pend'[k]) <= 1
        BY <1>6, <3>1
      <3> QED
        BY <1>7, <3>2 DEF Rt!TypeOK
    <2>4. sigCnt' \in Nat
      BY <1>4 DEF Rt!TypeOK
    <2> QED
      BY <1>3, <1>8, <2>1, <2>2, <2>3, <2>4 DEF Rt!TypeOK, Rt!sendVars
  <1>10. Rt!InOrder'
    <2>1. \A i \in Rt!Sigs \ hist'.gone : log'[i] \o pend'[i] = hist'.sent[i]
      BY <1>6, <1>7, <1>8 DEF Rt!InOrder
    <2>2. CASE k \in Ends
      <3>1. Rt!HandlerRuns' = Rt!HandlerRuns /\ sigCnt' = sigCnt
        BY <1>4, <1>7, <2>2, RunsKept
      <3> QED
        BY <2>1, <3>1 DEF Rt!InOrder
    <2>3. CASE k \notin Ends
      <3>1. PICK v : v = Head(pend[k])
        OBVIOUS
      <3>2. v \in Rt!Value /\ log' = [log EXCEPT ![k] = Append(@, v)] /\ k \in Rt!Sigs \ Ends
        BY <1>2, <1>3, <1>6, <2>3, <3>1
      <3>3. Rt!Cardinality(Rt!HandlerRuns') = Rt!Cardinality(Rt!HandlerRuns) + 1
        BY <3>2, RunsCounted
      <3>4. sigCnt' = sigCnt + 1
        BY <1>4, <2>3
      <3> QED
        BY <2>1, <3>3, <3>4 DEF Rt!InOrder
    <2> QED
      BY <2>2, <2>3
  <1>11. Rt!OwedInv'
    <2>1. \A i \in Rt!Sigs : Len(log[i]) \in Nat /\ Len(log'[i]) \in Nat
            /\ Len(log'[i]) >= Len(log[i]) /\ hist.owed[i] \in Nat
      <3>1. \A i \in Rt!Sigs : Len(log[i]) \in Nat /\ hist.owed[i] \in Nat
        BY DEF Rt!TypeOK
      <3> QED
        BY <1>6, <1>7, <3>1
    <2> QED
      BY <1>3, <1>8, <2>1 DEF Rt!OwedInv
  <1>12. Rt!RaceInv'
    BY <1>3, <1>4, <1>8 DEF Rt!RaceInv
  <1>13. Rt!PausesOnlyByRace'
    BY <1>3 DEF Rt!PausesOnlyByRace
  <1> QED
    BY <1>9, <1>10, <1>11, <1>12, <1>13

\* The default action of a signal.
LEMMA RtDefault == Rt!IndInv /\ Rt!DeliverDefault => Rt!IndInv'
  <1> SUFFICES ASSUME Rt!IndInv, Rt!DeliverDefault PROVE Rt!IndInv'
    OBVIOUS
  <1> USE SignalsAssumption DEF Rt!IndInv
  <1>1. PICK k : k = Rt!Min(Rt!Deliverable)
    OBVIOUS
  <1>2. k \in Rt!Sigs /\ pend[k] # <<>>
    <2>1. Rt!Deliverable \in SUBSET Rt!Sigs /\ Rt!Deliverable # {}
      BY DEF Rt!DeliverDefault, Rt!Deliverable
    <2>2. k \in Rt!Deliverable
      BY <1>1, <2>1, LowestDeliverable
    <2> QED
      BY <2>2 DEF Rt!Deliverable
  <1>3. /\ pend' = [pend EXCEPT ![k] = Tail(@)]
        /\ stopped' = (k \in Stops)
        /\ pc' = IF k \in Stops THEN pc ELSE "killed"
        /\ hist' = [hist EXCEPT !.gone = @ \cup {k}]
        /\ UNCHANGED <<Rt!mainVars, Rt!sendVars>>
    BY <1>1 DEF Rt!DeliverDefault
  <1>4. /\ hist'.sent = hist.sent /\ hist'.owed = hist.owed /\ hist'.at = hist.at
        /\ hist'.gone = hist.gone \cup {k}
        /\ hist' = [sent |-> hist'.sent, owed |-> hist'.owed, gone |-> hist'.gone, at |-> hist'.at]
    <2>1. hist = [sent |-> hist.sent, owed |-> hist.owed, gone |-> hist.gone, at |-> hist.at]
      BY DEF Rt!TypeOK
    <2> QED
      BY <1>3, <2>1
  <1>5. /\ pend[k] \in Seq(Rt!Value) /\ pend'[k] = Tail(pend[k])
        /\ \A i \in Rt!Sigs : i # k => pend'[i] = pend[i]
    BY <1>2, <1>3 DEF Rt!TypeOK
  <1>6. Tail(pend[k]) \in Seq(Rt!Value) /\ Len(Tail(pend[k])) = Len(pend[k]) - 1 /\ Len(pend[k]) \in Nat
    BY <1>2, <1>5
  <1>7. Rt!TypeOK'
    <2>1. pend' \in [Rt!Sigs -> Seq(Rt!Value)]
      BY <1>2, <1>3, <1>5, <1>6 DEF Rt!TypeOK
    <2>2. \A i \in Rt!Sigs : i \notin RtSigs => Len(pend'[i]) <= 1
      <3>1. k \notin RtSigs => Len(pend[k]) <= 1
        BY <1>2 DEF Rt!TypeOK
      <3>2. k \notin RtSigs => Len(pend'[k]) <= 1
        BY <1>5, <1>6, <3>1
      <3> QED
        BY <1>5, <3>2 DEF Rt!TypeOK
    <2>3. stopped' \in BOOLEAN
      <3>1. stopped' = TRUE \/ stopped' = FALSE
        BY <1>3
      <3> QED
        BY <3>1, Zenon
    <2> QED
      BY <1>2, <1>3, <1>4, <2>1, <2>2, <2>3 DEF Rt!TypeOK, Rt!mainVars, Rt!sendVars
  <1>8. Rt!InOrder'
    <2>1. log' = log /\ sigCnt' = sigCnt
      BY <1>3 DEF Rt!mainVars
    <2>2. Rt!HandlerRuns' = Rt!HandlerRuns
      BY <2>1, RunsKept
    <2>3. \A i \in Rt!Sigs \ hist'.gone : log'[i] \o pend'[i] = hist'.sent[i]
      BY <1>4, <1>5, <2>1 DEF Rt!InOrder
    <2> QED
      BY <2>1, <2>2, <2>3 DEF Rt!InOrder
  <1>9. Rt!OwedInv'
    BY <1>3, <1>4 DEF Rt!OwedInv, Rt!mainVars
  <1>10. Rt!RaceInv' /\ Rt!PausesOnlyByRace'
    BY <1>3, <1>4 DEF Rt!RaceInv, Rt!PausesOnlyByRace, Rt!mainVars
  <1> QED
    BY <1>7, <1>8, <1>9, <1>10

\* A call of sigqueue().
LEMMA RtQueued ==
  ASSUME Rt!IndInv, NEW s \in Senders, Rt!Sigqueue(s)
  PROVE  Rt!IndInv'
  <1> USE SignalsAssumption DEF Rt!IndInv
  <1>1. PICK k : k = sig[s]
    OBVIOUS
  <1>2. PICK v : v = [from |-> s, num |-> todo[s]]
    OBVIOUS
  <1>3. k \in Rt!Sigs /\ v \in Rt!Value /\ todo[s] \in 0..MaxSigs /\ spc[s] = "send" /\ todo[s] > 0
          /\ UNCHANGED <<pc, Rt!mainVars, sig>>
    BY <1>1, <1>2 DEF Rt!TypeOK, Rt!Value, Rt!Sigqueue
  <1>4. /\ \/ spc' = [spc EXCEPT ![s] = "failed"] /\ todo' = todo
           \/ /\ todo' = [todo EXCEPT ![s] = @ - 1]
              /\ spc' = [spc EXCEPT ![s] = IF todo[s] = 1 THEN "done" ELSE @]
        /\ \/ UNCHANGED <<stopped, pend, hist>>
           \/ /\ stopped' = (stopped /\ k \notin {SIGCONT, SIGKILL})
              /\ pend' = [j \in Rt!Sigs |->
                    IF j = k THEN IF Rt!Dropped(k) THEN pend[k] ELSE Append(pend[k], v)
                    ELSE IF j \in Rt!Discards(k) THEN <<>> ELSE pend[j]]
              /\ hist' = [hist EXCEPT
                    !.sent[k] = IF Rt!Dropped(k) THEN @ ELSE Append(@, v),
                    !.gone = @ \cup {j \in Rt!Discards(k) : pend[j] # <<>>}]
    BY <1>1, <1>2 DEF Rt!Sigqueue
  <1>5. /\ spc' \in [Senders -> {"send", "done", "failed"}] /\ todo' \in [Senders -> 0..MaxSigs]
        /\ \A t \in Senders : spc'[t] = "send" => todo'[t] > 0
    <2>1. todo[s] - 1 \in 0..MaxSigs /\ (todo[s] # 1 => todo[s] - 1 > 0)
      BY <1>3
    <2>2. CASE spc' = [spc EXCEPT ![s] = "failed"] /\ todo' = todo
      BY <2>2 DEF Rt!TypeOK
    <2>3. CASE /\ todo' = [todo EXCEPT ![s] = @ - 1]
               /\ spc' = [spc EXCEPT ![s] = IF todo[s] = 1 THEN "done" ELSE @]
      <3>1. spc' \in [Senders -> {"send", "done", "failed"}] /\ todo' \in [Senders -> 0..MaxSigs]
        BY <2>1, <2>3 DEF Rt!TypeOK
      <3>2. /\ todo'[s] = todo[s] - 1 /\ spc'[s] = IF todo[s] = 1 THEN "done" ELSE spc[s]
            /\ \A t \in Senders : t # s => todo'[t] = todo[t] /\ spc'[t] = spc[t]
        BY <2>3 DEF Rt!TypeOK
      <3> QED
        BY <2>1, <3>1, <3>2 DEF Rt!TypeOK
    <2> QED
      BY <1>4, <2>2, <2>3
  <1>6. CASE UNCHANGED <<stopped, pend, hist>>
    <2>1. Rt!TypeOK'
      BY <1>3, <1>5, <1>6 DEF Rt!TypeOK, Rt!mainVars
    <2>4. Rt!InOrder'
      <3>1. log' = log /\ pend' = pend /\ hist' = hist /\ sigCnt' = sigCnt
        BY <1>3, <1>6 DEF Rt!mainVars
      <3>2. Rt!HandlerRuns' = Rt!HandlerRuns
        BY <3>1 DEF Rt!HandlerRuns
      <3> QED
        BY <3>1, <3>2 DEF Rt!InOrder
    <2>2. Rt!OwedInv'
      BY <1>3, <1>6, SMTT(20) DEF Rt!OwedInv, Rt!mainVars
    <2>3. Rt!RaceInv' /\ Rt!PausesOnlyByRace'
      BY <1>3, <1>6, SMTT(20) DEF Rt!RaceInv, Rt!PausesOnlyByRace, Rt!mainVars, Rt!HandlerRuns
    <2> QED
      BY <2>1, <2>2, <2>3, <2>4
  <1>7. CASE /\ stopped' = (stopped /\ k \notin {SIGCONT, SIGKILL})
             /\ pend' = [j \in Rt!Sigs |->
                   IF j = k THEN IF Rt!Dropped(k) THEN pend[k] ELSE Append(pend[k], v)
                   ELSE IF j \in Rt!Discards(k) THEN <<>> ELSE pend[j]]
             /\ hist' = [hist EXCEPT
                   !.sent[k] = IF Rt!Dropped(k) THEN @ ELSE Append(@, v),
                   !.gone = @ \cup {j \in Rt!Discards(k) : pend[j] # <<>>}]
    <2>1. /\ hist'.sent = [hist.sent EXCEPT ![k] = IF Rt!Dropped(k) THEN @ ELSE Append(@, v)]
          /\ hist'.gone = hist.gone \cup {j \in Rt!Discards(k) : pend[j] # <<>>}
          /\ hist'.owed = hist.owed /\ hist'.at = hist.at
          /\ hist' = [sent |-> hist'.sent, owed |-> hist'.owed, gone |-> hist'.gone, at |-> hist'.at]
      <3>1. hist = [sent |-> hist.sent, owed |-> hist.owed, gone |-> hist.gone, at |-> hist.at]
        BY DEF Rt!TypeOK
      <3> QED
        BY <1>7, <3>1
    <2>2. /\ pend[k] \in Seq(Rt!Value) /\ hist.sent[k] \in Seq(Rt!Value) /\ log[k] \in Seq(Rt!Value)
          /\ \/ pend'[k] = pend[k] /\ hist'.sent[k] = hist.sent[k]
             \/ /\ pend'[k] = Append(pend[k], v) /\ hist'.sent[k] = Append(hist.sent[k], v)
                /\ k \in RtSigs \/ pend[k] = <<>>
          /\ \A i \in Rt!Sigs : i # k =>
               /\ hist'.sent[i] = hist.sent[i]
               /\ pend'[i] = pend[i] \/ (pend'[i] = <<>> /\ i \in hist'.gone)
      <3>1. /\ pend[k] \in Seq(Rt!Value) /\ hist.sent[k] \in Seq(Rt!Value) /\ log[k] \in Seq(Rt!Value)
            /\ hist.sent \in [Rt!Sigs -> Seq(Rt!Value)]
        BY <1>3 DEF Rt!TypeOK
      <3>2. \/ pend'[k] = pend[k] /\ hist'.sent[k] = hist.sent[k]
            \/ /\ pend'[k] = Append(pend[k], v) /\ hist'.sent[k] = Append(hist.sent[k], v)
               /\ k \in RtSigs \/ pend[k] = <<>>
        BY <1>3, <1>7, <2>1, <3>1 DEF Rt!Dropped
      <3>3. \A i \in Rt!Sigs : i # k => hist'.sent[i] = hist.sent[i]
        BY <2>1, <3>1
      <3>4. \A i \in Rt!Sigs : i # k => pend'[i] = pend[i] \/ (pend'[i] = <<>> /\ i \in hist'.gone)
        BY <1>7, <2>1
      <3> QED
        BY <3>1, <3>2, <3>3, <3>4
    <2>3. Rt!TypeOK'
      <3>1. Append(pend[k], v) \in Seq(Rt!Value) /\ Append(hist.sent[k], v) \in Seq(Rt!Value)
              /\ <<>> \in Seq(Rt!Value) /\ Len(<<>>) = 0
              /\ (pend[k] = <<>> => Len(Append(pend[k], v)) = 1)
        BY <1>3, <2>2
      <3>2. \A i \in Rt!Sigs : pend'[i] \in Seq(Rt!Value) /\ hist'.sent[i] \in Seq(Rt!Value)
        BY <2>2, <3>1 DEF Rt!TypeOK
      <3>3. pend' \in [Rt!Sigs -> Seq(Rt!Value)] /\ hist'.sent \in [Rt!Sigs -> Seq(Rt!Value)]
        <4>1. hist.sent \in [Rt!Sigs -> Seq(Rt!Value)]
          BY DEF Rt!TypeOK
        <4>2. DOMAIN hist'.sent = Rt!Sigs /\ hist'.sent = [i \in Rt!Sigs |-> hist'.sent[i]]
          BY <2>1, <4>1
        <4> QED
          BY <1>7, <3>2, <4>2
      <3>4. \A i \in Rt!Sigs : i \notin RtSigs => Len(pend'[i]) <= 1
        <4>1. \A i \in Rt!Sigs : i \notin RtSigs => Len(pend[i]) <= 1
          BY DEF Rt!TypeOK
        <4>2. k \notin RtSigs => Len(pend'[k]) <= 1
          BY <1>3, <2>2, <3>1, <4>1
        <4> QED
          BY <2>2, <3>1, <4>1, <4>2
      <3>5. hist'.gone \subseteq Rt!Sigs
        BY <2>1 DEF Rt!TypeOK, Rt!Discards, Rt!Sigs
      <3>6. stopped' \in BOOLEAN
        BY <1>7, Zenon
      <3>7. hist'.owed \in [Rt!Sigs -> Nat]
        BY <2>1 DEF Rt!TypeOK
      <3> QED
        BY <1>3, <1>5, <2>1, <3>3, <3>4, <3>5, <3>6, <3>7 DEF Rt!TypeOK, Rt!mainVars
    <2>4. Rt!InOrder'
      <3>1. log[k] \o Append(pend[k], v) = Append(log[k] \o pend[k], v)
        <4>1. v \in Rt!Value /\ log[k] \in Seq(Rt!Value) /\ pend[k] \in Seq(Rt!Value)
          BY <1>3, <2>2
        <4>2. PICK a \in Seq(Rt!Value) : a = log[k]
          BY <4>1
        <4>3. PICK b \in Seq(Rt!Value) : b = pend[k]
          BY <4>1
        <4>4. a \o Append(b, v) = Append(a \o b, v)
          BY ONLY <4>1, a \in Seq(Rt!Value), b \in Seq(Rt!Value), AppendOuter
        <4> QED
          BY <4>2, <4>3, <4>4
      <3>2. log' = log /\ sigCnt' = sigCnt
        BY <1>3 DEF Rt!mainVars
      <3>3. Rt!HandlerRuns' = Rt!HandlerRuns
        BY <3>2, RunsKept
      <3>4. hist.gone \subseteq hist'.gone
        BY <2>1
      <3>5. \A i \in Rt!Sigs \ hist'.gone : log'[i] \o pend'[i] = hist'.sent[i]
        BY <2>2, <3>1, <3>2, <3>4 DEF Rt!InOrder
      <3> QED
        BY <3>2, <3>3, <3>5 DEF Rt!InOrder
    <2>5. Rt!OwedInv'
      <3>1. \A i \in Rt!Sigs : Len(hist.sent[i]) \in Nat /\ Len(hist'.sent[i]) \in Nat
               /\ Len(hist'.sent[i]) >= Len(hist.sent[i]) /\ hist.owed[i] \in Nat
        <4>1. \A i \in Rt!Sigs : Len(hist.sent[i]) \in Nat /\ hist.owed[i] \in Nat
          BY DEF Rt!TypeOK
        <4>2. Len(hist'.sent[k]) \in {Len(hist.sent[k]), Len(hist.sent[k]) + 1}
          BY <2>2
        <4> QED
          BY <2>2, <4>1, <4>2, SMTT(20)
      <3> QED
        BY <1>3, <2>1, <3>1 DEF Rt!OwedInv, Rt!mainVars
    <2>6. Rt!RaceInv' /\ Rt!PausesOnlyByRace'
      BY <1>3, <2>1 DEF Rt!RaceInv, Rt!PausesOnlyByRace, Rt!mainVars
    <2> QED
      BY <2>3, <2>4, <2>5, <2>6
  <1> QED
    BY <1>4, <1>6, <1>7

\* Every step of main(), of the handler and of the senders.
LEMMA RtStep == Rt!IndInv /\ [Rt!Next]_(Rt!vars) => Rt!IndInv'
  <1> SUFFICES ASSUME Rt!IndInv, [Rt!Next]_(Rt!vars) PROVE Rt!IndInv'
    OBVIOUS
  <1> USE SignalsAssumption DEF Rt!IndInv
  <1>1. ASSUME UNCHANGED <<log, sigCnt, pend, hist>> PROVE Rt!InOrder'
    BY <1>1, RunsKept DEF Rt!InOrder
  <1>2. CASE Rt!Install
    <2>0. /\ n \in Rt!Sigs /\ n' \in 1..NSIG /\ (pc' = "install" => n' < NSIG)
          /\ handled' \subseteq Rt!Sigs \ NoHandler
      <3>1. n \in Rt!Sigs /\ n' \in 1..NSIG /\ (pc' = "install" => n' < NSIG)
        <4>1. /\ n' = n + 1 /\ (pc' = "install" => n # NSIG - 1)
              /\ n \in 1..NSIG /\ n < NSIG
          BY <1>2 DEF Rt!Install, Rt!TypeOK
        <4> QED
          BY <4>1 DEF Rt!Sigs
      <3>2. handled' = handled \cup ({n} \ (NoHandler \cup {SIGQUIT}))
        BY <1>2 DEF Rt!Install
      <3> QED
        BY <3>1, <3>2 DEF Rt!TypeOK
    <2>1. Rt!TypeOK'
      BY <1>2, <2>0 DEF Rt!Install, Rt!TypeOK, Rt!sendVars
    <2> QED
      BY <1>1, <1>2, <2>1 DEF Rt!Install, Rt!OwedInv, Rt!RaceInv, Rt!PausesOnlyByRace
  <1>3. CASE Rt!Block
    <2>1. blocked' \in BOOLEAN
      BY <1>3, Zenon DEF Rt!Block
    <2>2. Rt!TypeOK'
      BY <1>3, <2>1 DEF Rt!Block, Rt!TypeOK, Rt!sendVars
    <2> QED
      BY <1>1, <1>3, <2>2 DEF Rt!Block, Rt!OwedInv, Rt!RaceInv, Rt!PausesOnlyByRace
  <1>4. CASE Rt!Sleep \/ Rt!EnterPause
    <2>1. woken' \in BOOLEAN
      BY <1>4, Zenon DEF Rt!Sleep, Rt!EnterPause
    <2>2. Rt!TypeOK'
      BY <1>4, <2>1 DEF Rt!Sleep, Rt!EnterPause, Rt!TypeOK, Rt!sendVars
    <2> QED
      BY <1>1, <1>4, <2>2
      DEF Rt!Sleep, Rt!EnterPause, Rt!OwedInv, Rt!RaceInv, Rt!PausesOnlyByRace
  <1>5. CASE Rt!Unblock
    <2>1. /\ blocked' = FALSE /\ pc' = "unblocked"
          /\ hist' = [hist EXCEPT !.owed = [k \in Rt!Sigs |-> Len(hist.sent[k])]]
          /\ UNCHANGED <<n, handled, pend, inHandler, stopped, woken, allDone, sigCnt, log, Rt!sendVars>>
      BY <1>5 DEF Rt!Unblock
    <2>2. /\ hist'.sent = hist.sent /\ hist'.at = hist.at /\ hist'.gone = hist.gone
          /\ hist'.owed = [k \in Rt!Sigs |-> Len(hist.sent[k])]
          /\ hist' = [sent |-> hist'.sent, owed |-> hist'.owed, gone |-> hist'.gone, at |-> hist'.at]
      <3>1. hist = [sent |-> hist.sent, owed |-> hist.owed, gone |-> hist.gone, at |-> hist.at]
        BY DEF Rt!TypeOK
      <3> QED
        BY <2>1, <3>1
    <2>3. \A k \in Rt!Sigs : Len(hist.sent[k]) \in Nat
      BY DEF Rt!TypeOK
    <2>4. blocked' \in BOOLEAN
      BY <2>1, Zenon
    <2>5. Rt!TypeOK'
      BY <2>1, <2>2, <2>3, <2>4 DEF Rt!TypeOK, Rt!sendVars
    <2>6. Rt!InOrder'
      BY <2>1, <2>2, RunsKept DEF Rt!InOrder
    <2>7. Rt!OwedInv' /\ Rt!RaceInv' /\ Rt!PausesOnlyByRace'
      BY <2>1, <2>2, <2>3 DEF Rt!OwedInv, Rt!RaceInv, Rt!PausesOnlyByRace
    <2> QED
      BY <2>5, <2>6, <2>7
  <1>6. CASE Rt!Unblocked
    <2>1. /\ pc = "unblocked" /\ Rt!Deliverable = {} /\ pc' = "test" /\ woken' = FALSE
          /\ UNCHANGED <<n, handled, blocked, pend, inHandler, stopped, allDone, sigCnt, log,
                         Rt!sendVars, hist>>
          /\ ~inHandler
      BY <1>6 DEF Rt!Unblocked, Rt!Returns, Rt!Runs
    <2>2. \A k \in Rt!Sigs : pend[k] = <<>>
      BY <2>1 DEF Rt!Deliverable, Rt!OwedInv
    <2>3. \A k \in Rt!Sigs \ hist.gone : log[k] = hist.sent[k]
      <3> SUFFICES ASSUME NEW k \in Rt!Sigs \ hist.gone PROVE log[k] = hist.sent[k]
        OBVIOUS
      <3>1. log[k] \in Seq(Rt!Value)
        BY DEF Rt!TypeOK
      <3>2. log[k] \o <<>> = log[k]
        BY <3>1
      <3> QED
        BY <2>2, <3>2 DEF Rt!InOrder
    <2>4. woken' \in BOOLEAN
      BY <2>1, Zenon
    <2>5. Rt!TypeOK'
      BY <2>1, <2>4 DEF Rt!TypeOK, Rt!sendVars
    <2>6. Rt!OwedInv' /\ Rt!RaceInv' /\ Rt!PausesOnlyByRace'
      <3>1. \A k \in Rt!Sigs \ hist.gone : Len(log[k]) >= hist.owed[k]
        <4>1. \A k \in Rt!Sigs : Len(log[k]) \in Nat /\ hist.owed[k] \in Nat
          BY DEF Rt!TypeOK
        <4> QED
          BY <2>3, <4>1 DEF Rt!OwedInv
      <3> QED
        BY <2>1, <3>1 DEF Rt!OwedInv, Rt!RaceInv, Rt!PausesOnlyByRace
    <2> QED
      BY <1>1, <2>1, <2>5, <2>6
  <1>7. CASE Rt!Test \/ Rt!LeavePause
    <2>1. /\ UNCHANGED <<Rt!mainVars, stopped, pend, Rt!sendVars, hist>>
          /\ \/ pc' \in {"exited", "test"} /\ pc \in {"test", "pause"}
             \/ pc = "test" /\ pc' = "toPause" /\ ~allDone
      BY <1>7 DEF Rt!Test, Rt!LeavePause
    <2>2. Rt!TypeOK'
      BY <2>1 DEF Rt!TypeOK, Rt!mainVars, Rt!sendVars
    <2>3. Rt!OwedInv' /\ Rt!RaceInv' /\ Rt!PausesOnlyByRace'
      BY <2>1 DEF Rt!OwedInv, Rt!RaceInv, Rt!PausesOnlyByRace, Rt!mainVars
    <2> QED
      BY <1>1, <2>1, <2>2, <2>3 DEF Rt!mainVars
  <1>8. CASE Rt!Deliver \/ Rt!DeliverDefault
    BY <1>8, RtDelivered, RtDefault
  <1>9. CASE Rt!HandlerReturn
    <2>1. inHandler' \in BOOLEAN
      BY <1>9, Zenon DEF Rt!HandlerReturn
    <2>2. Rt!TypeOK'
      BY <1>9, <2>1 DEF Rt!HandlerReturn, Rt!TypeOK, Rt!sendVars
    <2> QED
      BY <1>1, <1>9, <2>2 DEF Rt!HandlerReturn, Rt!OwedInv, Rt!RaceInv, Rt!PausesOnlyByRace
  <1>10. ASSUME NEW s \in Senders, Rt!Sigqueue(s) PROVE Rt!IndInv'
    BY <1>10, RtQueued
  <1>11. CASE UNCHANGED Rt!vars
    BY <1>1, <1>11 DEF Rt!vars, Rt!TypeOK, Rt!OwedInv, Rt!RaceInv, Rt!PausesOnlyByRace
  <1> QED
    BY <1>2, <1>3, <1>4, <1>5, <1>6, <1>7, <1>8, <1>9, <1>10, <1>11
    DEF Rt!Next, Rt!Receiver

-----------------------------------------------------------------------------
(* The behaviours of the two programs.                                     *)

\* A step is one of the program that runs, or changes nothing.
LEMMA SignalsStep ==
  ASSUME [Next]_vars
  PROVE  /\ program' = program
         /\ program = "sig_receiver" => [Count!Next]_(Count!vars)
         /\ program = "catch_rtsigs" => [Rt!Next]_(Rt!vars)
  <1>1. CASE Next
    BY <1>1 DEF Next, InCount, InRt
  <1>2. CASE UNCHANGED vars
    BY <1>2 DEF vars, countOnly, rtOnly, Count!vars, Rt!vars
  <1> QED
    BY <1>1, <1>2

\* A sig_receiver that ends shows every kind of signal that was sent before
\* the SIGINT that ended it and of which the kernel took none away (sig_
\* receiver.c lines 11-17, 28 and 65-73), and counts a standard signal that is
\* sent while blocked once (lines 34-62): for any number of signals, whichever
\* of them are real-time, stop or ignored signals or have no handler.
THEOREM CountsKinds == Spec => []KindCounted
  <1> DEFINE P == program = "sig_receiver" => Count!IndInv
  <1>1. Init => P
    <2> SUFFICES ASSUME Count!Init PROVE Count!IndInv
      BY DEF Init
    <2> USE SignalsAssumption DEF Count!Init
    <2>1. Count!TypeOK
      <3>1. blocked \in BOOLEAN /\ gotSigint \in BOOLEAN /\ kernel \in BOOLEAN /\ stopped \in BOOLEAN
        BY Zenon
      <3>2. \A s \in Senders : todo[s] \in 1..MaxSigs
        OBVIOUS
      <3>3. todo \in [Senders -> 0..MaxSigs] /\ \A s \in Senders : todo[s] > 0
        BY <3>2
      <3>4. spc \in [Senders -> {"first", "second", "done", "failed"}]
              /\ \A s \in Senders : spc[s] = "first"
        OBVIOUS
      <3>5. n \in 1..NSIG
        OBVIOUS
      <3> QED
        BY <3>1, <3>3, <3>4, <3>5 DEF Count!TypeOK
    <2>2. Count!PlaceInv
      BY DEF Count!PlaceInv
    <2>3. Count!KindInv
      BY DEF Count!KindInv
    <2>4. Count!CountInv
      BY DEF Count!CountInv
    <2> QED
      BY <2>1, <2>2, <2>3, <2>4 DEF Count!IndInv
  <1>2. P /\ [Next]_vars => P'
    BY SignalsStep, CountStep
  <1>3. P => KindCounted
    <2> SUFFICES ASSUME Count!IndInv PROVE Count!KindCounted /\ Count!Coalesced
      BY DEF KindCounted
    <2>1. Count!KindCounted
      <3>1. \A s \in Senders : sig[s] \in 1..NSIG - 1
        BY DEF Count!IndInv, Count!TypeOK, Count!Sigs
      <3>2. hist.seen \subseteq Senders
        BY DEF Count!IndInv, Count!TypeOK
      <3>3. (pc = "done" => n = NSIG) /\ NSIG \in Nat
        BY SignalsAssumption DEF Count!IndInv, Count!PlaceInv
      <3>4. pc = "done" => \A s \in hist.seen : sig[s] < n
        <4> SUFFICES ASSUME pc = "done", NEW s \in hist.seen PROVE sig[s] < n
          OBVIOUS
        <4>1. sig[s] \in 1..NSIG - 1 /\ n = NSIG
          BY <3>1, <3>2, <3>3
        <4> QED
          BY <3>3, <4>1
      <3> QED
        BY <3>4 DEF Count!IndInv, Count!KindInv, Count!KindCounted
    <2>2. Count!Coalesced
      <3> SUFFICES ASSUME NEW k \in Count!Sigs
                   PROVE  sigCnt[k] <= hist.open[k] + (IF k \in RtSigs \/ hist.shut[k] = 0
                                                       THEN hist.shut[k] ELSE 1)
        BY DEF Count!Coalesced
      <3>1. sigCnt[k] \in Nat /\ hist.open[k] \in Nat /\ pending[k] \in Nat /\ hist.shut[k] \in Nat
        BY CountHist DEF Count!IndInv, Count!TypeOK
      <3> QED
        BY <3>1 DEF Count!IndInv, Count!CountInv
    <2> QED
      BY <2>1, <2>2
  <1> QED
    BY <1>1, <1>2, <1>3, PTL DEF Spec

\* The invariant of catch_rtsigs.
LEMMA RtInvariant == Spec => [](program = "catch_rtsigs" => Rt!IndInv)
  <1> DEFINE P == program = "catch_rtsigs" => Rt!IndInv
  <1>1. Init => P
    <2> SUFFICES ASSUME Rt!Init PROVE Rt!IndInv
      BY DEF Init
    <2> USE SignalsAssumption DEF Rt!Init
    <2>1. Rt!TypeOK
      <3>1. /\ blocked \in BOOLEAN /\ inHandler \in BOOLEAN /\ stopped \in BOOLEAN
            /\ woken \in BOOLEAN /\ allDone \in BOOLEAN
        BY Zenon
      <3>2. <<>> \in Seq(Rt!Value) /\ Len(<<>>) = 0
        OBVIOUS
      <3>3. /\ pend \in [Rt!Sigs -> Seq(Rt!Value)] /\ log \in [Rt!Sigs -> Seq(Rt!Value)]
            /\ \A k \in Rt!Sigs : Len(pend[k]) <= 1
        BY <3>2
      <3>4. /\ hist.sent \in [Rt!Sigs -> Seq(Rt!Value)] /\ hist.owed \in [Rt!Sigs -> Nat]
            /\ hist.gone \subseteq Rt!Sigs
            /\ hist = [sent |-> hist.sent, owed |-> hist.owed, gone |-> hist.gone, at |-> hist.at]
        BY <3>2
      <3>5. \A s \in Senders : todo[s] \in 1..MaxSigs
        OBVIOUS
      <3>6. todo \in [Senders -> 0..MaxSigs] /\ \A s \in Senders : todo[s] > 0
        BY <3>5
      <3>7. spc \in [Senders -> {"send", "done", "failed"}]
        OBVIOUS
      <3>8. pc = "install" /\ n \in 1..NSIG /\ n < NSIG /\ handled = {} /\ sigCnt = 0
              /\ sig \in [Senders -> Rt!Sigs]
        OBVIOUS
      <3> QED
        BY <3>1, <3>3, <3>4, <3>6, <3>7, <3>8 DEF Rt!TypeOK
    <2>2. Rt!InOrder
      <3>1. <<>> \o <<>> = <<>> /\ Len(<<>>) = 0
        OBVIOUS
      <3>2. Rt!HandlerRuns = {}
        BY <3>1 DEF Rt!HandlerRuns
      <3>3. Rt!Cardinality(Rt!HandlerRuns) = 0
        BY <3>2, RtCardinality, FS_EmptySet
      <3> QED
        BY <3>1, <3>3 DEF Rt!InOrder
    <2>3. Rt!OwedInv
      BY DEF Rt!OwedInv
    <2>4. Rt!RaceInv /\ Rt!PausesOnlyByRace
      BY DEF Rt!RaceInv, Rt!PausesOnlyByRace
    <2> QED
      BY <2>1, <2>2, <2>3, <2>4 DEF Rt!IndInv
  <1>2. P /\ [Next]_vars => P'
    BY SignalsStep, RtStep
  <1> QED
    BY <1>1, <1>2, PTL DEF Spec

\* catch_rtsigs handles every queued value once and in the order of queueing
\* (catch_rtsigs.c lines 11-29), and what was queued before the unblocking
\* before it exits (line 56), for any number of signals, values and senders.
THEOREM RtQueuedHandled == Spec => []QueuedHandled
  <1>1. (program = "catch_rtsigs" => Rt!IndInv) => QueuedHandled
    BY DEF QueuedHandled, Rt!IndInv, Rt!OwedInv, Rt!OwedHandled
  <1> QED
    BY <1>1, RtInvariant, PTL

\* A SIGINT or SIGTERM is lost in pause() only by the race of lines 78-79 of
\* catch_rtsigs.c.
THEOREM RtPausesOnlyByRace == Spec => []PausesOnlyByRace
  <1>1. (program = "catch_rtsigs" => Rt!IndInv) => PausesOnlyByRace
    BY DEF PausesOnlyByRace, Rt!IndInv
  <1> QED
    BY <1>1, RtInvariant, PTL
=============================================================================
