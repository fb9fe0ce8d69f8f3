---------------------------- MODULE SeqAllocator ----------------------------
(***************************************************************************)
(* What a sequence-number service promises its clients: a client is given  *)
(* the first number of a range of the length it asked for, and during one  *)
(* epoch of the service no number is given to two clients.  The ranges     *)
(* come from a counter kept in memory: an epoch ends when the counter is   *)
(* set back, by a restart or otherwise.  The FIFO server (FifoSeqnum) is   *)
(* shown to implement this specification.                                  *)
(***************************************************************************)
EXTENDS Integers, TLAPS

CONSTANTS Clients,      \* the client processes
          None          \* a client that holds no range

Grant == [first : Int, len : Nat, epoch : Nat]

VARIABLES next,         \* the first number not given to anybody in this epoch
          epoch,        \* how often the counter was set back
          alloc         \* alloc[c]: the range client c holds, or None

avars == <<next, epoch, alloc>>

AllocInit == /\ next = 0
             /\ epoch = 0
             /\ alloc = [c \in Clients |-> None]

Allocate(c) ==
    /\ alloc[c] = None
    /\ next' \in Int /\ next' >= next
    /\ alloc' = [alloc EXCEPT ![c] =
                    [first |-> next, len |-> next' - next, epoch |-> epoch]]
    /\ UNCHANGED epoch

\* A range whose owner is gone before it could be told is never reused.
Burn == /\ next' \in Int /\ next' >= next
        /\ UNCHANGED <<epoch, alloc>>

Forget(c) == /\ alloc' = [alloc EXCEPT ![c] = None]
             /\ UNCHANGED <<next, epoch>>

\* The service is restarted, or its counter goes back.
Restart == /\ next' \in Int
           /\ epoch' = epoch + 1
           /\ UNCHANGED alloc

AllocNext == \/ \E c \in Clients : Allocate(c) \/ Forget(c)
             \/ Burn
             \/ Restart

AllocSpec == AllocInit /\ [][AllocNext]_avars

-----------------------------------------------------------------------------
AllocTypeOK == /\ next \in Int
               /\ epoch \in Nat
               /\ alloc \in [Clients -> Grant \cup {None}]

\* The ranges of an epoch follow one another ...
NoOverlap == \A c, d \in Clients :
    /\ c # d
    /\ alloc[c] # None /\ alloc[d] # None
    /\ alloc[c].epoch = alloc[d].epoch
    => \/ alloc[c].first + alloc[c].len <= alloc[d].first
       \/ alloc[d].first + alloc[d].len <= alloc[c].first

\* ... and the counter is beyond those of the present one.
BelowNext == \A c \in Clients : alloc[c] # None =>
    /\ alloc[c].epoch <= epoch
    /\ alloc[c].epoch = epoch => alloc[c].first + alloc[c].len <= next

AllocInv == AllocTypeOK /\ NoOverlap /\ BelowNext

\* The length of an allocated range is a natural number.
LEMMA NatDiff == \A a, b \in Int : b >= a => b - a \in Nat /\ a + (b - a) = b
  OBVIOUS

\* The ranges of one epoch never overlap, whatever the clients and however
\* often its counter is set back.
THEOREM AllocSafe == AllocSpec => []AllocInv
<1>1. AllocInit => AllocInv
  BY DEF AllocInit, AllocInv, AllocTypeOK, NoOverlap, BelowNext
<1>2. AllocInv /\ [AllocNext]_avars => AllocInv'
  <2> SUFFICES ASSUME AllocInv, [AllocNext]_avars PROVE AllocInv'
    OBVIOUS
  <2> USE DEF AllocInv, AllocTypeOK
  <2>1. ASSUME NEW c \in Clients, Allocate(c) PROVE AllocInv'
    <3> DEFINE g == [first |-> next, len |-> next' - next, epoch |-> epoch]
    <3>1. /\ g \in Grant /\ g.first = next /\ g.epoch = epoch
          /\ g.first + g.len = next'
      <4>1. next \in Int /\ next' \in Int /\ next' >= next /\ epoch \in Nat
        BY <2>1 DEF Allocate
      <4>2. next' - next \in Nat /\ next + (next' - next) = next'
        BY <4>1, NatDiff
      <4> QED
        BY <4>1, <4>2 DEF Grant
    <3>2. /\ alloc' = [alloc EXCEPT ![c] = g]
          /\ next' \in Int /\ next' >= next /\ epoch' = epoch
      BY <2>1 DEF Allocate
    <3> HIDE DEF g
    <3>3. AllocTypeOK'
      BY <3>1, <3>2
    <3>4. \A d \in Clients : alloc[d] # None => alloc[d] \in Grant
      OBVIOUS
    <3>5. \A d \in Clients \ {c} : alloc'[d] = alloc[d]
      BY <3>2
    <3>6. alloc'[c] = g
      BY <3>2
    <3>7. BelowNext'
      BY <3>1, <3>2, <3>4, <3>5, <3>6 DEF BelowNext, Grant
    <3>8. NoOverlap'
      BY <3>1, <3>2, <3>4, <3>5, <3>6 DEF NoOverlap, BelowNext, Grant
    <3> QED
      BY <3>3, <3>7, <3>8
  <2>2. ASSUME NEW c \in Clients, Forget(c) PROVE AllocInv'
    <3>1. AllocTypeOK' /\ \A d \in Clients : alloc'[d] \in {alloc[d], None}
      BY <2>2 DEF Forget
    <3> QED
      BY <2>2, <3>1 DEF Forget, NoOverlap, BelowNext
  <2>3. CASE Burn
    <3>1. \A d \in Clients : alloc[d] # None => alloc[d] \in Grant
      OBVIOUS
    <3> QED
      BY <2>3, <3>1 DEF Burn, NoOverlap, BelowNext, Grant
  <2>4. CASE Restart
    <3>1. \A d \in Clients : alloc[d] # None => alloc[d] \in Grant
      OBVIOUS
    <3> QED
      BY <2>4, <3>1 DEF Restart, NoOverlap, BelowNext, Grant
  <2>5. CASE UNCHANGED avars
    BY <2>5 DEF avars, NoOverlap, BelowNext
  <2> QED
    BY <2>1, <2>2, <2>3, <2>4, <2>5 DEF AllocNext
<1> QED
  BY <1>1, <1>2, PTL DEF AllocSpec
=============================================================================
