--------------------------- MODULE SocketsProofs ---------------------------
(***************************************************************************)
(* The programs of sockets/: what their run checks, for every value of the *)
(* constants.  x1, x2, ... are the variables of the system at hand, in the *)
(* order in which its module declares them.                                *)
(***************************************************************************)
EXTENDS MCSockets, FiniteSetTheorems, TLAPS

-----------------------------------------------------------------------------
(* readLine() never writes outside its buffer, never takes a byte beyond   *)
(* the line and never returns a line that is not a prefix of what it took, *)
(* for every buffer size and every stream.                                 *)

\* The initial states are good.
LEMMA LineInit == Init => LineInv
  <1> SUFFICES ASSUME Init PROVE LineInv
    OBVIOUS
  <1>1. PICK k \in 0..MaxLen : input \in [1..k -> Chars]
    BY DEF Init
  <1>2. k \in Nat
    BY <1>1, ReadLineAssumption
  <1>3. input \in Seq(Chars) /\ Len(input) = k
    BY <1>1, <1>2
  <1> QED
    BY <1>2, <1>3, ReadLineAssumption
    DEF Init, LineInv, TypeOK, InBounds, Prefix, WithinLine, ResultOK, totRead

\* Every return of read() keeps the invariant.
LEMMA LineStep == LineInv /\ [Next]_vars => LineInv'
  <1> SUFFICES ASSUME LineInv, [Next]_vars PROVE LineInv'
    OBVIOUS
  <1> USE ReadLineAssumption DEF LineInv, totRead
  <1>0. /\ Len(input) \in Nat /\ pos \in Nat /\ start \in Nat /\ Len(buf) \in Nat
        /\ pos <= Len(input) /\ start <= pos
    BY DEF TypeOK
  <1>1. CASE Call
    <2>1. /\ buf' = <<>> /\ Len(buf') = 0 /\ pc' = "loop" /\ start' = pos
          /\ UNCHANGED <<input, pos, ret>>
      BY <1>1 DEF Call
    <2>2. TypeOK'
      BY <1>0, <2>1 DEF TypeOK
    <2> QED
      BY <1>0, <2>1, <2>2 DEF InBounds, Prefix, WithinLine, ResultOK
  <1>2. CASE ReadChar
    <2> DEFINE ch == input[pos + 1]
    <2>1. /\ pc = "loop" /\ pos < Len(input) /\ pos' = pos + 1 /\ ch \in Chars
          /\ buf' = Store(ch) /\ input' = input /\ start' = start
      BY <1>0, <1>2 DEF ReadChar, TypeOK
    <2>2. /\ ch = NL => pc' = "idle" /\ ret' = Len(buf')
          /\ ch # NL => pc' = pc /\ ret' = ret
      BY <1>2 DEF ReadChar, ReturnLine
    <2> HIDE DEF ch
    <2>3. CASE Len(buf) < n - 1
      <3>1. buf' = Append(buf, ch)
        BY <2>1, <2>3 DEF Store
      <3>2. /\ buf' \in Seq(Chars) /\ Len(buf') = Len(buf) + 1
            /\ \A i \in 1..Len(buf) : buf'[i] = buf[i]
            /\ buf'[Len(buf) + 1] = ch
        BY <2>1, <3>1 DEF TypeOK
      <3>3. Len(buf) = pos - start
        BY <1>0, <2>3 DEF Prefix
      <3>4. TypeOK'
        BY <1>0, <2>1, <2>2, <3>2 DEF TypeOK
      <3>5. InBounds'
        BY <1>0, <2>3, <3>2 DEF InBounds
      <3>6. Prefix'
        <4>1. \A i \in 1..Len(buf') : i \in 1..Len(buf) \/ i = Len(buf) + 1
          BY <1>0, <3>2
        <4>2. start + (Len(buf) + 1) = pos + 1
          BY <1>0, <3>3
        <4>3. \A i \in 1..Len(buf') : buf'[i] = input[start + i]
          BY <3>2, <4>1, <4>2 DEF Prefix, ch
        <4>4. Len(buf') = pos' - start
          BY <1>0, <2>1, <3>2, <3>3
        <4> QED
          BY <1>0, <2>1, <4>3, <4>4 DEF Prefix
      <3>7. WithinLine'
        <4>1. \A i \in start + 1 .. pos' : i \in start + 1 .. pos \/ i = pos + 1
          BY <1>0, <2>1
        <4> QED
          BY <1>0, <2>1, <2>2, <4>1 DEF WithinLine, ch
      <3>8. ResultOK'
        BY <1>0, <2>1, <2>2, <3>2 DEF ResultOK, ch
      <3> QED
        BY <3>4, <3>5, <3>6, <3>7, <3>8
    <2>4. CASE ~(Len(buf) < n - 1)
      <3>1. buf' = buf /\ Len(buf) = n - 1
        BY <1>0, <2>1, <2>4 DEF Store, InBounds
      <3>2. TypeOK'
        BY <1>0, <2>1, <2>2, <3>1 DEF TypeOK
      <3>3. InBounds' /\ Prefix'
        BY <1>0, <2>1, <3>1 DEF InBounds, Prefix
      <3>4. WithinLine'
        <4>1. \A i \in start + 1 .. pos' : i \in start + 1 .. pos \/ i = pos + 1
          BY <1>0, <2>1
        <4> QED
          BY <1>0, <2>1, <2>2, <4>1 DEF WithinLine, ch
      <3>5. ResultOK'
        BY <1>0, <2>1, <2>2, <3>1 DEF ResultOK, ch
      <3> QED
        BY <3>2, <3>3, <3>4, <3>5
    <2> QED
      BY <2>3, <2>4
  <1>3. CASE ReadEof
    <2>1. /\ pos = Len(input) /\ ret' = Len(buf) /\ pc' = "idle"
          /\ UNCHANGED <<input, pos, start, buf>>
      BY <1>3 DEF ReadEof, ReturnLine
    <2>2. TypeOK'
      BY <1>0, <2>1 DEF TypeOK
    <2> QED
      BY <1>0, <1>3, <2>1, <2>2
      DEF ReadEof, InBounds, Prefix, WithinLine, ResultOK
  <1>4. CASE ReadError
    <2>1. TypeOK' /\ ret' = -1
      BY <1>4 DEF ReadError, TypeOK
    <2> QED
      BY <1>4, <2>1 DEF ReadError, InBounds, Prefix, WithinLine, ResultOK
  <1>5. CASE ReadEintr \/ UNCHANGED vars
    BY <1>5 DEF ReadEintr, vars, TypeOK, InBounds, Prefix, WithinLine, ResultOK
  <1> QED
    BY <1>1, <1>2, <1>3, <1>4, <1>5 DEF Next

\* The invariant of the reader holds for every stream and buffer size.
THEOREM LineInvariant == Spec => []LineInv
  BY LineInit, LineStep, PTL DEF Spec

\* No byte is stored outside the buffer.
THEOREM ReadLineInBounds == Spec => []InBounds
  BY LineInvariant, PTL DEF LineInv

\* No call reads into the next line.
THEOREM ReadLineWithinLine == Spec => []WithinLine
  BY LineInvariant, PTL DEF LineInv

\* Zero means end of file when the buffer has room for a byte, and a result
\* that is not an error ends a line or the stream.
THEOREM ReadLineResult == Spec => []ResultOK
  BY LineInvariant, PTL DEF LineInv

-----------------------------------------------------------------------------
\* A step of the family is a step of the system it names, or changes nothing.
LEMMA SystemStep ==
  ASSUME [FamilyNext]_all
  PROVE  /\ system' = system
         /\ system = "xfr" => [Xfr!Next]_(Xfr!vars)
         /\ system = "dgram" => [Dgram!Next]_(Dgram!vars)
         /\ system = "inet" => [Inet!Next]_(Inet!vars)
  <1>1. CASE FamilyNext
    BY <1>1 DEF FamilyNext, InLine, InXfr, InDgram, InInet
  <1>2. CASE UNCHANGED all
    BY <1>2 DEF all, Xfr!vars, Dgram!vars, Inet!vars
  <1> QED
    BY <1>1, <1>2

-----------------------------------------------------------------------------
(* inetConnect(), inetListen() and inetBind().                             *)

\* socket() finds a descriptor that is not open.
LEMMA FreeDescriptor ==
  ASSUME NEW S \in SUBSET Nat, IsFiniteSet(S)
  PROVE  \E d \in 0..Cardinality(S) : d \notin S
  <1> SUFFICES ASSUME 0..Cardinality(S) \subseteq S PROVE FALSE
    OBVIOUS
  <1>1. Cardinality(S) \in Nat
    BY FS_CardinalityType
  <1>2. Cardinality(0..Cardinality(S)) <= Cardinality(S)
    BY FS_Subset
  <1>3. Cardinality(0..Cardinality(S)) = Cardinality(S) + 1
    BY <1>1, FS_Interval
  <1> QED
    BY <1>1, <1>2, <1>3

\* Cardinality and finiteness are the same in the instance.
LEMMA InetCardinality == \A S : /\ Inet!Cardinality(S) = Cardinality(S)
                                /\ Inet!IsFiniteSet(S) <=> IsFiniteSet(S)
  BY DEF Inet!Cardinality, Cardinality, Inet!IsFiniteSet, IsFiniteSet

\* Every step keeps track of who owns the open sockets.
LEMMA InetStep == Inet!IndInv /\ [Inet!Next]_(Inet!vars) => Inet!IndInv'
  <1> SUFFICES ASSUME Inet!IndInv, [Inet!Next]_(Inet!vars) PROVE Inet!IndInv'
    OBVIOUS
  <1> USE FamilyAssumption DEF Inet!IndInv, Inet!TypeOK, Inet!OwnersInv, Inet!Trying
  <1>0. IsFiniteSet(x5) /\ \A S \in SUBSET x5 : Inet!IsFiniteSet(S)
    BY InetCardinality, FS_Subset
  <1>1. ASSUME NEW f \in {"connect", "listen", "bind"}, Inet!Call(f) PROVE Inet!IndInv'
    <2>1. x6' \in BOOLEAN
      BY <1>1, Zenon DEF Inet!Call
    <2> QED
      BY <1>1, <2>1 DEF Inet!Call
  <1>2. CASE Inet!Exhausted
    <2>1. x6' \in BOOLEAN
      BY <1>2, Zenon DEF Inet!Exhausted, Inet!Return
    <2> QED
      BY <1>2, <2>1 DEF Inet!Exhausted, Inet!Return
  <1>3. CASE Inet!Socket
    <2>1. CASE x4' = -1 /\ UNCHANGED <<x2, x5>>
      BY <1>3, <2>1 DEF Inet!Socket
    <2>2. CASE /\ x4' = CHOOSE d \in 0..Inet!Cardinality(x5) : d \notin x5
               /\ x5' = x5 \cup {x4'}
               /\ x2' = CASE x1 = "connect" -> "connect"
                          [] Inet!doListen -> "setsockopt"
                          [] OTHER -> "bind"
      <3>1. \E d \in 0..Inet!Cardinality(x5) : d \notin x5
        BY <1>0, InetCardinality, FreeDescriptor
      <3>2. x4' \in 0..Inet!Cardinality(x5) /\ x4' \notin x5
        BY <2>2, <3>1
      <3>3. x4' \in Nat
        BY <1>0, <3>2, InetCardinality, FS_CardinalityType
      <3>4. Inet!IsFiniteSet(x5')
        BY <1>0, <2>2, InetCardinality, FS_AddElement
      <3>5. x2' \in {"connect", "setsockopt", "bind"}
        BY <2>2
      <3> QED
        BY <1>3, <2>2, <3>2, <3>3, <3>4, <3>5 DEF Inet!Socket
    <2> QED
      BY <1>3, <2>1, <2>2 DEF Inet!Socket
  <1>4. CASE Inet!Setsockopt
    <2>1. x6' \in BOOLEAN
      BY <1>4, Zenon DEF Inet!Setsockopt, Inet!Return
    <2> QED
      BY <1>0, <1>4, <2>1 DEF Inet!Setsockopt, Inet!Return
  <1>5. CASE Inet!Try
    <2>1. x6' \in BOOLEAN
      BY <1>5, Zenon DEF Inet!Try, Inet!Return
    <2>2. CASE x5' = x5 \ {x4} /\ x2' = "socket" /\ UNCHANGED <<x1, x6, x8>>
      BY <1>0, <1>5, <2>1, <2>2 DEF Inet!Try
    <2>3. CASE x2' = "listen" /\ UNCHANGED <<x1, x5, x6, x8>>
      BY <1>5, <2>1, <2>3 DEF Inet!Try
    <2>4. CASE Inet!Return(x4) /\ UNCHANGED x5
      <3>1. x4 \in Nat /\ x4 # -1 /\ x2 \in {"connect", "bind"} /\ UNCHANGED <<x3, x4, x7, x9>>
        BY <1>5 DEF Inet!Try
      <3>2. x8' = x8 \cup {x4} /\ x6' = FALSE /\ x1' = "none" /\ x2' = "idle"
        BY <2>4, <3>1 DEF Inet!Return
      <3> QED
        BY <2>1, <2>4, <3>1, <3>2
    <2> QED
      BY <1>5, <2>2, <2>3, <2>4 DEF Inet!Try
  <1>6. CASE Inet!Listen
    <2>1. x6' \in BOOLEAN
      BY <1>6, Zenon DEF Inet!Listen, Inet!Return
    <2>2. /\ x4 \in Nat /\ x4 # -1 /\ x2 = "listen" /\ UNCHANGED <<x3, x4, x5, x7>>
          /\ x6' = FALSE /\ x1' = "none" /\ x2' = "idle"
          /\ \/ x8' = x8 \cup {x4} /\ x9' = x9
             \/ x8' = x8 /\ x9' = x9 \cup {x4}
      BY <1>6 DEF Inet!Listen, Inet!Return
    <2> QED
      BY <2>1, <2>2
  <1>7. ASSUME NEW d \in x8, Inet!CallerClose(d) PROVE Inet!IndInv'
    BY <1>0, <1>7 DEF Inet!CallerClose
  <1>8. CASE UNCHANGED Inet!vars
    BY <1>8 DEF Inet!vars
  <1> QED
    BY <1>1, <1>2, <1>3, <1>4, <1>5, <1>6, <1>7, <1>8 DEF Inet!Next

\* The address loops leak a descriptor only when listen() fails, and never
\* close, use or return the descriptor of somebody else (inet_sockets.c lines
\* 47-57 and 77-112), for address lists of any length and any number of calls.
THEOREM InetOnlyListenLeaks == FamilySpec => []OnlyListenLeaks
  <1> DEFINE P == system = "inet" => Inet!IndInv
  <1>1. FamilyInit => P
    <2> SUFFICES ASSUME Inet!Init PROVE Inet!IndInv
      BY DEF FamilyInit
    <2>1. x6 \in BOOLEAN
      BY Zenon DEF Inet!Init
    <2>2. Inet!IsFiniteSet({})
      BY InetCardinality, FS_EmptySet
    <2> QED
      BY <2>1, <2>2, FamilyAssumption
      DEF Inet!Init, Inet!IndInv, Inet!TypeOK, Inet!OwnersInv, Inet!Trying
  <1>2. P /\ [FamilyNext]_all => P'
    BY SystemStep, InetStep
  <1>3. P => OnlyListenLeaks
    BY DEF OnlyListenLeaks, Inet!IndInv, Inet!OwnersInv, Inet!OnlyListenLeaks, Inet!FreshSocket,
           Inet!Trying
  <1> QED
    BY <1>1, <1>2, <1>3, PTL DEF FamilySpec

-----------------------------------------------------------------------------
(* The datagram services.                                                  *)

\* recvfrom() cuts what is too long, once.
LEMMA CutOnce ==
  \A k \in Nat : /\ Dgram!Cut(k) \in 0..BufSize
                 /\ Dgram!Cut(Dgram!Cut(k)) = Dgram!Cut(k)
                 /\ k <= BufSize => Dgram!Cut(k) = k
  BY FamilyAssumption DEF Dgram!Cut

\* The fields of a datagram, and of the datagram that was received.
LEMMA MsgFields ==
  ASSUME NEW m \in Dgram!Msg
  PROVE  /\ m.client \in Clients /\ m.num \in 1..NumMsgs /\ m.num \in Nat /\ m.size \in Nat
         /\ m = [client |-> m.client, num |-> m.num, size |-> m.size]
         /\ Dgram!Truncated(m) \in [client : Clients, num : 1..NumMsgs, size : 0..BufSize]
         /\ Dgram!Truncated(m) \in Dgram!Msg
         /\ Dgram!Truncated(m).client = m.client /\ Dgram!Truncated(m).num = m.num
         /\ Dgram!Truncated(m).size = Dgram!Cut(m.size)
  <1>1. /\ m.client \in Clients /\ m.num \in 1..NumMsgs /\ m.num \in Nat /\ m.size \in Nat
        /\ m = [client |-> m.client, num |-> m.num, size |-> m.size]
    BY FamilyAssumption DEF Dgram!Msg
  <1>2. Dgram!Cut(m.size) \in 0..BufSize /\ Dgram!Cut(m.size) \in Nat
    BY <1>1, CutOnce, FamilyAssumption
  <1>3. Dgram!Truncated(m) = [client |-> m.client, num |-> m.num, size |-> Dgram!Cut(m.size)]
    BY <1>1 DEF Dgram!Truncated
  <1> QED
    BY <1>1, <1>2, <1>3 DEF Dgram!Msg

\* What the invariant says of the values a step looks at.
LEMMA DgramFacts ==
  ASSUME Dgram!IndInv
  PROVE  /\ Dgram!InFlight \subseteq Dgram!Msg
         /\ \A c \in Clients : /\ x7[c] \in Seq(Sizes) /\ x8[c] \in Seq(Dgram!Msg)
                               /\ Len(x7[c]) \in Nat /\ Len(x8[c]) \in Nat
                               /\ \A i \in 1..Len(x7[c]) : x7[c][i] \in Nat
         /\ x9.dups \in Nat
  <1>1. Dgram!InFlight \subseteq Dgram!Msg
    BY DEF Dgram!IndInv, Dgram!TypeOK, Dgram!FlightInv, Dgram!InFlight
  <1>2. x7 \in [Clients -> Seq(Sizes)] /\ x8 \in [Clients -> Seq(Dgram!Msg)] /\ x9.dups \in Nat
    BY DEF Dgram!IndInv, Dgram!TypeOK
  <1>3. ASSUME NEW c \in Clients
        PROVE  /\ x7[c] \in Seq(Sizes) /\ x8[c] \in Seq(Dgram!Msg)
               /\ Len(x7[c]) \in Nat /\ Len(x8[c]) \in Nat
               /\ \A i \in 1..Len(x7[c]) : x7[c][i] \in Nat
    <2>1. x7[c] \in Seq(Sizes) /\ x8[c] \in Seq(Dgram!Msg)
      BY <1>2
    <2>2. PICK a \in Seq(Sizes), g \in Seq(Dgram!Msg) : a = x7[c] /\ g = x8[c]
      BY <2>1
    <2>3. Len(a) \in Nat /\ Len(g) \in Nat /\ \A i \in 1..Len(a) : a[i] \in Sizes
      BY ONLY a \in Seq(Sizes), g \in Seq(Dgram!Msg)
    <2> QED
      BY <2>1, <2>2, <2>3, FamilyAssumption
  <1> QED
    BY <1>1, <1>2, <1>3

\* A datagram is received, answered, lost or duplicated: the clients are not
\* concerned.
LEMMA DgramServed ==
  ASSUME Dgram!IndInv,
         \/ Dgram!Recv \/ Dgram!Send \/ Dgram!SendError \/ Dgram!RecvError
         \/ Dgram!Lose \/ Dgram!Duplicate
  PROVE  Dgram!IndInv'
  <1> USE FamilyAssumption DEF Dgram!IndInv, Dgram!Vanished
  <1>0. UNCHANGED <<x1, x6, x7, x8>>
    BY DEF Dgram!Recv, Dgram!Send, Dgram!SendError, Dgram!RecvError, Dgram!Lose,
           Dgram!Duplicate
  <1>1. /\ x9' \in [lost : Nat, dups : Nat, errors : Nat]
        /\ x9'.dups >= x9.dups /\ x9'.errors >= x9.errors
        /\ ~Dgram!Duplicate => x9'.dups = x9.dups
    <2>1. CASE Dgram!Recv \/ Dgram!Send \/ Dgram!Lose \/ Dgram!Duplicate
      BY <2>1 DEF Dgram!Recv, Dgram!Send, Dgram!Lose, Dgram!Duplicate, Dgram!TypeOK
    <2>2. CASE Dgram!SendError \/ Dgram!RecvError
      BY <2>2 DEF Dgram!SendError, Dgram!RecvError, Dgram!TypeOK
    <2> QED
      BY <2>1, <2>2
  <1>2. Dgram!ClientInv'
    BY <1>0 DEF Dgram!ClientInv
  <1>3. Dgram!ResponseMatches'
    BY <1>0, <1>1 DEF Dgram!ResponseMatches, Dgram!TypeOK
  <1>4. CASE Dgram!Recv
    <2>1. PICK m \in x4 : x3' = Dgram!Truncated(m) /\ x4' = x4 \ {m}
      BY <1>4 DEF Dgram!Recv
    <2>2. x2 = "recv" /\ x2' = "send" /\ UNCHANGED <<x5, x9>>
      BY <1>4 DEF Dgram!Recv
    <2>3. m \in Dgram!Msg /\ x4 \subseteq Dgram!Msg /\ x5 \subseteq Dgram!Msg
      BY <2>1 DEF Dgram!TypeOK
    <2>4. /\ x3' \in [client : Clients, num : 1..NumMsgs, size : 0..BufSize]
          /\ x3' \in Dgram!Msg /\ x3'.client = m.client /\ x3'.num = m.num
          /\ x3'.size = Dgram!Cut(m.size) /\ m.size \in Nat
      BY <2>1, <2>3, MsgFields
    <2>5. Dgram!Current = {} /\ Dgram!Current' = {x3'}
      BY <2>2 DEF Dgram!Current
    <2>6. Dgram!InFlight = x4 \cup x5 /\ Dgram!InFlight' = (x4 \ {m}) \cup {x3'} \cup x5
      BY <2>1, <2>2, <2>5 DEF Dgram!InFlight
    <2>7. Dgram!TypeOK'
      BY <1>0, <2>1, <2>2, <2>3, <2>4 DEF Dgram!TypeOK
    <2>8. Dgram!FlightInv'
      <3>1. x3'.size <= BufSize /\ Dgram!Cut(x3'.size) = Dgram!Cut(m.size)
        BY <2>4, CutOnce
      <3> QED
        BY <1>0, <2>1, <2>2, <2>4, <2>5, <2>6, <3>1, SMTT(20) DEF Dgram!FlightInv
    <2>9. Dgram!OnceInv'
      <3> SUFFICES ASSUME x9.dups = 0 PROVE Dgram!OnceInv'
        BY <2>2 DEF Dgram!OnceInv
      <3>1. \A k \in x4 \ {m} : k.client # m.client
        <4> SUFFICES ASSUME NEW k \in x4, k.client = m.client PROVE k = m
          OBVIOUS
        <4>1. k.num = m.num
          BY <2>6 DEF Dgram!FlightInv
        <4>2. k.size = m.size
          BY <4>1 DEF Dgram!OnceInv
        <4> QED
          BY <2>3, <4>1, <4>2, MsgFields
      <3> QED
        BY <1>0, <2>1, <2>2, <2>4, <2>5, <3>1 DEF Dgram!OnceInv
    <2>10. Dgram!UnixInv' /\ Dgram!ServerSurvives'
      BY <1>0, <2>1, <2>2, <2>4, <2>6 DEF Dgram!UnixInv, Dgram!ServerSurvives
    <2> QED
      BY <1>2, <1>3, <2>7, <2>8, <2>9, <2>10
  <1>5. CASE Dgram!Send
    <2>1. /\ x2 = "send" /\ UNCHANGED <<x3, x4, x9>>
          /\ \/ x1 = "unix" /\ Dgram!Ended(x3.client) /\ x2' = "exited" /\ x5' = x5
             \/ x2' = "recv" /\ x5' = x5 \cup {x3}
      BY <1>5 DEF Dgram!Send
    <2>2. Dgram!Current = {x3} /\ Dgram!Current' = {} /\ x3 \in Dgram!Msg
      BY <2>1 DEF Dgram!Current, Dgram!FlightInv
    <2>3. /\ Dgram!InFlight' \subseteq Dgram!InFlight /\ x3 \in Dgram!InFlight
          /\ x2' = "exited" \/ Dgram!InFlight' = Dgram!InFlight
      BY <2>1, <2>2 DEF Dgram!InFlight
    <2>4. Dgram!TypeOK'
      BY <1>0, <2>1, <2>2 DEF Dgram!TypeOK
    <2>5. Dgram!FlightInv'
      BY <1>0, <2>1, <2>2, <2>3 DEF Dgram!FlightInv
    <2>6. Dgram!OnceInv'
      BY <1>0, <2>1, <2>2 DEF Dgram!OnceInv
    <2>7. Dgram!UnixInv'
      BY <1>0, <2>1, <2>3 DEF Dgram!UnixInv
    <2>8. Dgram!ServerSurvives'
      <3>1. CASE x2' = "exited"
        <4>1. x1 = "unix" /\ x6[x3.client] \in Dgram!Vanished /\ x3.client \in Clients
          BY <2>1, <2>2, <2>3, <3>1, MsgFields DEF Dgram!UnixInv, Dgram!Ended
        <4> QED
          BY <1>0, <4>1 DEF Dgram!ServerSurvives, Dgram!ClientInv
      <3> QED
        BY <2>1, <3>1 DEF Dgram!ServerSurvives
    <2> QED
      BY <1>2, <1>3, <2>4, <2>5, <2>6, <2>7, <2>8
  <1>6. CASE Dgram!SendError \/ Dgram!RecvError
    <2>1. /\ x2' \in {"recv", "exited"} /\ UNCHANGED <<x3, x4, x5>>
          /\ x9'.errors > 0 /\ x9'.dups = x9.dups /\ (x1 = "unix" => x2' = "exited")
      BY <1>6 DEF Dgram!SendError, Dgram!RecvError, Dgram!TypeOK
    <2>2. Dgram!Current' = {}
      BY <2>1 DEF Dgram!Current
    <2>3. Dgram!InFlight' \subseteq Dgram!InFlight
      BY <2>1, <2>2 DEF Dgram!InFlight
    <2>4. Dgram!TypeOK'
      BY <1>0, <1>1, <2>1 DEF Dgram!TypeOK
    <2>5. Dgram!FlightInv' /\ Dgram!OnceInv' /\ Dgram!UnixInv'
      BY <1>0, <2>1, <2>2, <2>3 DEF Dgram!FlightInv, Dgram!OnceInv, Dgram!UnixInv
    <2>6. Dgram!ServerSurvives'
      BY <2>1 DEF Dgram!ServerSurvives
    <2> QED
      BY <1>2, <1>3, <2>4, <2>5, <2>6
  <1>7. CASE Dgram!Lose
    <2>1. /\ x4' \subseteq x4 /\ x5' \subseteq x5 /\ UNCHANGED <<x2, x3>>
          /\ x9'.errors = x9.errors /\ x9'.dups = x9.dups /\ x1 # "unix"
      BY <1>7 DEF Dgram!Lose, Dgram!TypeOK
    <2>2. Dgram!Current' = Dgram!Current
      BY <2>1 DEF Dgram!Current
    <2>3. Dgram!InFlight' \subseteq Dgram!InFlight
      BY <2>1, <2>2 DEF Dgram!InFlight
    <2>4. Dgram!TypeOK'
      BY <1>0, <1>1, <2>1 DEF Dgram!TypeOK
    <2>5. Dgram!FlightInv' /\ Dgram!OnceInv' /\ Dgram!UnixInv'
      BY <1>0, <2>1, <2>2, <2>3 DEF Dgram!FlightInv, Dgram!OnceInv, Dgram!UnixInv
    <2>6. Dgram!ServerSurvives'
      BY <1>0, <2>1 DEF Dgram!ServerSurvives
    <2> QED
      BY <1>2, <1>3, <2>4, <2>5, <2>6
  <1>8. CASE Dgram!Duplicate
    <2>1. /\ x1 # "unix" /\ x2 = "send" /\ x4' = x4 \cup {x3} /\ UNCHANGED <<x2, x3, x5>>
          /\ x9'.dups > 0 /\ x9'.errors = x9.errors
      BY <1>8 DEF Dgram!Duplicate, Dgram!TypeOK
    <2>2. Dgram!Current' = Dgram!Current /\ Dgram!Current = {x3} /\ x3 \in Dgram!Msg
      BY <2>1 DEF Dgram!Current, Dgram!FlightInv
    <2>3. Dgram!InFlight' = Dgram!InFlight
      BY <2>1, <2>2 DEF Dgram!InFlight
    <2>4. Dgram!TypeOK'
      BY <1>0, <1>1, <2>1, <2>2 DEF Dgram!TypeOK
    <2>5. Dgram!FlightInv' /\ Dgram!OnceInv' /\ Dgram!UnixInv'
      BY <1>0, <2>1, <2>2, <2>3 DEF Dgram!FlightInv, Dgram!OnceInv, Dgram!UnixInv
    <2>6. Dgram!ServerSurvives'
      BY <1>0, <2>1 DEF Dgram!ServerSurvives
    <2> QED
      BY <1>2, <1>3, <2>4, <2>5, <2>6
  <1> QED
    BY <1>4, <1>5, <1>6, <1>7, <1>8

\* A client that sends has nothing on its way, unless a datagram was
\* duplicated.
LEMMA DgramQuiet ==
  ASSUME Dgram!IndInv, NEW c \in Clients, x6[c] \in {"send", "done"}, x9.dups = 0
  PROVE  \A m \in Dgram!InFlight : m.client # c
  <1> SUFFICES ASSUME NEW m \in Dgram!InFlight, m.client = c PROVE FALSE
    OBVIOUS
  <1>1. m.num = Len(x7[c]) /\ m.num > Len(x8[c])
    BY DEF Dgram!IndInv, Dgram!FlightInv
  <1>2. Len(x7[c]) = Len(x8[c]) /\ Len(x8[c]) \in Nat
    BY DgramFacts DEF Dgram!IndInv, Dgram!ClientInv
  <1> QED
    BY <1>1, <1>2

\* A client takes its next argument; the datagram leaves or not.
LEMMA DgramAsk ==
  ASSUME Dgram!IndInv, NEW c \in Clients, NEW k \in Sizes, NEW st \in {"recv", "failed"},
         x6[c] = "send", Len(x7[c]) < NumMsgs,
         x7' = [x7 EXCEPT ![c] = Append(@, k)], x6' = [x6 EXCEPT ![c] = st],
         UNCHANGED <<x1, x2, x3, x5, x8, x9>>,
         \/ x4' = x4 /\ (st = "failed" \/ x1 # "unix")
         \/ /\ st = "recv"
            /\ x4' = x4 \cup {[client |-> c, num |-> Len(x7'[c]), size |-> k]}
  PROVE  Dgram!IndInv'
  <1> USE FamilyAssumption DEF Dgram!IndInv, Dgram!Vanished
  <1> DEFINE new == [client |-> c, num |-> Len(x7[c]) + 1, size |-> k]
  <1>1. /\ x7 \in [Clients -> Seq(Sizes)] /\ x8 \in [Clients -> Seq(Dgram!Msg)]
        /\ x6 \in [Clients -> {"send", "recv", "done", "failed", "killed", "gaveUp"}]
        /\ x4 \subseteq Dgram!Msg /\ x9.dups \in Nat
    BY DEF Dgram!TypeOK
  <1>2. PICK a \in Seq(Sizes) : a = x7[c]
    BY <1>1
  <1>3. /\ Append(a, k) \in Seq(Sizes) /\ Len(Append(a, k)) = Len(a) + 1 /\ Len(a) \in Nat
        /\ \A i \in 1..Len(a) : Append(a, k)[i] = a[i]
        /\ Append(a, k)[Len(a) + 1] = k
    BY ONLY a \in Seq(Sizes), k \in Sizes
  <1>4. /\ x7'[c] = Append(a, k) /\ x6'[c] = st
        /\ \A d \in Clients \ {c} : x7'[d] = x7[d] /\ x6'[d] = x6[d]
    BY <1>1, <1>2
  <1>5. \A d \in Clients : /\ Len(x7'[d]) >= Len(x7[d]) /\ Len(x7[d]) \in Nat /\ Len(x8[d]) \in Nat
                           /\ \A i \in 1..Len(x7[d]) : x7'[d][i] = x7[d][i]
    BY <1>2, <1>3, <1>4, DgramFacts
  <1>6. new \in Dgram!Msg /\ new.client = c /\ new.num = Len(x7'[c]) /\ new.size = x7'[c][new.num]
    BY <1>2, <1>3, <1>4 DEF Dgram!Msg
  <1>7. Len(x7[c]) = Len(x8[c])
    BY DEF Dgram!ClientInv
  <1>8. Dgram!Current' = Dgram!Current
    BY DEF Dgram!Current
  <1>9. /\ x4' \subseteq x4 \cup {new} /\ x5' = x5
        /\ Dgram!InFlight' \subseteq Dgram!InFlight \cup {new}
        /\ st = "failed" => Dgram!InFlight' = Dgram!InFlight
        /\ Dgram!InFlight \subseteq Dgram!InFlight'
        /\ st = "recv" /\ x1 = "unix" => new \in Dgram!InFlight'
    BY <1>2, <1>3, <1>4, <1>8 DEF Dgram!InFlight
  <1> HIDE DEF new
  <1>10. Dgram!TypeOK'
    <2>1. x7' \in [Clients -> Seq(Sizes)] /\ x6' \in [Clients -> {"send", "recv", "done", "failed", "killed", "gaveUp"}]
      BY <1>1, <1>2, <1>3
    <2> QED
      BY <1>1, <1>6, <1>9, <2>1 DEF Dgram!TypeOK
  <1>11. Dgram!ClientInv'
    <2>1. \A d \in Clients \ {c} : x7'[d] = x7[d] /\ x6'[d] = x6[d] /\ x8'[d] = x8[d]
      BY <1>4
    <2>2. Len(x7'[c]) = Len(x8[c]) + 1 /\ Len(x7'[c]) <= NumMsgs
      BY <1>2, <1>3, <1>4, <1>7
    <2> QED
      BY <1>4, <1>5, <2>1, <2>2 DEF Dgram!ClientInv
  <1>12. Dgram!FlightInv'
    <2>1. ASSUME NEW m \in Dgram!InFlight
          PROVE  /\ m.client \in Clients /\ m.num \in 1..Len(x7[m.client])
                 /\ m.num <= Len(x7'[m.client]) /\ x7'[m.client][m.num] = x7[m.client][m.num]
      <3>1. m.client \in Clients /\ m.num \in 1..NumMsgs /\ m.num <= Len(x7[m.client])
        BY DgramFacts, MsgFields DEF Dgram!FlightInv
      <3> QED
        BY <1>5, <3>1
    <2>2. ASSUME NEW m \in Dgram!InFlight, x9.dups = 0
          PROVE  m.num = Len(x7'[m.client]) /\ m.num > Len(x8[m.client])
      <3>1. m.client # c
        BY <2>2, DgramQuiet
      <3> QED
        BY <1>4, <2>1, <2>2, <3>1 DEF Dgram!FlightInv
    <2>3. new.num <= Len(x7'[new.client]) /\ new.num > Len(x8[new.client])
      BY <1>2, <1>3, <1>4, <1>6, <1>7
    <2>4. \A m \in Dgram!InFlight' : /\ m.num <= Len(x7'[m.client])
                                     /\ Dgram!Cut(m.size) = Dgram!Cut(x7'[m.client][m.num])
      BY <1>6, <1>9, <2>1, <2>3 DEF Dgram!FlightInv
    <2>5. \A m \in (Dgram!Current \cup x5)' : m.size <= BufSize
      BY <1>8, <1>9 DEF Dgram!FlightInv
    <2>6. x9.dups = 0 => \A m \in Dgram!InFlight' :
            m.num = Len(x7'[m.client]) /\ m.num > Len(x8[m.client])
      BY <1>6, <1>9, <2>2, <2>3
    <2> QED
      BY <1>8, <2>4, <2>5, <2>6 DEF Dgram!FlightInv
  <1>13. Dgram!OnceInv'
    <2> SUFFICES ASSUME x9.dups = 0 PROVE Dgram!OnceInv'
      BY DEF Dgram!OnceInv
    <2>1. \A m \in Dgram!InFlight : m.client # c
      BY DgramQuiet
    <2>2. \A m \in x4 \cup Dgram!Current \cup x5 : m \in Dgram!InFlight /\ m.client \in Clients \ {c}
      BY <2>1, DgramFacts, MsgFields DEF Dgram!InFlight
    <2>3. \A m \in x4' : m.size = x7'[m.client][m.num]
      BY <1>4, <1>6, <1>9, <2>2 DEF Dgram!OnceInv
    <2>4. \A m \in x4', d \in Dgram!Current \cup x5 : m.client # d.client
      BY <1>6, <1>9, <2>2 DEF Dgram!OnceInv
    <2> QED
      BY <1>8, <1>9, <2>3, <2>4 DEF Dgram!OnceInv
  <1>14. Dgram!UnixInv'
    <2> SUFFICES ASSUME x1 = "unix" PROVE Dgram!UnixInv'
      BY DEF Dgram!UnixInv
    <2>1. x9.dups = 0
      BY DEF Dgram!UnixInv
    <2>2. \A m \in Dgram!InFlight : m.client \in Clients \ {c}
      BY <2>1, DgramQuiet, DgramFacts, MsgFields
    <2>3. \A m \in Dgram!InFlight' : x6'[m.client] \in {"recv"} \cup Dgram!Vanished
      BY <1>4, <1>6, <1>9, <2>2 DEF Dgram!UnixInv
    <2>4. ASSUME x2 # "exited", NEW d \in Clients, x6'[d] = "recv"
          PROVE  \E m \in Dgram!InFlight' : m.client = d
      <3>1. CASE d = c
        BY <1>4, <1>6, <1>9, <2>4, <3>1
      <3>2. CASE d # c
        BY <1>4, <1>9, <2>4, <3>2 DEF Dgram!UnixInv
      <3> QED
        BY <3>1, <3>2
    <2> QED
      BY <2>1, <2>3, <2>4 DEF Dgram!UnixInv
  <1>15. Dgram!ResponseMatches'
    <2>1. x8' = x8 /\ x9' = x9
      OBVIOUS
    <2>2. ASSUME NEW d \in Clients, NEW i \in 1..Len(x8[d])
          PROVE  /\ x8[d][i].client = d
                 /\ x8[d][i].num <= i /\ (x9.dups = 0 => x8[d][i].num = i)
                 /\ x8[d][i].size = Dgram!Cut(x7'[d][x8[d][i].num])
      <3>1. x8[d][i].num <= i /\ i <= Len(x7[d]) /\ x8[d][i] \in Dgram!Msg
        <4>1. PICK g \in Seq(Dgram!Msg) : g = x8[d]
          BY <1>1
        <4>2. i \in 1..Len(g)
          BY <4>1
        <4>3. g[i] \in Dgram!Msg
          BY ONLY g \in Seq(Dgram!Msg), <4>2
        <4> QED
          BY <1>5, <4>1, <4>3 DEF Dgram!ResponseMatches, Dgram!ClientInv
      <3>2. x8[d][i].num \in 1..NumMsgs /\ x8[d][i].num \in Nat
        BY <3>1, MsgFields
      <3>3. x8[d][i].num \in 1..Len(x7[d])
        BY <1>5, <3>1, <3>2
      <3> QED
        BY <1>5, <3>3 DEF Dgram!ResponseMatches
    <2> QED
      BY ONLY <2>1, <2>2 DEF Dgram!ResponseMatches
  <1>16. Dgram!ServerSurvives'
    <2>1. \A d \in Clients : x6[d] \in Dgram!Vanished => x6'[d] \in Dgram!Vanished
      BY <1>4
    <2> QED
      BY <1>1, <2>1 DEF Dgram!ServerSurvives
  <1> QED
    BY <1>10, <1>11, <1>12, <1>13, <1>14, <1>15, <1>16

\* A client is refused, has finished or is killed: nothing else changes.
LEMMA DgramEnds ==
  ASSUME Dgram!IndInv, NEW c \in Clients, NEW st \in {"failed", "done", "killed", "gaveUp"},
         x6' = [x6 EXCEPT ![c] = st],
         UNCHANGED <<x1, x2, x3, x4, x5, x7, x8, x9>>,
         st = "failed" => x1 = "echo", st = "done" => x6[c] = "send",
         st \in Dgram!Vanished => c \in Mortal, x6[c] \notin Dgram!Vanished
  PROVE  Dgram!IndInv'
  <1> USE FamilyAssumption DEF Dgram!IndInv, Dgram!Vanished
  <1>1. x6 \in [Clients -> {"send", "recv", "done", "failed", "killed", "gaveUp"}]
    BY DEF Dgram!TypeOK
  <1>2. x6'[c] = st /\ \A d \in Clients \ {c} : x6'[d] = x6[d]
    BY <1>1
  <1>3. Dgram!TypeOK'
    BY DEF Dgram!TypeOK
  <1>4. Dgram!Current' = Dgram!Current /\ Dgram!InFlight' = Dgram!InFlight
    BY DEF Dgram!Current, Dgram!InFlight
  <1>5. Dgram!FlightInv' /\ Dgram!OnceInv'
    BY <1>4 DEF Dgram!FlightInv, Dgram!OnceInv
  <1>6. Dgram!ResponseMatches'
    BY DEF Dgram!ResponseMatches
  <1>7. Dgram!ClientInv'
    <2>1. x7' = x7 /\ x8' = x8
      OBVIOUS
    <2> QED
      BY <1>2, <2>1 DEF Dgram!ClientInv
  <1>8. Dgram!UnixInv'
    <2> SUFFICES ASSUME x1 = "unix" PROVE Dgram!UnixInv'
      BY DEF Dgram!UnixInv
    <2>1. x9.dups = 0
      BY DEF Dgram!UnixInv
    <2>2. ASSUME NEW m \in Dgram!InFlight PROVE x6'[m.client] \in {"recv"} \cup Dgram!Vanished
      <3>1. m.client \in Clients /\ x6[m.client] \in {"recv"} \cup Dgram!Vanished
        BY DgramFacts, MsgFields DEF Dgram!UnixInv
      <3>2. CASE m.client = c
        BY <1>2, <2>1, <3>1, <3>2
      <3> QED
        BY <1>2, <3>1, <3>2
    <2>3. \A d \in Clients : x6'[d] = "recv" => x6[d] = "recv"
      BY <1>2
    <2> QED
      BY <1>4, <2>1, <2>2, <2>3 DEF Dgram!UnixInv
  <1>9. Dgram!ServerSurvives'
    <2>1. \A d \in Clients : x6[d] \in Dgram!Vanished => x6'[d] \in Dgram!Vanished
      BY <1>2
    <2> QED
      BY <1>1, <2>1 DEF Dgram!ServerSurvives
  <1> QED
    BY <1>3, <1>5, <1>6, <1>7, <1>8, <1>9

\* Without duplicates the datagram a client receives is the only one it has
\* on its way.
LEMMA DgramOnly ==
  ASSUME Dgram!IndInv, x9.dups = 0, NEW m \in x5, NEW k \in Dgram!InFlight,
         k.client = m.client
  PROVE  k \in x5 /\ k = m
  <1> USE DEF Dgram!IndInv
  <1>1. m \in Dgram!InFlight /\ m \in Dgram!Msg /\ k \in Dgram!Msg
    BY DgramFacts DEF Dgram!InFlight
  <1>2. k \in x5
    BY DEF Dgram!InFlight, Dgram!OnceInv
  <1>3. k.num = m.num
    BY <1>1 DEF Dgram!FlightInv
  <1>4. Dgram!Cut(k.size) = Dgram!Cut(m.size) /\ k.size <= BufSize /\ m.size <= BufSize
    BY <1>1, <1>2, <1>3 DEF Dgram!FlightInv
  <1>5. k.size = m.size
    BY <1>1, <1>4, MsgFields, CutOnce
  <1> QED
    BY <1>1, <1>2, <1>3, <1>5, MsgFields

\* A client takes the first datagram that comes for the response.
LEMMA DgramAnswered ==
  ASSUME Dgram!IndInv, NEW c \in Clients, Dgram!ClientRecv(c)
  PROVE  Dgram!IndInv'
  <1> USE FamilyAssumption DEF Dgram!IndInv, Dgram!Vanished
  <1>1. PICK m \in x5 : /\ m.client = c
                        /\ x8' = [x8 EXCEPT ![c] = Append(@, Dgram!Truncated(m))]
                        /\ x5' = x5 \ {m}
    BY DEF Dgram!ClientRecv
  <1>2. /\ x6[c] = "recv" /\ x6' = [x6 EXCEPT ![c] = "send"]
        /\ x1' = x1 /\ x2' = x2 /\ x3' = x3 /\ x4' = x4 /\ x7' = x7 /\ x9' = x9
    BY DEF Dgram!ClientRecv
  <1>3. /\ x6 \in [Clients -> {"send", "recv", "done", "failed", "killed", "gaveUp"}]
        /\ x8 \in [Clients -> Seq(Dgram!Msg)] /\ x9.dups \in Nat
    BY DEF Dgram!TypeOK
  <1>4. m \in Dgram!InFlight /\ m \in Dgram!Msg
    BY DgramFacts DEF Dgram!InFlight
  <1>5. PICK t \in Dgram!Msg : t = Dgram!Truncated(m)
    BY <1>4, MsgFields
  <1>6. t.client = c /\ t.num = m.num /\ t.size = m.size /\ m.num \in Nat /\ m.size <= BufSize
    BY <1>1, <1>4, <1>5, MsgFields, CutOnce DEF Dgram!FlightInv
  <1>7. PICK g \in Seq(Dgram!Msg) : g = x8[c]
    BY <1>3
  <1>8. /\ Append(g, t) \in Seq(Dgram!Msg) /\ Len(Append(g, t)) = Len(g) + 1 /\ Len(g) \in Nat
        /\ \A i \in 1..Len(g) : Append(g, t)[i] = g[i]
        /\ Append(g, t)[Len(g) + 1] = t
    BY ONLY g \in Seq(Dgram!Msg), t \in Dgram!Msg
  <1>9. /\ x8'[c] = Append(g, t) /\ x6'[c] = "send"
        /\ \A d \in Clients \ {c} : x8'[d] = x8[d] /\ x6'[d] = x6[d]
    BY <1>1, <1>2, <1>3, <1>5, <1>7
  <1>10. Len(x7[c]) = Len(g) + 1
    BY <1>2, <1>7 DEF Dgram!ClientInv
  <1>11. Dgram!Current' = Dgram!Current
    BY <1>2 DEF Dgram!Current
  <1>12. Dgram!InFlight' \subseteq Dgram!InFlight
    BY <1>1, <1>2, <1>11 DEF Dgram!InFlight
  <1>13. ASSUME x9.dups = 0, NEW k \in Dgram!InFlight' PROVE k.client \in Clients \ {c}
    <2>1. k \in Dgram!InFlight /\ k.client \in Clients
      BY <1>12, <1>13, DgramFacts, MsgFields
    <2>2. ASSUME k.client = c PROVE FALSE
      <3>1. k = m
        BY <1>1, <1>13, <2>1, <2>2, DgramOnly
      <3>2. m \in x4 \cup Dgram!Current
        BY <1>1, <1>2, <1>11, <1>13, <3>1 DEF Dgram!InFlight
      <3> QED
        BY <1>13, <3>2 DEF Dgram!OnceInv
    <2> QED
      BY <2>1, <2>2
  <1>14. Dgram!TypeOK'
    <2>1. x8' \in [Clients -> Seq(Dgram!Msg)] /\ x6' \in [Clients -> {"send", "recv", "done", "failed", "killed", "gaveUp"}]
      BY <1>1, <1>2, <1>3, <1>5, <1>7, <1>8
    <2>2. x5' \subseteq Dgram!Msg
      BY <1>1 DEF Dgram!TypeOK
    <2> QED
      BY <1>2, <2>1, <2>2 DEF Dgram!TypeOK
  <1>15. Dgram!ClientInv'
    <2>1. Len(x8'[c]) = Len(x7[c]) /\ Len(x7[c]) \in Nat
      BY <1>8, <1>9, <1>10
    <2> QED
      BY <1>2, <1>9, <2>1 DEF Dgram!ClientInv
  <1>16. Dgram!FlightInv'
    <2>1. x9.dups = 0 => \A k \in Dgram!InFlight' :
            k.num = Len(x7[k.client]) /\ k.num > Len(x8'[k.client])
      BY <1>9, <1>12, <1>13 DEF Dgram!FlightInv
    <2>2. \A k \in Dgram!InFlight' : /\ k.num <= Len(x7[k.client])
                                     /\ Dgram!Cut(k.size) = Dgram!Cut(x7[k.client][k.num])
      BY <1>12 DEF Dgram!FlightInv
    <2>3. \A k \in Dgram!Current \cup x5' : k.size <= BufSize
      BY <1>1 DEF Dgram!FlightInv
    <2> QED
      BY <1>2, <1>11, <2>1, <2>2, <2>3 DEF Dgram!FlightInv
  <1>17. Dgram!OnceInv'
    BY <1>1, <1>2, <1>11 DEF Dgram!OnceInv
  <1>18. Dgram!UnixInv'
    <2> SUFFICES ASSUME x1 = "unix" PROVE Dgram!UnixInv'
      BY <1>2 DEF Dgram!UnixInv
    <2>1. x9.dups = 0 /\ \A k \in Dgram!InFlight' : x6'[k.client] \in {"recv"} \cup Dgram!Vanished
      BY <1>9, <1>12, <1>13 DEF Dgram!UnixInv
    <2>2. ASSUME x2 # "exited", NEW d \in Clients, x6'[d] = "recv"
          PROVE  \E k \in Dgram!InFlight' : k.client = d
      <3>1. d # c /\ x6[d] = "recv"
        BY <1>9, <2>2
      <3>2. PICK k \in Dgram!InFlight : k.client = d
        BY <2>2, <3>1 DEF Dgram!UnixInv
      <3>3. k # m /\ k \in Dgram!InFlight'
        BY <1>1, <1>2, <1>11, <3>1, <3>2 DEF Dgram!InFlight
      <3> QED
        BY <3>2, <3>3
    <2> QED
      BY <1>2, <2>1, <2>2 DEF Dgram!UnixInv
  <1>19. Dgram!ResponseMatches'
    <2>1. ASSUME NEW d \in Clients, NEW i \in 1..Len(x8'[d])
          PROVE  /\ x8'[d][i].client = d
                 /\ x8'[d][i].num <= i /\ (x9.dups = 0 => x8'[d][i].num = i)
                 /\ x8'[d][i].size = Dgram!Cut(x7[d][x8'[d][i].num])
      <3>1. CASE d = c /\ i = Len(g) + 1
        <4>1. x8'[d][i] = t
          BY <1>8, <1>9, <3>1
        <4>2. t.num <= i /\ (x9.dups = 0 => t.num = i)
          BY <1>1, <1>4, <1>6, <1>8, <1>10, <3>1 DEF Dgram!FlightInv
        <4>3. t.size = Dgram!Cut(x7[c][t.num])
          <5>1. Dgram!Cut(m.size) = Dgram!Cut(x7[c][m.num])
            BY <1>1, <1>4 DEF Dgram!FlightInv
          <5> QED
            BY <1>4, <1>6, <5>1, MsgFields, CutOnce
        <4> QED
          BY <1>6, <3>1, <4>1, <4>2, <4>3
      <3>2. CASE ~(d = c /\ i = Len(g) + 1)
        <4>1. i \in 1..Len(x8[d]) /\ x8'[d][i] = x8[d][i]
          BY <1>7, <1>8, <1>9, <3>2
        <4> QED
          BY <4>1 DEF Dgram!ResponseMatches
      <3> QED
        BY <3>1, <3>2
    <2> QED
      BY ONLY <1>2, <2>1 DEF Dgram!ResponseMatches
  <1>20. Dgram!ServerSurvives'
    <2>1. \A d \in Clients : x6[d] \in Dgram!Vanished => x6'[d] \in Dgram!Vanished
      BY <1>2, <1>9
    <2> QED
      BY <1>2, <1>3, <2>1 DEF Dgram!ServerSurvives
  <1> QED
    BY <1>14, <1>15, <1>16, <1>17, <1>18, <1>19, <1>20

\* Every step of the datagram services keeps requests and responses together.
LEMMA DgramStep == Dgram!IndInv /\ [Dgram!Next]_(Dgram!vars) => Dgram!IndInv'
  <1> SUFFICES ASSUME Dgram!IndInv, [Dgram!Next]_(Dgram!vars) PROVE Dgram!IndInv'
    OBVIOUS
  <1>1. CASE \/ Dgram!Recv \/ Dgram!Send \/ Dgram!SendError \/ Dgram!RecvError
             \/ Dgram!Lose \/ Dgram!Duplicate
    BY <1>1, DgramServed
  <1>2. CASE Dgram!Start \/ UNCHANGED Dgram!vars
    <2>1. /\ UNCHANGED <<x1, x3, x4, x5, x6, x7, x8, x9>>
          /\ \/ x2 = "down" /\ x2' = "recv"
             \/ x2' = x2
      BY <1>2 DEF Dgram!Start, Dgram!vars
    <2>2. Dgram!Current' = Dgram!Current /\ Dgram!InFlight' = Dgram!InFlight
      BY <2>1 DEF Dgram!Current, Dgram!InFlight
    <2> USE DEF Dgram!IndInv
    <2>3. Dgram!TypeOK' /\ Dgram!ClientInv' /\ Dgram!ServerSurvives'
      BY <2>1 DEF Dgram!TypeOK, Dgram!ClientInv, Dgram!ServerSurvives
    <2>4. Dgram!FlightInv' /\ Dgram!OnceInv'
      BY <2>1, <2>2 DEF Dgram!FlightInv, Dgram!OnceInv
    <2>5. Dgram!UnixInv' /\ Dgram!ResponseMatches'
      BY <2>1, <2>2 DEF Dgram!UnixInv, Dgram!ResponseMatches
    <2> QED
      BY <2>3, <2>4, <2>5
  <1>3. ASSUME NEW c \in Clients, Dgram!ClientSend(c) PROVE Dgram!IndInv'
    <2>1. PICK k \in Sizes :
            /\ x7' = [x7 EXCEPT ![c] = Append(@, k)]
            /\ IF Dgram!Up \/ x1 # "unix"
                 THEN x6' = [x6 EXCEPT ![c] = "recv"]
                 ELSE x6' = [x6 EXCEPT ![c] = "failed"]
            /\ IF Dgram!Up THEN x4' = x4 \cup {[client |-> c, num |-> Len(x7'[c]), size |-> k]}
                           ELSE UNCHANGED x4
      BY <1>3 DEF Dgram!ClientSend
    <2>2. /\ x6[c] = "send" /\ Len(x7[c]) < NumMsgs /\ UNCHANGED <<x1, x2, x3, x5, x8, x9>>
      BY <1>3 DEF Dgram!ClientSend
    <2>3. CASE Dgram!Up \/ x1 # "unix"
      BY <2>1, <2>2, <2>3, DgramAsk
    <2>4. CASE ~(Dgram!Up \/ x1 # "unix")
      BY <2>1, <2>2, <2>4, DgramAsk
    <2> QED
      BY <2>3, <2>4
  <1>4. ASSUME NEW c \in Clients, Dgram!ClientSendError(c) PROVE Dgram!IndInv'
    <2>1. PICK k \in Sizes : x7' = [x7 EXCEPT ![c] = Append(@, k)]
      BY <1>4 DEF Dgram!ClientSendError
    <2>2. /\ x6[c] = "send" /\ Len(x7[c]) < NumMsgs /\ UNCHANGED <<x1, x2, x3, x5, x8, x9>>
          /\ x4' = x4
      BY <1>4 DEF Dgram!ClientSendError
    <2>3. PICK st \in {"recv", "failed"} :
            x6' = [x6 EXCEPT ![c] = st] /\ (st = "failed" \/ x1 # "unix")
      BY <1>4 DEF Dgram!ClientSendError
    <2> QED
      BY <2>1, <2>2, <2>3, DgramAsk
  <1>5. ASSUME NEW c \in Clients, Dgram!ClientRefused(c) PROVE Dgram!IndInv'
    BY <1>5, DgramEnds DEF Dgram!ClientRefused, Dgram!Vanished
  <1>6. ASSUME NEW c \in Clients, Dgram!ClientDone(c) PROVE Dgram!IndInv'
    BY <1>6, DgramEnds DEF Dgram!ClientDone, Dgram!Vanished
  <1>7. ASSUME NEW c \in Clients, Dgram!Kill(c) PROVE Dgram!IndInv'
    BY <1>7, DgramEnds DEF Dgram!Kill, Dgram!Ended, Dgram!Vanished
  <1>8. ASSUME NEW c \in Clients, Dgram!ClientRecvError(c) PROVE Dgram!IndInv'
    BY <1>8, DgramEnds DEF Dgram!ClientRecvError, Dgram!Vanished
  <1> QED
    BY <1>1, <1>2, <1>3, <1>4, <1>5, <1>6, <1>7, <1>8, DgramAnswered
    DEF Dgram!Next, Dgram!Server, Dgram!Client

\* Line i of a datagram client is the answer to its argument i unless the
\* network duplicated a datagram (i6d_ucase_client.c lines 33-44), and a server
\* exits only for a failed call of its own or a UNIX-domain client that ended
\* while it waited (datagram_unix_sock_ucase_server.c lines 47-60): for any
\* number of clients, arguments, losses, duplicates and failures.  Without a
\* network between them nobody waits in vain (UnixInv).
THEOREM DgramResponseMatches == FamilySpec => []ResponseMatches
  <1> DEFINE P == system = "dgram" => Dgram!IndInv
  <1>1. FamilyInit => P
    <2> SUFFICES ASSUME Dgram!Init PROVE Dgram!IndInv
      BY DEF FamilyInit
    <2>1. /\ x2 = "down" /\ x3 = None /\ x4 = {} /\ x5 = {}
          /\ \A c \in Clients : x6[c] = "send" /\ x7[c] = <<>> /\ x8[c] = <<>>
          /\ x9.dups = 0
      BY DEF Dgram!Init
    <2>2. Len(<<>>) = 0
      OBVIOUS
    <2>3. Dgram!TypeOK
      <3>1. x7 \in [Clients -> Seq(Sizes)] /\ x8 \in [Clients -> Seq(Dgram!Msg)]
        BY DEF Dgram!Init
      <3>2. x9 \in [lost : Nat, dups : Nat, errors : Nat]
        BY DEF Dgram!Init
      <3>3. x6 \in [Clients -> {"send", "recv", "done", "failed", "killed", "gaveUp"}] /\ x1 \in Kinds
        BY DEF Dgram!Init
      <3> QED
        BY <2>1, <3>1, <3>2, <3>3 DEF Dgram!TypeOK
    <2>4. Dgram!InFlight = {} /\ Dgram!Current = {}
      BY <2>1 DEF Dgram!InFlight, Dgram!Current
    <2>5. Dgram!ClientInv
      BY <2>1, <2>2, FamilyAssumption DEF Dgram!ClientInv, Dgram!Vanished
    <2>6. Dgram!ResponseMatches
      BY <2>1, <2>2 DEF Dgram!ResponseMatches
    <2>7. Dgram!FlightInv /\ Dgram!OnceInv /\ Dgram!UnixInv /\ Dgram!ServerSurvives
      BY <2>1, <2>4 DEF Dgram!FlightInv, Dgram!OnceInv, Dgram!UnixInv, Dgram!ServerSurvives
    <2> QED
      BY <2>3, <2>5, <2>6, <2>7 DEF Dgram!IndInv
  <1>2. P /\ [FamilyNext]_all => P'
    BY SystemStep, DgramStep
  <1>3. P => ResponseMatches
    BY DEF ResponseMatches, Dgram!IndInv
  <1> QED
    BY <1>1, <1>2, <1>3, PTL DEF FamilySpec

-----------------------------------------------------------------------------
(* The stream transfer.                                                    *)

\* Cardinality is the same in the instance.
LEMMA XfrCardinality == \A S : Xfr!Cardinality(S) = Cardinality(S)
  BY DEF Xfr!Cardinality, Cardinality

\* What a sequence and k copies of a value make.
LEMMA CopiesAfter ==
  ASSUME NEW C, NEW o \in Seq(C), NEW d \in C, NEW k \in Nat,
         NEW p, p = o \o [i \in 1..k |-> d]
  PROVE  /\ p \in Seq(C) /\ Len(p) = Len(o) + k
         /\ \A i \in 1..Len(o) : p[i] = o[i]
         /\ \A i \in Len(o) + 1 .. Len(o) + k : p[i] = d
  <1> DEFINE q == [i \in 1..k |-> d]
  <1>1. q \in Seq(C) /\ Len(q) = k /\ \A i \in 1..k : q[i] = d
    OBVIOUS
  <1>2. Len(o) \in Nat
    OBVIOUS
  <1>3. p = o \o q
    OBVIOUS
  <1> HIDE DEF q
  <1> QED
    BY <1>1, <1>2, <1>3

\* k positions after the first l add k to a set of positions.
LEMMA PrintedMore ==
  ASSUME NEW l \in Nat, NEW k \in Nat, NEW S \in SUBSET (1..l)
  PROVE  Cardinality(S \cup (l + 1 .. l + k)) = Cardinality(S) + k
  <1> DEFINE T == l + 1 .. l + k
  <1>1. IsFiniteSet(S) /\ Cardinality(S) \in Nat
    <2>1. IsFiniteSet(1..l)
      BY FS_Interval
    <2> QED
      BY <2>1, FS_Subset, FS_CardinalityType
  <1>2. IsFiniteSet(T) /\ Cardinality(T) = k
    <2>1. PICK a \in Int, b \in Int : a = l + 1 /\ b = l + k
      OBVIOUS
    <2>2. IsFiniteSet(a..b) /\ Cardinality(a..b) = IF a > b THEN 0 ELSE b - a + 1
      BY FS_Interval
    <2> QED
      BY <2>1, <2>2
  <1>3. S \cap T = {}
    OBVIOUS
  <1> HIDE DEF T
  <1>4. Cardinality(S \cup T) = Cardinality(S) + k - 0
    BY <1>1, <1>2, <1>3, FS_Union, FS_EmptySet, ZenonT(30)
  <1> QED
    BY <1>1, <1>4 DEF T

\* What a step that leaves the output or the backlog alone leaves alone.
LEMMA XfrSame ==
  /\ x5' = x5 => \A c : Xfr!Printed(c)' = Xfr!Printed(c)
  /\ x4' = x4 => \A c : Xfr!Waits(c)' = Xfr!Waits(c)
  BY DEF Xfr!Printed, Xfr!Waits

\* What is printed of a client can be counted.
LEMMA XfrPrintedNat == Xfr!TypeOK => \A c : Xfr!Printed(c) \in Nat
  <1> SUFFICES ASSUME Xfr!TypeOK, NEW c PROVE Xfr!Printed(c) \in Nat
    OBVIOUS
  <1>1. Len(x5) \in Nat
    BY DEF Xfr!TypeOK
  <1>2. IsFiniteSet(1..Len(x5))
    BY <1>1, FS_Interval
  <1>3. IsFiniteSet({i \in 1..Len(x5) : x5[i] = c})
    BY <1>2, FS_Subset
  <1> QED
    BY <1>3, FS_CardinalityType, XfrCardinality DEF Xfr!Printed

\* A client that is connected or gives up moves on.
LEMMA XfrClientMoves ==
  ASSUME Xfr!IndInv, NEW c \in XfrClients, ~Xfr!Ended(c),
         NEW st \in {"read", "write", "done", "failed", "killed"},
         NEW t \in 0..Input, NEW s \in 0..Input, x8[c] <= s, s <= t,
         x6' = [x6 EXCEPT ![c] = st], x7' = [x7 EXCEPT ![c] = t], x8' = [x8 EXCEPT ![c] = s],
         UNCHANGED <<x1, x2, x3, x4, x5, x9>>,
         x6[c] = "connect" => st \in {"done", "failed", "killed"} /\ s = x8[c]
  PROVE  Xfr!IndInv'
  <1> USE FamilyAssumption DEF Xfr!IndInv
  <1>1. x1' = x1 /\ x2' = x2 /\ x3' = x3 /\ x4' = x4 /\ x5' = x5 /\ x9' = x9
    OBVIOUS
  <1>2. /\ x6'[c] = st /\ x7'[c] = t /\ x8'[c] = s
        /\ \A d \in XfrClients \ {c} : x6'[d] = x6[d] /\ x7'[d] = x7[d] /\ x8'[d] = x8[d]
    BY DEF Xfr!TypeOK
  <1>3. Xfr!TypeOK'
    BY DEF Xfr!TypeOK
  <1>4. /\ \A d : Xfr!Waits(d)' = Xfr!Waits(d) /\ Xfr!Printed(d)' = Xfr!Printed(d)
        /\ Xfr!Busy' = Xfr!Busy
    BY <1>1, XfrSame DEF Xfr!Busy
  <1>5. \A d \in XfrClients : x8[d] \in Nat /\ x9[d] \in Nat
    BY DEF Xfr!TypeOK
  <1>6. Xfr!PlaceInv'
    <2>1. Xfr!Busy' => x2' \in XfrClients /\ ~Xfr!Waits(x2)' /\ x6'[x2'] # "connect"
      BY <1>1, <1>2, <1>4 DEF Xfr!PlaceInv
    <2>2. \A i, k \in 1..Len(x4') : x4'[i] = x4'[k] => i = k
      BY <1>1 DEF Xfr!PlaceInv
    <2>3. \A d \in XfrClients : x6'[d] = "connect" =>
            ~Xfr!Waits(d)' /\ x8'[d] = 0 /\ x7'[d] = 0
      BY <1>2, <1>4 DEF Xfr!PlaceInv
    <2>4. ASSUME x1 # "exited", NEW d \in XfrClients, x6'[d] # "connect", ~Xfr!Waits(d)',
                 ~(Xfr!Busy' /\ d = x2')
          PROVE  Xfr!Ended(d)' /\ x9'[d] = x8'[d]
      <3>1. CASE d # c
        BY <1>1, <1>2, <1>4, <2>4, <3>1 DEF Xfr!PlaceInv, Xfr!Ended
      <3>2. CASE d = c
        <4>1. x6[c] = "connect"
          BY <1>1, <1>4, <2>4, <3>2 DEF Xfr!PlaceInv
        <4>2. x8[c] = 0 /\ x9[c] = 0
          BY <4>1 DEF Xfr!PlaceInv, Xfr!PrintInv
        <4> QED
          BY <1>1, <1>2, <3>2, <4>1, <4>2 DEF Xfr!Ended
      <3> QED
        BY <3>1, <3>2
    <2> QED
      BY ONLY <1>1, <2>1, <2>2, <2>3, <2>4 DEF Xfr!PlaceInv
  <1>7. Xfr!PrintInv'
    <2>1. \A d \in XfrClients : x6'[d] = "connect" \/ Xfr!Waits(d)' =>
            x9'[d] = 0 /\ \A i \in 1..Len(x5') : x5'[i] # d
      BY <1>1, <1>2, <1>4 DEF Xfr!PrintInv
    <2>2. \A d \in XfrClients : x9'[d] <= x8'[d] /\ x8'[d] <= x7'[d]
      BY <1>1, <1>2, <1>5 DEF Xfr!PrintInv
    <2>3. x1 # "exited" => \A d \in XfrClients :
            x9[d] = Xfr!Printed(d)' + (IF x1 = "write" /\ d = x2 THEN x3 ELSE 0)
      BY <1>4 DEF Xfr!PrintInv
    <2>4. Xfr!Busy => \A i, m \in 1..Len(x5) : i <= m /\ x5[i] = x2 => x5[m] = x2
      BY DEF Xfr!PrintInv
    <2> QED
      BY ONLY <1>1, <1>4, <2>1, <2>2, <2>3, <2>4 DEF Xfr!PrintInv
  <1>8. Xfr!NotMixed'
    BY <1>1 DEF Xfr!NotMixed
  <1> QED
    BY <1>3, <1>6, <1>7, <1>8

\* A connection is accepted: the first of the backlog.
LEMMA XfrAccept ==
  ASSUME Xfr!IndInv, Xfr!Accept
  PROVE  Xfr!IndInv'
  <1> USE FamilyAssumption DEF Xfr!IndInv
  <1>1. /\ x1 = "accept" /\ x1' = "read" /\ x4 # <<>> /\ x2' = Head(x4) /\ x4' = Tail(x4)
        /\ x3' = x3 /\ x5' = x5 /\ x6' = x6 /\ x7' = x7 /\ x8' = x8 /\ x9' = x9
    BY DEF Xfr!Accept
  <1>2. x4 \in Seq(XfrClients) /\ Len(x4) <= Backlog + 1
    BY DEF Xfr!TypeOK
  <1>3. PICK b \in Seq(XfrClients) : b = x4
    BY <1>2
  <1>4. /\ Head(b) \in XfrClients /\ Head(b) = b[1] /\ Tail(b) \in Seq(XfrClients)
        /\ Len(b) \in Nat /\ Len(b) >= 1 /\ Len(Tail(b)) = Len(b) - 1
        /\ \A i \in 1..Len(b) - 1 : Tail(b)[i] = b[i + 1]
    BY <1>1, <1>3
  <1>5. Xfr!TypeOK'
    BY <1>1, <1>2, <1>3, <1>4, SMTT(20) DEF Xfr!TypeOK
  <1>6. \A i, k \in 1..Len(b) : b[i] = b[k] => i = k
    BY <1>3 DEF Xfr!PlaceInv
  <1>7. Xfr!Waits(x2')
    BY <1>1, <1>3, <1>4 DEF Xfr!Waits
  <1>8. ~(\E i \in 1..Len(x4') : x4'[i] = x2')
    <2> SUFFICES ASSUME NEW i \in 1..Len(b) - 1, b[i + 1] = b[1] PROVE FALSE
      BY <1>1, <1>3, <1>4
    <2>1. i + 1 \in 1..Len(b) /\ 1 \in 1..Len(b)
      BY <1>4
    <2>2. i + 1 = 1
      BY <1>6, <2>1
    <2> QED
      BY <2>2
  <1>9. ASSUME NEW c
        PROVE  /\ Xfr!Waits(c)' => Xfr!Waits(c)
               /\ Xfr!Waits(c) /\ c # x2' => Xfr!Waits(c)'
    <2>1. Xfr!Waits(c)' => Xfr!Waits(c)
      <3> SUFFICES ASSUME NEW i \in 1..Len(b) - 1, b[i + 1] = c
                   PROVE  \E k \in 1..Len(b) : b[k] = c
        BY <1>1, <1>3, <1>4 DEF Xfr!Waits
      <3>1. i + 1 \in 1..Len(b)
        BY <1>4
      <3> QED
        BY <3>1
    <2>2. Xfr!Waits(c) /\ c # x2' => Xfr!Waits(c)'
      <3> SUFFICES ASSUME NEW i \in 1..Len(b), b[i] = c, c # b[1]
                   PROVE  \E k \in 1..Len(b) - 1 : Tail(b)[k] = c
        BY <1>1, <1>3, <1>4 DEF Xfr!Waits
      <3>1. i - 1 \in 1..Len(b) - 1 /\ (i - 1) + 1 = i
        BY <1>4
      <3>2. Tail(b)[i - 1] = b[i]
        BY <1>4, <3>1
      <3> QED
        BY <3>1, <3>2
    <2> QED
      BY <2>1, <2>2
  <1>10. x2' \in XfrClients /\ Xfr!Busy' /\ ~Xfr!Busy
    BY <1>1, <1>3, <1>4 DEF Xfr!Busy
  <1>11. \A i, k \in 1..Len(x4') : x4'[i] = x4'[k] => i = k
    <2> SUFFICES ASSUME NEW i \in 1..Len(b) - 1, NEW k \in 1..Len(b) - 1, b[i + 1] = b[k + 1]
                 PROVE  i = k
      BY <1>1, <1>3, <1>4
    <2>1. i + 1 \in 1..Len(b) /\ k + 1 \in 1..Len(b)
      BY <1>4
    <2>2. i + 1 = k + 1
      BY <1>6, <2>1
    <2> QED
      BY <2>2
  <1>12. Xfr!PlaceInv'
    <2>1. ~Xfr!Waits(x2)'
      BY <1>8 DEF Xfr!Waits
    <2>2. x6'[x2'] # "connect"
      BY <1>1, <1>7, <1>10 DEF Xfr!PlaceInv
    <2>3. \A c \in XfrClients : x6'[c] = "connect" => ~Xfr!Waits(c)' /\ x8'[c] = 0 /\ x7'[c] = 0
      BY <1>1, <1>9 DEF Xfr!PlaceInv
    <2>4. \A c \in XfrClients : x6'[c] # "connect" /\ ~Xfr!Waits(c)' /\ ~(Xfr!Busy' /\ c = x2') =>
            Xfr!Ended(c)' /\ x9'[c] = x8'[c]
      BY <1>1, <1>9, <1>10 DEF Xfr!PlaceInv, Xfr!Ended
    <2> QED
      BY ONLY <1>10, <1>11, <2>1, <2>2, <2>3, <2>4 DEF Xfr!PlaceInv
  <1>13. Xfr!PrintInv'
    <2>1. \A c \in XfrClients : x6'[c] = "connect" \/ Xfr!Waits(c)' =>
            x9'[c] = 0 /\ \A i \in 1..Len(x5') : x5'[i] # c
      BY <1>1, <1>9 DEF Xfr!PrintInv
    <2>2. \A c \in XfrClients : x9'[c] <= x8'[c] /\ x8'[c] <= x7'[c]
      BY <1>1 DEF Xfr!PrintInv
    <2>3. \A c \in XfrClients :
            x9'[c] = Xfr!Printed(c)' + (IF x1' = "write" /\ c = x2' THEN x3' ELSE 0)
      BY <1>1, XfrSame DEF Xfr!PrintInv
    <2>4. \A i \in 1..Len(x5') : x5'[i] # x2'
      BY <1>1, <1>7, <1>10 DEF Xfr!PrintInv
    <2> QED
      BY ONLY <2>1, <2>2, <2>3, <2>4 DEF Xfr!PrintInv
  <1>14. Xfr!NotMixed'
    BY <1>1 DEF Xfr!NotMixed
  <1> QED
    BY <1>5, <1>12, <1>13, <1>14

\* The server reads from the connection.
LEMMA XfrRead ==
  ASSUME Xfr!IndInv, Xfr!ServerRead
  PROVE  Xfr!IndInv'
  <1> USE FamilyAssumption DEF Xfr!IndInv
  <1>1. /\ x1 = "read" /\ x1' = "write" /\ x8[x2] > x9[x2]
        /\ x3' = Xfr!Least(BufSize, x8[x2] - x9[x2])
        /\ x9' = [x9 EXCEPT ![x2] = @ + x3']
        /\ x2' = x2 /\ x4' = x4 /\ x5' = x5 /\ x6' = x6 /\ x7' = x7 /\ x8' = x8
    BY DEF Xfr!ServerRead
  <1>2. Xfr!Busy /\ Xfr!Busy' /\ x2 \in XfrClients /\ ~Xfr!Waits(x2) /\ x6[x2] # "connect"
    BY <1>1 DEF Xfr!Busy, Xfr!PlaceInv
  <1>3. /\ x9 \in [XfrClients -> 0..Input] /\ x8 \in [XfrClients -> 0..Input]
        /\ x8[x2] \in 0..Input /\ x9[x2] \in 0..Input
    BY <1>2 DEF Xfr!TypeOK
  <1>4. x3' \in 0..BufSize /\ x9[x2] + x3' <= x8[x2] /\ x9[x2] + x3' \in 0..Input
    BY <1>1, <1>3 DEF Xfr!Least
  <1>5. x9'[x2] = x9[x2] + x3' /\ \A c \in XfrClients \ {x2} : x9'[c] = x9[c]
    BY <1>1, <1>2, <1>3
  <1>6. Xfr!TypeOK'
    <2>1. x9' \in [XfrClients -> 0..Input]
      BY <1>1, <1>3, <1>4
    <2> QED
      BY <1>1, <1>4, <2>1 DEF Xfr!TypeOK
  <1>7. \A c : Xfr!Waits(c)' = Xfr!Waits(c) /\ Xfr!Printed(c)' = Xfr!Printed(c)
    BY <1>1, XfrSame
  <1>8. Xfr!PlaceInv'
    <2>1. ~Xfr!Waits(x2)'
      BY <1>1, <1>2 DEF Xfr!Waits
    <2>2. \A i, k \in 1..Len(x4') : x4'[i] = x4'[k] => i = k
      BY <1>1 DEF Xfr!PlaceInv
    <2>3. \A c \in XfrClients : x6'[c] = "connect" => ~Xfr!Waits(c)' /\ x8'[c] = 0 /\ x7'[c] = 0
      BY <1>1, <1>7 DEF Xfr!PlaceInv
    <2>4. \A c \in XfrClients : x6'[c] # "connect" /\ ~Xfr!Waits(c)' /\ ~(Xfr!Busy' /\ c = x2') =>
            Xfr!Ended(c)' /\ x9'[c] = x8'[c]
      BY <1>1, <1>2, <1>5, <1>7 DEF Xfr!PlaceInv, Xfr!Ended
    <2> QED
      BY ONLY <1>1, <1>2, <2>1, <2>2, <2>3, <2>4 DEF Xfr!PlaceInv
  <1>9. Xfr!PrintInv'
    <2>1. \A c \in XfrClients : x6'[c] = "connect" \/ Xfr!Waits(c)' =>
            x9'[c] = 0 /\ \A i \in 1..Len(x5') : x5'[i] # c
      BY <1>1, <1>2, <1>5, <1>7 DEF Xfr!PrintInv
    <2>2. \A c \in XfrClients : x9'[c] <= x8'[c] /\ x8'[c] <= x7'[c]
      BY <1>1, <1>4, <1>5 DEF Xfr!PrintInv
    <2>3. \A c \in XfrClients :
            x9'[c] = Xfr!Printed(c)' + (IF x1' = "write" /\ c = x2' THEN x3' ELSE 0)
      <3>1. \A c \in XfrClients : x9[c] = Xfr!Printed(c) + 0
        BY <1>1 DEF Xfr!PrintInv
      <3>2. \A c \in XfrClients : x9[c] \in Nat /\ Xfr!Printed(c) \in Nat
        BY <1>3, XfrPrintedNat
      <3>3. \A c \in XfrClients : x9[c] = Xfr!Printed(c)
        BY <3>1, <3>2
      <3> QED
        BY <1>1, <1>4, <1>5, <1>7, <3>2, <3>3
    <2>4. \A i, m \in 1..Len(x5') : i <= m /\ x5'[i] = x2' => x5'[m] = x2'
      BY <1>1, <1>2 DEF Xfr!PrintInv
    <2> QED
      BY ONLY <2>1, <2>2, <2>3, <2>4 DEF Xfr!PrintInv
  <1>10. Xfr!NotMixed'
    BY <1>1 DEF Xfr!NotMixed
  <1> QED
    BY <1>6, <1>8, <1>9, <1>10

\* The server prints what it read.
LEMMA XfrWrite ==
  ASSUME Xfr!IndInv, Xfr!ServerWrite
  PROVE  Xfr!IndInv'
  <1> USE FamilyAssumption DEF Xfr!IndInv
  <1>1. /\ x1 = "write" /\ x1' = "read" /\ x3' = 0 /\ x5' = x5 \o [i \in 1..x3 |-> x2]
        /\ x2' = x2 /\ x4' = x4 /\ x6' = x6 /\ x7' = x7 /\ x8' = x8 /\ x9' = x9
    BY DEF Xfr!ServerWrite
  <1>2. Xfr!Busy /\ Xfr!Busy' /\ x2 \in XfrClients /\ ~Xfr!Waits(x2) /\ x6[x2] # "connect"
    BY <1>1 DEF Xfr!Busy, Xfr!PlaceInv
  <1>3. x5 \in Seq(XfrClients) /\ Len(x5) \in Nat /\ x3 \in Nat
    BY DEF Xfr!TypeOK
  <1>4. /\ x5' \in Seq(XfrClients) /\ Len(x5') = Len(x5) + x3
        /\ \A i \in 1..Len(x5) : x5'[i] = x5[i]
        /\ \A i \in Len(x5) + 1 .. Len(x5) + x3 : x5'[i] = x2
    BY <1>1, <1>2, <1>3, CopiesAfter
  <1>5. ASSUME NEW c
        PROVE  Xfr!Printed(c)' = Xfr!Printed(c) + (IF c = x2 THEN x3 ELSE 0)
    <2>1. PICK S, U : /\ S = {i \in 1..Len(x5) : x5[i] = c}
                      /\ U = {i \in 1..Len(x5') : x5'[i] = c}
      OBVIOUS
    <2>2. Xfr!Cardinality(U) = Cardinality(U) /\ Xfr!Cardinality(S) = Cardinality(S)
      BY XfrCardinality
    <2>3. Xfr!Printed(c)' = Xfr!Cardinality(U) /\ Xfr!Printed(c) = Xfr!Cardinality(S)
      BY ONLY <2>1 DEF Xfr!Printed
    <2>4. Cardinality(U) = Cardinality(S) + (IF c = x2 THEN x3 ELSE 0)
      <3>1. S \in SUBSET (1..Len(x5))
        BY <2>1
      <3>2. c = x2 => U = S \cup (Len(x5) + 1 .. Len(x5) + x3)
        BY <1>3, <1>4, <2>1
      <3>3. c # x2 => U = S
        BY <1>3, <1>4, <2>1
      <3>4. Cardinality(S \cup (Len(x5) + 1 .. Len(x5) + x3)) = Cardinality(S) + x3
        BY <1>3, <3>1, PrintedMore
      <3>5. Cardinality(S) \in Nat
        BY <2>1, <2>2, <2>3, XfrPrintedNat
      <3>6. Cardinality(S) + 0 = Cardinality(S)
        BY <3>5
      <3>7. CASE c = x2
        BY <3>2, <3>4, <3>7, Zenon
      <3>8. CASE c # x2
        BY <3>3, <3>6, <3>8, Zenon
      <3> QED
        BY <3>7, <3>8
    <2> QED
      BY ONLY <2>2, <2>3, <2>4
  <1>6. Xfr!TypeOK'
    BY <1>1, <1>4 DEF Xfr!TypeOK
  <1>7. \A c : Xfr!Waits(c)' = Xfr!Waits(c)
    BY <1>1, XfrSame
  <1>8. Xfr!PlaceInv'
    <2>1. ~Xfr!Waits(x2)'
      BY <1>1, <1>2 DEF Xfr!Waits
    <2>2. \A i, k \in 1..Len(x4') : x4'[i] = x4'[k] => i = k
      BY <1>1 DEF Xfr!PlaceInv
    <2>3. \A c \in XfrClients : x6'[c] = "connect" => ~Xfr!Waits(c)' /\ x8'[c] = 0 /\ x7'[c] = 0
      BY <1>1, <1>7 DEF Xfr!PlaceInv
    <2>4. \A c \in XfrClients : x6'[c] # "connect" /\ ~Xfr!Waits(c)' /\ ~(Xfr!Busy' /\ c = x2') =>
            Xfr!Ended(c)' /\ x9'[c] = x8'[c]
      BY <1>1, <1>2, <1>7 DEF Xfr!PlaceInv, Xfr!Ended
    <2> QED
      BY ONLY <1>1, <1>2, <2>1, <2>2, <2>3, <2>4 DEF Xfr!PlaceInv
  <1>9. \A i \in 1..Len(x5') : i \in 1..Len(x5) \/ (i > Len(x5) /\ x5'[i] = x2)
    BY <1>3, <1>4
  <1>10. \A i, m \in 1..Len(x5') : i <= m /\ x5'[i] = x2 => x5'[m] = x2
    <2> SUFFICES ASSUME NEW i \in 1..Len(x5'), NEW m \in 1..Len(x5'), i <= m, x5'[i] = x2
                 PROVE  x5'[m] = x2
      OBVIOUS
    <2>1. CASE m \in 1..Len(x5)
      <3>1. i \in 1..Len(x5) /\ x5[i] = x2
        BY <1>3, <1>4, <2>1
      <3> QED
        BY <1>2, <1>4, <2>1, <3>1 DEF Xfr!PrintInv
    <2> QED
      BY <1>9, <2>1
  <1>11. Xfr!PrintInv'
    <2>1. \A c \in XfrClients : x6'[c] = "connect" \/ Xfr!Waits(c)' =>
            x9'[c] = 0 /\ \A i \in 1..Len(x5') : x5'[i] # c
      <3> SUFFICES ASSUME NEW c \in XfrClients, x6[c] = "connect" \/ Xfr!Waits(c)
                   PROVE  x9[c] = 0 /\ \A i \in 1..Len(x5') : x5'[i] # c
        BY <1>1, <1>7
      <3>1. c # x2
        BY <1>2
      <3> QED
        BY <1>4, <1>9, <3>1 DEF Xfr!PrintInv
    <2>2. \A c \in XfrClients : x9'[c] <= x8'[c] /\ x8'[c] <= x7'[c]
      BY <1>1 DEF Xfr!PrintInv
    <2>3. \A c \in XfrClients :
            x9'[c] = Xfr!Printed(c)' + (IF x1' = "write" /\ c = x2' THEN x3' ELSE 0)
      <3> SUFFICES ASSUME NEW c \in XfrClients PROVE x9[c] = Xfr!Printed(c)' + 0
        BY <1>1
      <3>1. x9[c] = Xfr!Printed(c) + (IF c = x2 THEN x3 ELSE 0) /\ x9[c] \in Nat
        BY <1>1 DEF Xfr!PrintInv, Xfr!TypeOK
      <3>2. x9[c] = Xfr!Printed(c)'
        BY <1>5, <3>1
      <3> QED
        BY <3>1, <3>2
    <2> QED
      BY ONLY <1>1, <1>10, <2>1, <2>2, <2>3 DEF Xfr!PrintInv
  <1>12. Xfr!NotMixed'
    <2>1. ASSUME NEW i \in 1..Len(x5'), NEW k \in 1..Len(x5'), i < k, x5'[i] = x5'[k],
                 NEW m \in i..k
          PROVE  x5'[m] = x5'[i]
      <3>1. m \in 1..Len(x5') /\ i <= m
        BY <1>3, <1>4, <2>1
      <3>2. CASE k \in 1..Len(x5)
        <4>1. i \in 1..Len(x5) /\ m \in 1..Len(x5)
          BY <1>3, <1>4, <2>1, <3>1, <3>2
        <4> QED
          BY <1>4, <2>1, <3>2, <4>1 DEF Xfr!NotMixed
      <3>3. CASE x5'[k] = x2
        BY <1>10, <2>1, <3>1, <3>3
      <3> QED
        BY <1>9, <3>2, <3>3
    <2> QED
      BY ONLY <2>1 DEF Xfr!NotMixed
  <1> QED
    BY <1>6, <1>8, <1>11, <1>12

\* The server starts to listen, has read the end of file, or exits.
LEMMA XfrServerMoves ==
  ASSUME Xfr!IndInv,
         Xfr!Listen \/ Xfr!ServerEof \/ Xfr!ServerFails \/ UNCHANGED Xfr!vars
  PROVE  Xfr!IndInv'
  <1> USE FamilyAssumption DEF Xfr!IndInv
  <1>1. /\ x2' = x2 /\ x3' = x3 /\ x4' = x4 /\ x5' = x5 /\ x6' = x6 /\ x7' = x7 /\ x8' = x8
        /\ x9' = x9
        /\ \/ x1' = x1
           \/ x1 = "down" /\ x1' = "accept"
           \/ x1 = "read" /\ x1' = "accept" /\ Xfr!Ended(x2) /\ x9[x2] = x8[x2]
           \/ x1' = "exited"
    BY DEF Xfr!Listen, Xfr!ServerEof, Xfr!ServerFails, Xfr!vars
  <1>2. \A c : /\ Xfr!Waits(c)' = Xfr!Waits(c) /\ Xfr!Printed(c)' = Xfr!Printed(c)
               /\ Xfr!Ended(c)' = Xfr!Ended(c)
    BY <1>1, XfrSame DEF Xfr!Ended
  <1>3. Xfr!TypeOK' /\ Xfr!NotMixed'
    BY <1>1 DEF Xfr!TypeOK, Xfr!NotMixed
  <1>4. Xfr!Busy' => Xfr!Busy /\ x1' = x1
    BY <1>1 DEF Xfr!Busy
  <1>5. Xfr!PlaceInv'
    <2>1. Xfr!Busy' => x2' \in XfrClients /\ ~Xfr!Waits(x2)' /\ x6'[x2'] # "connect"
      BY <1>1, <1>4 DEF Xfr!PlaceInv, Xfr!Waits
    <2>2. \A i, k \in 1..Len(x4') : x4'[i] = x4'[k] => i = k
      BY <1>1 DEF Xfr!PlaceInv
    <2>3. \A c \in XfrClients : x6'[c] = "connect" => ~Xfr!Waits(c)' /\ x8'[c] = 0 /\ x7'[c] = 0
      BY <1>1, <1>2 DEF Xfr!PlaceInv
    <2>4. x1' # "exited" => \A c \in XfrClients :
            x6'[c] # "connect" /\ ~Xfr!Waits(c)' /\ ~(Xfr!Busy' /\ c = x2') =>
            Xfr!Ended(c)' /\ x9'[c] = x8'[c]
      <3> SUFFICES ASSUME x1' # "exited", NEW c \in XfrClients,
                          x6[c] # "connect", ~Xfr!Waits(c), ~(Xfr!Busy' /\ c = x2)
                   PROVE  Xfr!Ended(c) /\ x9[c] = x8[c]
        BY <1>1, <1>2
      <3>1. CASE x1' = x1
        BY <1>1, <3>1 DEF Xfr!PlaceInv, Xfr!Busy
      <3>2. CASE x1' # x1 /\ Xfr!Busy /\ c = x2
        BY <1>1, <3>2 DEF Xfr!Busy
      <3>3. CASE x1' # x1 /\ ~(Xfr!Busy /\ c = x2)
        BY <1>1, <3>3 DEF Xfr!PlaceInv
      <3> QED
        BY <3>1, <3>2, <3>3
    <2> QED
      BY ONLY <2>1, <2>2, <2>3, <2>4 DEF Xfr!PlaceInv
  <1>6. Xfr!PrintInv'
    <2>1. \A c \in XfrClients : x6'[c] = "connect" \/ Xfr!Waits(c)' =>
            x9'[c] = 0 /\ \A i \in 1..Len(x5') : x5'[i] # c
      BY <1>1, <1>2 DEF Xfr!PrintInv
    <2>2. \A c \in XfrClients : x9'[c] <= x8'[c] /\ x8'[c] <= x7'[c]
      BY <1>1 DEF Xfr!PrintInv
    <2>3. x1' # "exited" => \A c \in XfrClients :
            x9'[c] = Xfr!Printed(c)' + (IF x1' = "write" /\ c = x2' THEN x3' ELSE 0)
      <3>1. CASE x1' = x1
        BY <1>1, <1>2, <3>1 DEF Xfr!PrintInv
      <3>2. CASE x1 \in {"down", "read"} /\ x1' = "accept"
        BY <1>1, <1>2, <3>2 DEF Xfr!PrintInv
      <3> QED
        BY <1>1, <3>1, <3>2
    <2>4. Xfr!Busy' => \A i, m \in 1..Len(x5') : i <= m /\ x5'[i] = x2' => x5'[m] = x2'
      BY <1>1, <1>4 DEF Xfr!PrintInv
    <2> QED
      BY ONLY <2>1, <2>2, <2>3, <2>4 DEF Xfr!PrintInv
  <1> QED
    BY <1>3, <1>5, <1>6

\* A client joins the backlog.
LEMMA XfrJoins ==
  ASSUME Xfr!IndInv, NEW c \in XfrClients, x6[c] = "connect", Len(x4) <= Backlog,
         x1 \notin {"down", "exited"},
         x6' = [x6 EXCEPT ![c] = "read"], x4' = Append(x4, c),
         UNCHANGED <<x1, x2, x3, x5, x7, x8, x9>>
  PROVE  Xfr!IndInv'
  <1> USE FamilyAssumption DEF Xfr!IndInv
  <1>1. /\ x1' = x1 /\ x2' = x2 /\ x3' = x3 /\ x5' = x5 /\ x7' = x7 /\ x8' = x8
        /\ x9' = x9
    OBVIOUS
  <1>2. x6'[c] = "read" /\ \A d \in XfrClients \ {c} : x6'[d] = x6[d]
    BY DEF Xfr!TypeOK
  <1>3. PICK b \in Seq(XfrClients) : b = x4
    BY DEF Xfr!TypeOK
  <1>4. /\ Append(b, c) \in Seq(XfrClients) /\ Len(b) \in Nat
        /\ Len(Append(b, c)) = Len(b) + 1 /\ Append(b, c)[Len(b) + 1] = c
        /\ \A i \in 1..Len(b) : Append(b, c)[i] = b[i]
    BY ONLY b \in Seq(XfrClients), c \in XfrClients
  <1>5. Xfr!TypeOK'
    BY <1>3, <1>4 DEF Xfr!TypeOK
  <1>6. \A i \in 1..Len(x4') : i \in 1..Len(b) \/ i = Len(b) + 1
    BY <1>3, <1>4
  <1>7. ASSUME NEW d PROVE Xfr!Waits(d)' <=> Xfr!Waits(d) \/ d = c
    <2>1. (\E i \in 1..Len(x4') : x4'[i] = d) <=> (\E i \in 1..Len(b) : b[i] = d) \/ d = c
      BY <1>3, <1>4, <1>6
    <2> QED
      BY ONLY <1>3, <2>1 DEF Xfr!Waits
  <1>8. ~Xfr!Waits(c) /\ x8[c] = 0 /\ x7[c] = 0 /\ x9[c] = 0 /\ Xfr!Busy' = Xfr!Busy
        /\ (Xfr!Busy => c # x2)
    BY <1>1 DEF Xfr!PlaceInv, Xfr!PrintInv, Xfr!Busy
  <1>9. \A d : Xfr!Printed(d)' = Xfr!Printed(d)
    BY <1>1, XfrSame
  <1>10. Xfr!PlaceInv'
    <2>1. Xfr!Busy' => x2' \in XfrClients /\ ~Xfr!Waits(x2)' /\ x6'[x2'] # "connect"
      <3>1. PICK d : d = x2
        OBVIOUS
      <3>2. x2' = d /\ (Xfr!Busy => ~Xfr!Waits(d) /\ d # c /\ d \in XfrClients /\ x6[d] # "connect")
        BY <1>1, <1>8, <3>1 DEF Xfr!PlaceInv
      <3>3. Xfr!Waits(x2)' <=> Xfr!Waits(d)'
        BY <3>2 DEF Xfr!Waits
      <3> QED
        BY <1>2, <1>7, <1>8, <3>2, <3>3
    <2>2. \A i, k \in 1..Len(x4') : x4'[i] = x4'[k] => i = k
      <3>1. \A i \in 1..Len(b) : b[i] # c
        BY <1>3, <1>8 DEF Xfr!Waits
      <3>2. \A i, k \in 1..Len(b) : b[i] = b[k] => i = k
        BY <1>3 DEF Xfr!PlaceInv
      <3> QED
        BY <1>3, <1>4, <1>6, <3>1, <3>2
    <2>3. \A d \in XfrClients : x6'[d] = "connect" => ~Xfr!Waits(d)' /\ x8'[d] = 0 /\ x7'[d] = 0
      BY <1>1, <1>2, <1>7 DEF Xfr!PlaceInv
    <2>4. x1' # "exited" => \A d \in XfrClients :
            x6'[d] # "connect" /\ ~Xfr!Waits(d)' /\ ~(Xfr!Busy' /\ d = x2') =>
            Xfr!Ended(d)' /\ x9'[d] = x8'[d]
      BY <1>1, <1>2, <1>7, <1>8 DEF Xfr!PlaceInv, Xfr!Ended
    <2> QED
      BY ONLY <2>1, <2>2, <2>3, <2>4 DEF Xfr!PlaceInv
  <1>11. Xfr!PrintInv'
    <2>1. \A d \in XfrClients : x6'[d] = "connect" \/ Xfr!Waits(d)' =>
            x9'[d] = 0 /\ \A i \in 1..Len(x5') : x5'[i] # d
      BY <1>1, <1>2, <1>7 DEF Xfr!PrintInv
    <2>2. \A d \in XfrClients : x9'[d] <= x8'[d] /\ x8'[d] <= x7'[d]
      BY <1>1 DEF Xfr!PrintInv
    <2>3. x1' # "exited" => \A d \in XfrClients :
            x9'[d] = Xfr!Printed(d)' + (IF x1' = "write" /\ d = x2' THEN x3' ELSE 0)
      BY <1>1, <1>9 DEF Xfr!PrintInv
    <2>4. Xfr!Busy' => \A i, m \in 1..Len(x5') : i <= m /\ x5'[i] = x2' => x5'[m] = x2'
      BY <1>1, <1>8 DEF Xfr!PrintInv
    <2> QED
      BY ONLY <2>1, <2>2, <2>3, <2>4 DEF Xfr!PrintInv
  <1>12. Xfr!NotMixed'
    BY <1>1 DEF Xfr!NotMixed
  <1> QED
    BY <1>5, <1>10, <1>11, <1>12

\* Every step of the transfer keeps the data of the connections apart.
LEMMA XfrStep == Xfr!IndInv /\ [Xfr!Next]_(Xfr!vars) => Xfr!IndInv'
  <1> SUFFICES ASSUME Xfr!IndInv, [Xfr!Next]_(Xfr!vars) PROVE Xfr!IndInv'
    OBVIOUS
  <1> USE FamilyAssumption
  <1>1. CASE Xfr!Accept \/ Xfr!ServerRead \/ Xfr!ServerWrite
    BY <1>1, XfrAccept, XfrRead, XfrWrite
  <1>2. CASE Xfr!Listen \/ Xfr!ServerEof \/ Xfr!ServerFails \/ UNCHANGED Xfr!vars
    BY <1>2, XfrServerMoves
  <1>3. ASSUME NEW c \in XfrClients
        PROVE  /\ x7[c] \in 0..Input /\ x8[c] \in 0..Input /\ x8[c] <= x8[c] /\ x8[c] <= x7[c]
               /\ x7 = [x7 EXCEPT ![c] = x7[c]] /\ x8 = [x8 EXCEPT ![c] = x8[c]]
    BY DEF Xfr!IndInv, Xfr!TypeOK, Xfr!PrintInv
  <1>4. ASSUME NEW c \in XfrClients, Xfr!Connect(c) PROVE Xfr!IndInv'
    <2>1. /\ x6[c] = "connect" /\ UNCHANGED <<x1, x2, x3, x5, x7, x8, x9>>
          /\ x1 \in {"down", "exited"} \/ Len(x4) <= Backlog
      BY <1>4 DEF Xfr!Connect
    <2>2. CASE x1 \in {"down", "exited"}
      <3>1. x6' = [x6 EXCEPT ![c] = "failed"] /\ x4' = x4
        BY <1>4, <2>2 DEF Xfr!Connect, Xfr!Move
      <3> QED
        BY <1>3, <2>1, <3>1, XfrClientMoves DEF Xfr!Ended
    <2>3. CASE x1 \notin {"down", "exited"}
      <3>1. x6' = [x6 EXCEPT ![c] = "read"] /\ x4' = Append(x4, c)
        BY <1>4, <2>3 DEF Xfr!Connect, Xfr!Move
      <3> QED
        BY <2>1, <2>3, <3>1, XfrJoins
    <2> QED
      BY <2>2, <2>3
  <1>5. ASSUME NEW c \in XfrClients, Xfr!ClientRead(c) PROVE Xfr!IndInv'
    <2>1. x6[c] = "read" /\ UNCHANGED <<x1, x2, x3, x4, x5, x8, x9>>
      BY <1>5 DEF Xfr!ClientRead
    <2>2. CASE x7[c] = Input
      <3>1. x6' = [x6 EXCEPT ![c] = "done"] /\ x7' = x7
        BY <1>5, <2>2 DEF Xfr!ClientRead, Xfr!Move
      <3> QED
        BY <1>3, <2>1, <3>1, XfrClientMoves DEF Xfr!Ended
    <2>3. CASE x7[c] # Input
      <3>1. PICK k \in 1..Xfr!Least(BufSize, Input - x7[c]) :
              x7' = [x7 EXCEPT ![c] = @ + k] /\ x6' = [x6 EXCEPT ![c] = "write"]
        BY <1>5, <2>3 DEF Xfr!ClientRead, Xfr!Move
      <3>2. x7[c] + k \in 0..Input /\ x8[c] <= x7[c] + k
        BY <1>3, <3>1 DEF Xfr!Least
      <3>3. x7' = [x7 EXCEPT ![c] = x7[c] + k]
        BY <3>1
      <3>4. x8' = [x8 EXCEPT ![c] = x8[c]]
        BY <1>3, <2>1
      <3> QED
        BY <1>3, <2>1, <3>1, <3>2, <3>3, <3>4, XfrClientMoves DEF Xfr!Ended
    <2> QED
      BY <2>2, <2>3
  <1>6. ASSUME NEW c \in XfrClients, Xfr!ClientWrite(c) PROVE Xfr!IndInv'
    <2>1. x6[c] = "write" /\ UNCHANGED <<x1, x2, x3, x4, x5, x7, x9>>
      BY <1>6 DEF Xfr!ClientWrite
    <2>2. CASE x1 = "exited"
      <3>1. x6' = [x6 EXCEPT ![c] = "killed"] /\ x8' = x8
        BY <1>6, <2>2 DEF Xfr!ClientWrite, Xfr!Move
      <3> QED
        BY <1>3, <2>1, <3>1, XfrClientMoves DEF Xfr!Ended
    <2>3. CASE x1 # "exited"
      <3>1. x6' = [x6 EXCEPT ![c] = "read"] /\ x8' = [x8 EXCEPT ![c] = x7[c]]
        BY <1>6, <2>3 DEF Xfr!ClientWrite, Xfr!Move
      <3>2. x7[c] <= x7[c] /\ x7' = [x7 EXCEPT ![c] = x7[c]]
        BY <1>3, <2>1
      <3> QED
        BY <1>3, <2>1, <3>1, <3>2, XfrClientMoves DEF Xfr!Ended
    <2> QED
      BY <2>2, <2>3
  <1>7. ASSUME NEW c \in XfrClients, Xfr!ClientReadError(c) \/ Xfr!ClientKilled(c)
        PROVE  Xfr!IndInv'
    <2>1. ~Xfr!Ended(c) /\ UNCHANGED <<x1, x2, x3, x4, x5, x7, x8, x9>>
      BY <1>7 DEF Xfr!ClientReadError, Xfr!ClientKilled, Xfr!Ended
    <2>2. PICK st \in {"done", "killed"} : x6' = [x6 EXCEPT ![c] = st]
      BY <1>7 DEF Xfr!ClientReadError, Xfr!ClientKilled, Xfr!Move
    <2>3. x7' = [x7 EXCEPT ![c] = x7[c]] /\ x8' = [x8 EXCEPT ![c] = x8[c]]
      BY <1>3, <2>1
    <2> QED
      BY <1>3, <2>1, <2>2, <2>3, XfrClientMoves
  <1> QED
    BY <1>1, <1>2, <1>4, <1>5, <1>6, <1>7 DEF Xfr!Next, Xfr!Server, Xfr!Client

\* A client writes what it read before it reads again or ends normally.
LEMMA XfrStatusStep ==
  ASSUME Xfr!IndInv, Xfr!StatusInv, [Xfr!Next]_(Xfr!vars)
  PROVE  Xfr!StatusInv'
  <1> USE DEF Xfr!StatusInv, Xfr!SentWhole
  <1>1. /\ x6 \in [XfrClients -> {"connect", "read", "write", "done", "failed", "killed"}]
        /\ x7 \in [XfrClients -> 0..Input] /\ x8 \in [XfrClients -> 0..Input]
        /\ \A c \in XfrClients : x6[c] = "connect" => x8[c] = 0 /\ x7[c] = 0
    BY DEF Xfr!IndInv, Xfr!TypeOK, Xfr!PlaceInv
  <1>2. CASE \/ Xfr!Listen \/ Xfr!Accept \/ Xfr!ServerRead \/ Xfr!ServerWrite \/ Xfr!ServerEof
             \/ Xfr!ServerFails \/ UNCHANGED Xfr!vars
    <2>1. UNCHANGED <<x6, x7, x8>>
      BY <1>2 DEF Xfr!Listen, Xfr!Accept, Xfr!ServerRead, Xfr!ServerWrite, Xfr!ServerEof,
                  Xfr!ServerFails, Xfr!vars
    <2> QED
      BY <2>1
  <1>3. ASSUME NEW c \in XfrClients, Xfr!Connect(c) PROVE Xfr!StatusInv'
    <2>1. PICK st \in {"read", "failed"} : x6' = [x6 EXCEPT ![c] = st]
      BY <1>3 DEF Xfr!Connect, Xfr!Move
    <2>2. x6[c] = "connect" /\ x7' = x7 /\ x8' = x8
      BY <1>3 DEF Xfr!Connect
    <2> QED
      BY <1>1, <2>1, <2>2
  <1>4. ASSUME NEW c \in XfrClients, Xfr!ClientRead(c) PROVE Xfr!StatusInv'
    <2>1. x6[c] = "read" /\ x8' = x8
      BY <1>4 DEF Xfr!ClientRead
    <2>2. CASE x7[c] = Input
      BY <1>1, <1>4, <2>1, <2>2 DEF Xfr!ClientRead, Xfr!Move
    <2>3. CASE x7[c] # Input
      <3>1. PICK k : x7' = [x7 EXCEPT ![c] = @ + k] /\ x6' = [x6 EXCEPT ![c] = "write"]
        BY <1>4, <2>3 DEF Xfr!ClientRead, Xfr!Move
      <3> QED
        BY <1>1, <2>1, <3>1
    <2> QED
      BY <2>2, <2>3
  <1>5. ASSUME NEW c \in XfrClients, Xfr!ClientWrite(c) PROVE Xfr!StatusInv'
    BY <1>1, <1>5 DEF Xfr!ClientWrite, Xfr!Move
  <1>6. ASSUME NEW c \in XfrClients, Xfr!ClientReadError(c) \/ Xfr!ClientKilled(c)
        PROVE  Xfr!StatusInv'
    BY <1>1, <1>6 DEF Xfr!ClientReadError, Xfr!ClientKilled, Xfr!Move
  <1> QED
    BY <1>2, <1>3, <1>4, <1>5, <1>6 DEF Xfr!Next, Xfr!Server, Xfr!Client

\* A connection the stream server has finished with was copied whole and as one
\* piece of the output (stream_sock_xfr_server.c lines 52-75), and a client that
\* exits with status 0 has written all it read (stream_sock_xfr_client.c lines
\* 34-46), for any number of clients, any backlog and any amount of data,
\* whoever is killed.
THEOREM XfrCopiedWhole == FamilySpec => []CopiedWhole
  <1> DEFINE P == system = "xfr" => Xfr!IndInv /\ Xfr!StatusInv
  <1>1. FamilyInit => P
    <2> SUFFICES ASSUME Xfr!Init PROVE Xfr!IndInv /\ Xfr!StatusInv
      BY DEF FamilyInit
    <2>1. /\ x1 = "down" /\ x2 = None /\ x3 = 0 /\ x4 = <<>> /\ x5 = <<>>
          /\ \A c \in XfrClients : x6[c] = "connect" /\ x7[c] = 0 /\ x8[c] = 0 /\ x9[c] = 0
      BY DEF Xfr!Init
    <2>2. Len(x4) = 0 /\ Len(x5) = 0 /\ 1..0 = {}
      BY <2>1
    <2>3. Xfr!TypeOK
      BY <2>1, <2>2, FamilyAssumption DEF Xfr!Init, Xfr!TypeOK
    <2>4. \A c : ~Xfr!Waits(c) /\ Xfr!Printed(c) = 0
      <3> SUFFICES ASSUME NEW c PROVE ~Xfr!Waits(c) /\ Xfr!Printed(c) = 0
        OBVIOUS
      <3>1. {i \in 1..Len(x5) : x5[i] = c} = {}
        BY <2>2
      <3>2. Xfr!Cardinality({}) = 0
        BY XfrCardinality, FS_EmptySet
      <3> QED
        BY ONLY <2>2, <3>1, <3>2 DEF Xfr!Waits, Xfr!Printed
    <2>5. Xfr!PlaceInv
      BY <2>1, <2>2, <2>4 DEF Xfr!PlaceInv, Xfr!Busy
    <2>6. Xfr!PrintInv /\ Xfr!NotMixed
      BY <2>1, <2>2, <2>4 DEF Xfr!PrintInv, Xfr!Busy, Xfr!NotMixed
    <2> QED
      BY <2>1, <2>3, <2>5, <2>6 DEF Xfr!IndInv, Xfr!StatusInv, Xfr!SentWhole
  <1>2. P /\ [FamilyNext]_all => P'
    BY SystemStep, XfrStep, XfrStatusStep
  <1>3. P => CopiedWhole
    <2> SUFFICES ASSUME Xfr!IndInv, Xfr!StatusInv, x1 = "accept", NEW c \in XfrClients,
                        ~Xfr!Waits(c), x6[c] # "connect"
                 PROVE  Xfr!Printed(c) = x8[c]
      BY DEF CopiedWhole, Xfr!CopiedWhole, Xfr!IndInv
    <2>1. x9[c] = x8[c]
      BY DEF Xfr!IndInv, Xfr!PlaceInv, Xfr!Busy
    <2>2. x9[c] = Xfr!Printed(c) + 0
      BY DEF Xfr!IndInv, Xfr!PrintInv
    <2>3. Xfr!Printed(c) \in Nat
      BY XfrPrintedNat DEF Xfr!IndInv
    <2> QED
      BY <2>1, <2>2, <2>3
  <1> QED
    BY <1>1, <1>2, <1>3, PTL DEF FamilySpec
=============================================================================
