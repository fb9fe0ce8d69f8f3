-------------------------- MODULE TcpSeqnumProofs --------------------------
(***************************************************************************)
(* Proofs about the sequence-number service over TCP, for every set of     *)
(* clients, all lengths and every width W of the counter: IndInv is        *)
(* inductive, the service implements SeqAllocator with the counter         *)
(* unwrapped, and therefore no value of the wrapping counter is given to   *)
(* two clients until W numbers have been handed out.                       *)
(***************************************************************************)
EXTENDS TcpSeqnum, TLAPS

-----------------------------------------------------------------------------
(* Arithmetic modulo w.                                                    *)

\* Division with remainder.
LEMMA DivMod ==
  ASSUME NEW w \in Nat \ {0}, NEW a \in Int
  PROVE  /\ a \div w \in Int /\ a % w \in 0..w - 1
         /\ a = w * (a \div w) + (a % w)
  OBVIOUS

\* Numbers that differ by a multiple of w have the same remainder.
LEMMA SameRemainder ==
  ASSUME NEW w \in Nat \ {0}, NEW a \in Int, NEW b \in Int,
         NEW k \in Int, a = b + w * k
  PROVE  a % w = b % w
  <1>1. PICK p \in Int : a = w * p + (a % w)
    BY DivMod
  <1>2. PICK q \in Int : b = w * q + (b % w)
    BY DivMod
  <1>3. a % w \in 0..w - 1 /\ b % w \in 0..w - 1
    BY DivMod
  <1>4. w * (q + k) = w * q + w * k
    OBVIOUS
  <1>5. w * p + (a % w) = w * (q + k) + (b % w)
    BY <1>1, <1>2, <1>3, <1>4
  <1> DEFINE r == a % w
             s == b % w
             z == q + k
  <1>6. r \in 0..w - 1 /\ s \in 0..w - 1 /\ z \in Int /\ w * p + r = w * z + s
    BY <1>3, <1>5
  <1> HIDE DEF r, s, z
  <1>7. r = s
    BY <1>6
  <1> QED
    BY <1>7 DEF r, s

\* A remainder may be taken early.
LEMMA AddRemainder ==
  ASSUME NEW w \in Nat \ {0}, NEW a \in Int, NEW b \in Int
  PROVE  ((a % w) + b) % w = (a + b) % w
  <1>1. PICK p \in Int : a = w * p + (a % w)
    BY DivMod
  <1> DEFINE r == a % w
             m == w * p
  <1>2. r \in Int /\ m \in Int /\ a = m + r
    BY <1>1, DivMod
  <1> HIDE DEF r, m
  <1>3. a + b = (r + b) + m /\ r + b \in Int /\ a + b \in Int
    BY <1>2
  <1>4. (a + b) % w = (r + b) % w
    BY <1>3, SameRemainder DEF m
  <1> QED
    BY <1>4 DEF r

\* Different numbers less than w apart have different remainders.
LEMMA CloseNumbers ==
  ASSUME NEW w \in Nat \ {0}, NEW a \in Int, NEW b \in Int,
         a % w = b % w, a - b < w, b - a < w
  PROVE  a = b
  <1>1. PICK p \in Int : a = w * p + (a % w)
    BY DivMod
  <1>2. PICK q \in Int : b = w * q + (b % w)
    BY DivMod
  <1> DEFINE r == a % w
  <1>3. r \in Int /\ a = w * p + r /\ b = w * q + r
    BY <1>1, <1>2, DivMod
  <1> HIDE DEF r
  <1>4. w * p - w * q < w /\ w * q - w * p < w
    BY <1>3
  <1>5. w * (p - q) < w /\ w * (q - p) < w
    BY <1>4
  <1>6. p - q < 1 /\ q - p < 1
    BY <1>5
  <1> QED
    BY <1>3, <1>6

\* Numbers of two ranges that follow one another below w.
LEMMA RangesApart ==
  ASSUME NEW w \in Nat, NEW top \in Nat, NEW s \in Nat,
         NEW x \in Nat, NEW m \in Nat, NEW y \in Nat, NEW n \in Nat,
         NEW i \in 0..m - 1, NEW k \in 0..n - 1,
         x + m <= y \/ y + n <= x, x + m <= top, y + n <= top, top <= w
  PROVE  /\ (s + x) + i # (s + y) + k
         /\ ((s + x) + i) - ((s + y) + k) < w
         /\ ((s + y) + k) - ((s + x) + i) < w
  OBVIOUS

\* The decimal the server sends is the counter up to a multiple of W.
LEMMA PrintedCounter ==
  ASSUME NEW u \in 0..W - 1
  PROVE  Printed(u) \in Int /\ Printed(u) % W = u
  <1>1. W \in Nat \ {0}
    BY TcpAssumption
  <1>2. u \in Int /\ u % W = u
    BY <1>1
  <1>3. CASE 2 * u >= W
    <2>1. Printed(u) = u - W /\ u - W \in Int /\ u - W = u + W * (-1)
      BY <1>1, <1>3 DEF Printed
    <2> DEFINE v == u - W
               k == -1
    <2>2. v \in Int /\ k \in Int /\ v = u + W * k
      BY <1>1, <1>2, <2>1
    <2> HIDE DEF v, k
    <2>3. v % W = u % W
      BY <1>1, <1>2, <2>2, SameRemainder
    <2> QED
      BY <1>2, <2>1, <2>3 DEF v
  <1>4. CASE ~(2 * u >= W)
    BY <1>2, <1>4 DEF Printed
  <1> QED
    BY <1>3, <1>4

-----------------------------------------------------------------------------
(* The invariant.                                                          *)

\* Nobody has connected and nothing has been handed out.
LEMMA InitInd == Init => IndInv
  <1> SUFFICES ASSUME Init PROVE IndInv
    OBVIOUS
  <1>1. W \in Nat \ {0} /\ InitSeqs \subseteq Int
    BY TcpAssumption
  <1>2. seqNum \in 0..W - 1
    <2>1. PICK i \in InitSeqs : seqNum = i % W
      BY DEF Init
    <2> QED
      BY <1>1, <2>1, DivMod
  <1>3. TypeOK
    BY <1>1, <1>2 DEF Init, TypeOK
  <1>4. ConnInv
    BY DEF Init, ConnInv, Waits, Serving
  <1>5. CounterInv
    <2>1. off.start = seqNum /\ off.used = 0 /\ \A c \in Clients : ~Answered(c)
      BY DEF Init, Answered
    <2>2. (seqNum + 0) % W = seqNum
      BY <1>1, <1>2
    <2> QED
      BY <2>1, <2>2 DEF CounterInv
  <1>6. AnswerInv
    BY DEF Init, AnswerInv, Ended
  <1> QED
    BY <1>3, <1>4, <1>5, <1>6 DEF IndInv

\* Every step keeps the types.
LEMMA TypeStep == IndInv /\ [Next]_vars => TypeOK'
  <1> SUFFICES ASSUME IndInv, [Next]_vars PROVE TypeOK'
    OBVIOUS
  <1>0. W \in Nat \ {0} /\ Lens \subseteq Int
    BY TcpAssumption
  <1> USE DEF IndInv, TypeOK, cliVars
  <1>1. CASE Accept
    BY <1>1 DEF Accept
  <1>2. CASE ReadRequest
    <2>1. cur \in Clients
      BY <1>2 DEF ReadRequest, ConnInv, Serving
    <2>2. len[cur] \in Int
      BY <1>0, <2>1
    <2>3. reqLen' \in Nat /\ closed' \subseteq Clients
      BY <1>2, <2>1, <2>2 DEF ReadRequest
    <2>4. srvPc' \in {"accept", "write"}
      BY <1>2 DEF ReadRequest
    <2> QED
      BY <1>2, <2>3, <2>4 DEF ReadRequest
  <1>3. CASE WriteReply
    <2>1. cur \in Clients
      BY <1>3 DEF WriteReply, ConnInv, Serving
    <2>2. Printed(seqNum) \in Int
      BY PrintedCounter
    <2>3. reply' \in [Clients -> Int \cup {None}]
      BY <1>3, <2>1, <2>2 DEF WriteReply
    <2>4. off' \in [start : Nat, used : Nat, at : [Clients -> Nat]]
      BY <1>3, <2>1 DEF WriteReply
    <2> QED
      BY <1>3, <2>3, <2>4 DEF WriteReply
  <1>4. CASE Advance
    <2>1. cur \in Clients
      BY <1>4 DEF Advance, ConnInv, Serving
    <2>2. seqNum' \in 0..W - 1
      <3>1. seqNum + reqLen \in Int /\ seqNum' = (seqNum + reqLen) % W
        BY <1>4 DEF Advance
      <3> QED
        BY <1>0, <3>1, DivMod
    <2>3. off' \in [start : Nat, used : Nat, at : [Clients -> Nat]]
      <3>1. off.used + reqLen \in Nat /\ off' = [off EXCEPT !.used = off.used + reqLen]
        BY <1>4 DEF Advance
      <3> QED
        BY <3>1
    <2>4. srvPc' \in {"accept", "exited"} /\ closed' \subseteq Clients
      BY <1>4, <2>1 DEF Advance
    <2> QED
      BY <1>4, <2>2, <2>3, <2>4 DEF Advance
  <1>5. ASSUME NEW c \in Clients, Connect(c) PROVE TypeOK'
    <2>1. backlog' \in Seq(Clients)
      <3>1. Append(backlog, c) \in Seq(Clients)
        OBVIOUS
      <3> QED
        BY <1>5, <3>1 DEF Connect
    <2>2. pc' \in [Clients -> {"connect", "sendNum", "sendNl", "readLine",
                               "done", "failed", "killed"}]
      BY <1>5 DEF Connect, Move
    <2> QED
      BY <1>5, <2>1, <2>2 DEF Connect
  <1>6. ASSUME NEW c \in Clients, SendNum(c) PROVE TypeOK'
    BY <1>6 DEF SendNum, Move
  <1>7. ASSUME NEW c \in Clients, SendNl(c) PROVE TypeOK'
    BY <1>7 DEF SendNl, Move
  <1>8. ASSUME NEW c \in Clients, ReadReply(c) PROVE TypeOK'
    BY <1>8 DEF ReadReply, Move
  <1>9. ASSUME NEW c \in Clients, Kill(c) PROVE TypeOK'
    BY <1>9 DEF Kill, Move
  <1>10. CASE UNCHANGED vars
    BY <1>10 DEF vars
  <1> QED
    BY <1>1, <1>2, <1>3, <1>4, <1>5, <1>6, <1>7, <1>8, <1>9, <1>10
    DEF Next, Server, Client

\* Every step keeps the order of connecting, asking, answering and closing.
LEMMA ConnStep == IndInv /\ [Next]_vars => ConnInv'
  <1> SUFFICES ASSUME IndInv, [Next]_vars PROVE ConnInv'
    OBVIOUS
  <1>0. backlog \in Seq(Clients) /\ closed \subseteq Clients
        /\ pc \in [Clients -> {"connect", "sendNum", "sendNl", "readLine",
                               "done", "failed", "killed"}]
        /\ reply \in [Clients -> Int \cup {None}]
    BY DEF IndInv, TypeOK
  <1> USE DEF IndInv, ConnInv, Waits, Serving, cliVars
  <1>1. CASE Accept
    <2>1. /\ Len(backlog') = Len(backlog) - 1 /\ Len(backlog) \in Nat \ {0}
          /\ \A i \in 1..Len(backlog') : backlog'[i] = backlog[i + 1]
          /\ cur' = backlog[1] /\ cur' \in Clients
      BY <1>0, <1>1 DEF Accept
    <2>2. \A c \in Clients : Waits(c)' => Waits(c) /\ c # cur'
      <3> SUFFICES ASSUME NEW c \in Clients, NEW i \in 1..Len(backlog'), backlog'[i] = c
                   PROVE  Waits(c) /\ c # cur'
        OBVIOUS
      <3>1. i + 1 \in 1..Len(backlog) /\ backlog[i + 1] = c /\ 1 \in 1..Len(backlog)
        BY <2>1
      <3> QED
        BY <2>1, <3>1
    <2>3. Waits(cur')
      <3>1. 1 \in 1..Len(backlog)
        BY <2>1
      <3> QED
        BY <2>1, <3>1
    <2>4. \A i, k \in 1..Len(backlog') : backlog'[i] = backlog'[k] => i = k
      <3> SUFFICES ASSUME NEW i \in 1..Len(backlog'), NEW k \in 1..Len(backlog'),
                          backlog'[i] = backlog'[k]
                   PROVE  i = k
        OBVIOUS
      <3>1. /\ i + 1 \in 1..Len(backlog) /\ k + 1 \in 1..Len(backlog)
            /\ backlog[i + 1] = backlog[k + 1]
        BY <2>1
      <3>2. i + 1 = k + 1
        BY <3>1
      <3> QED
        BY <3>2
    <2> HIDE DEF Waits
    <2> QED
      BY <1>1, <2>1, <2>2, <2>3, <2>4 DEF Accept
  <1>2. CASE ReadRequest
    BY <1>2 DEF ReadRequest
  <1>3. CASE WriteReply
    BY <1>0, <1>3 DEF WriteReply
  <1>4. CASE Advance
    BY <1>4 DEF Advance
  <1>5. ASSUME NEW c \in Clients, Connect(c) PROVE ConnInv'
    <2>1. CASE srvPc = "exited"
      BY <1>0, <1>5, <2>1 DEF Connect, Move
    <2>2. CASE srvPc # "exited"
      <3>1. /\ Len(backlog') = Len(backlog) + 1 /\ Len(backlog) \in Nat
            /\ \A i \in 1..Len(backlog) : backlog'[i] = backlog[i]
            /\ backlog'[Len(backlog) + 1] = c
        BY <1>0, <1>5, <2>2 DEF Connect
      <3>2. \A d \in Clients : Waits(d)' => Waits(d) \/ d = c
        <4> SUFFICES ASSUME NEW d \in Clients, NEW i \in 1..Len(backlog'), backlog'[i] = d
                     PROVE  Waits(d) \/ d = c
          OBVIOUS
        <4>1. i \in 1..Len(backlog) \/ i = Len(backlog) + 1
          BY <3>1
        <4> QED
          BY <3>1, <4>1
      <3>3. pc[c] = "connect" /\ ~Waits(c) /\ reply[c] = None /\ c \notin closed
            /\ (Serving => c # cur)
        BY <1>5 DEF Connect
      <3>4. \A i, k \in 1..Len(backlog') : backlog'[i] = backlog'[k] => i = k
        <4> SUFFICES ASSUME NEW i \in 1..Len(backlog'), NEW k \in 1..Len(backlog'),
                            backlog'[i] = backlog'[k]
                     PROVE  i = k
          OBVIOUS
        <4>1. /\ i \in 1..Len(backlog) \/ i = Len(backlog) + 1
              /\ k \in 1..Len(backlog) \/ k = Len(backlog) + 1
          BY <3>1
        <4> QED
          BY <3>1, <3>3, <4>1
      <3>5. pc'[c] = "sendNum" /\ \A d \in Clients \ {c} : pc'[d] = pc[d]
        BY <1>0, <1>5, <2>2 DEF Connect, Move
      <3> HIDE DEF Waits
      <3> QED
        BY <1>5, <2>2, <3>2, <3>3, <3>4, <3>5 DEF Connect
    <2> QED
      BY <2>1, <2>2
  <1>6. ASSUME NEW c \in Clients, SendNum(c) \/ SendNl(c) \/ ReadReply(c) \/ Kill(c)
        PROVE  ConnInv'
    <2>1. \A d \in Clients : pc'[d] = "connect" => pc[d] = "connect"
      BY <1>0, <1>6 DEF SendNum, SendNl, ReadReply, Kill, Move
    <2>2. UNCHANGED <<srvPc, cur, reqLen, backlog, len, reply, closed>>
      BY <1>6 DEF SendNum, SendNl, ReadReply, Kill
    <2> QED
      BY <2>1, <2>2
  <1>7. CASE UNCHANGED vars
    BY <1>7 DEF vars
  <1> QED
    BY <1>1, <1>2, <1>3, <1>4, <1>5, <1>6, <1>7 DEF Next, Server, Client

\* Every step keeps the counter and the answers in step with what was handed
\* out.
LEMMA CounterStep == IndInv /\ [Next]_vars => CounterInv'
  <1> SUFFICES ASSUME IndInv, [Next]_vars PROVE CounterInv'
    OBVIOUS
  <1>0. /\ W \in Nat \ {0} /\ None \notin Int /\ TypeOK /\ CounterInv
        /\ off \in [start : Nat, used : Nat, at : [Clients -> Nat]]
        /\ reply \in [Clients -> Int \cup {None}]
    BY TcpAssumption DEF IndInv, TypeOK
  <1>1. CASE WriteReply
    <2>1. cur \in Clients /\ len[cur] >= 0
      BY <1>1 DEF WriteReply, IndInv, ConnInv, Serving, TypeOK
    <2>2. /\ off'.start = off.start /\ off'.used = off.used /\ off'.at[cur] = off.used
          /\ \A c \in Clients \ {cur} : off'.at[c] = off.at[c]
          /\ UNCHANGED <<seqNum, len>>
      BY <1>0, <1>1, <2>1 DEF WriteReply, cliVars
    <2>3. \A c \in Clients \ {cur} : reply'[c] = reply[c]
      BY <1>0, <1>1 DEF WriteReply
    <2>4. CASE Ended(cur)
      <3>1. reply' = reply /\ reply[cur] = None
        BY <1>1, <2>4 DEF WriteReply, IndInv, ConnInv
      <3> QED
        BY <1>0, <2>2, <3>1 DEF CounterInv, Answered
    <2>5. CASE ~Ended(cur)
      <3>1. reply'[cur] = Printed(seqNum)
        BY <1>0, <1>1, <2>1, <2>5 DEF WriteReply
      <3>2. Printed(seqNum) \in Int /\ Printed(seqNum) % W = seqNum
        BY <1>0, PrintedCounter DEF TypeOK
      <3>3. reply'[cur] % W = (off'.start + off'.at[cur]) % W
        BY <1>0, <2>2, <3>1, <3>2 DEF CounterInv
      <3> QED
        BY <1>0, <2>1, <2>2, <2>3, <3>1, <3>2, <3>3 DEF CounterInv, Answered
    <2> QED
      BY <2>4, <2>5
  <1>2. CASE Advance
    <2>1. off'.start = off.start /\ off'.used = off.used + reqLen /\ off'.at = off.at
      BY <1>0, <1>2 DEF Advance
    <2>2. seqNum' = (seqNum + reqLen) % W /\ reply' = reply /\ len' = len
      BY <1>2 DEF Advance, cliVars
    <2> DEFINE a == off.start + off.used
    <2>3. a \in Int /\ reqLen \in Int /\ seqNum = a % W
          /\ off'.start + off'.used = a + reqLen
      <3>1. off.start \in Nat /\ off.used \in Nat /\ reqLen \in Nat
        BY <1>0 DEF TypeOK
      <3>2. seqNum = (off.start + off.used) % W
        BY <1>0 DEF CounterInv
      <3>3. off'.start + off'.used = (off.start + off.used) + reqLen
        BY <2>1, <3>1
      <3> QED
        BY <3>1, <3>2, <3>3
    <2> HIDE DEF a
    <2>4. ((a % W) + reqLen) % W = (a + reqLen) % W
      BY <1>0, <2>3, AddRemainder
    <2>5. seqNum' = (off'.start + off'.used) % W
      BY <2>2, <2>3, <2>4
    <2> QED
      BY <1>0, <2>1, <2>2, <2>5 DEF CounterInv, Answered
  <1>3. CASE ~WriteReply /\ ~Advance
    <2>1. UNCHANGED <<seqNum, off, reply, len>>
      BY <1>3 DEF Next, Server, Client, Accept, ReadRequest, Connect, SendNum, SendNl,
                  ReadReply, Kill, vars, cliVars
    <2> QED
      BY <1>0, <2>1 DEF CounterInv, Answered
  <1> QED
    BY <1>1, <1>2, <1>3

\* Every step moves a client on towards its answer: who leaves the backlog is
\* served, who was served whole is answered unless its length was negative.
LEMMA AnswerStep == IndInv /\ [Next]_vars => AnswerInv'
  <1> SUFFICES ASSUME IndInv, [Next]_vars PROVE AnswerInv'
    OBVIOUS
  <1>0. /\ backlog \in Seq(Clients) /\ closed \subseteq Clients /\ None \notin Int
        /\ pc \in [Clients -> {"connect", "sendNum", "sendNl", "readLine",
                               "done", "failed", "killed"}]
        /\ reply \in [Clients -> Int \cup {None}] /\ ConnInv /\ AnswerInv
        /\ sent \in [Clients -> {"none", "num", "line"}]
        /\ srvPc \in {"accept", "readLine", "write", "close", "exited"}
    BY TcpAssumption DEF IndInv, TypeOK
  <1> USE DEF AnswerInv, Answered, Ended
  <1>1. CASE Accept
    <2>1. srvPc = "accept" /\ srvPc' = "readLine" /\ UNCHANGED <<pc, len, sent, reply, closed>>
          /\ backlog # <<>> /\ cur' = Head(backlog) /\ backlog' = Tail(backlog)
      BY <1>1 DEF Accept, cliVars
    <2>2. \A c \in Clients : Waits(c) => Waits(c)' \/ c = cur'
      <3> SUFFICES ASSUME NEW c \in Clients, NEW i \in 1..Len(backlog), backlog[i] = c,
                          c # cur'
                   PROVE  \E k \in 1..Len(backlog') : backlog'[k] = c
        BY DEF Waits
      <3>1. /\ Len(backlog') = Len(backlog) - 1 /\ Len(backlog) \in Nat
            /\ \A k \in 1..Len(backlog') : backlog'[k] = backlog[k + 1]
            /\ cur' = backlog[1]
        BY <1>0, <2>1
      <3>2. i - 1 \in 1..Len(backlog') /\ (i - 1) + 1 = i
        BY <3>1
      <3>3. backlog'[i - 1] = backlog[i]
        BY <3>1, <3>2
      <3> QED
        BY <3>2, <3>3
    <2> QED
      BY <1>0, <2>1, <2>2
  <1>2. CASE ReadRequest
    <2>1. srvPc = "readLine" /\ UNCHANGED <<pc, len, sent, reply, cur, backlog>>
          /\ (sent[cur] = "line" \/ Ended(cur)) /\ cur \in Clients
      BY <1>0, <1>2 DEF ReadRequest, cliVars, ConnInv, Serving
    <2>2. \A c \in Clients : Waits(c)' <=> Waits(c)
      BY <2>1 DEF Waits
    <2>3. srvPc' = "write" \/ (closed' = closed \cup {cur} /\ (sent[cur] = "none" \/ len[cur] < 0))
      BY <1>2 DEF ReadRequest
    <2>4. closed \subseteq closed' /\ srvPc' \in {"accept", "write"}
      BY <1>2 DEF ReadRequest
    <2>5. ASSUME pc[cur] \in {"sendNum", "sendNl"} PROVE FALSE
      BY <2>1, <2>5, <1>0 DEF Ended
    <2>6. pc[cur] = "readLine" => sent[cur] = "line"
      BY <1>0, <2>1
    <2> QED
      BY <1>0, <2>1, <2>2, <2>3, <2>4, <2>5, <2>6
  <1>3. CASE WriteReply
    <2>1. /\ srvPc = "write" /\ srvPc' = "close" /\ cur \in Clients
          /\ UNCHANGED <<pc, len, sent, cur, backlog, closed>>
          /\ reply' = IF Ended(cur) THEN reply ELSE [reply EXCEPT ![cur] = Printed(seqNum)]
      BY <1>0, <1>3 DEF WriteReply, cliVars, ConnInv, Serving
    <2>2. \A c \in Clients : Waits(c)' <=> Waits(c)
      BY <2>1 DEF Waits
    <2>3. Printed(seqNum) \in Int
      BY PrintedCounter DEF IndInv, TypeOK
    <2>4. \A c \in Clients : Answered(c) => Answered(c)'
      BY <1>0, <2>1, <2>3
    <2>5. pc[cur] = "readLine" => Answered(cur)'
      BY <1>0, <2>1, <2>3 DEF Ended
    <2> QED
      BY <1>0, <2>1, <2>2, <2>4, <2>5
  <1>4. CASE Advance
    <2>1. srvPc = "close" /\ UNCHANGED <<pc, len, sent, reply, cur, backlog>>
          /\ closed \subseteq closed'
      BY <1>4 DEF Advance, cliVars
    <2>2. \A c \in Clients : Waits(c)' <=> Waits(c)
      BY <2>1 DEF Waits
    <2> QED
      BY <1>0, <2>1, <2>2
  <1>5. ASSUME NEW c \in Clients, Connect(c) PROVE AnswerInv'
    <2>1. UNCHANGED <<srvPc, cur, len, sent, reply, closed>> /\ pc[c] = "connect"
      BY <1>5 DEF Connect
    <2>2. \A d \in Clients : d # c => pc'[d] = pc[d]
      BY <1>0, <1>5 DEF Connect, Move
    <2>3. CASE srvPc = "exited"
      <3>1. pc'[c] = "failed"
        BY <1>0, <1>5, <2>3 DEF Connect, Move
      <3> QED
        BY <1>0, <2>1, <2>2, <2>3, <3>1
    <2>4. CASE srvPc # "exited"
      <3>1. pc'[c] = "sendNum" /\ backlog' = Append(backlog, c)
        BY <1>0, <1>5, <2>4 DEF Connect, Move
      <3>2. /\ Len(backlog') = Len(backlog) + 1 /\ Len(backlog) \in Nat
            /\ \A i \in 1..Len(backlog) : backlog'[i] = backlog[i]
            /\ backlog'[Len(backlog) + 1] = c
        BY <1>0, <3>1
      <3>3. \A d \in Clients : Waits(d) => Waits(d)'
        BY <3>2 DEF Waits
      <3>4. Waits(c)'
        BY <3>2 DEF Waits
      <3> QED
        BY <1>0, <2>1, <2>2, <3>1, <3>3, <3>4
    <2> QED
      BY <2>3, <2>4
  <1>6. ASSUME NEW c \in Clients, SendNum(c) \/ SendNl(c) \/ ReadReply(c) \/ Kill(c)
        PROVE  AnswerInv'
    <2>1. UNCHANGED <<srvPc, cur, backlog, len, reply, closed>>
      BY <1>6 DEF SendNum, SendNl, ReadReply, Kill
    <2>2. \A d \in Clients : Waits(d)' <=> Waits(d)
      BY <2>1 DEF Waits
    <2>3. \A d \in Clients : d # c => pc'[d] = pc[d] /\ sent'[d] = sent[d]
      BY <1>0, <1>6 DEF SendNum, SendNl, ReadReply, Kill, Move
    <2>4. /\ ~Ended(c)' => (sent'[c] = "line" <=> pc'[c] = "readLine")
          /\ srvPc # "exited" =>
               /\ pc'[c] \in {"sendNl", "readLine"} => pc[c] \in {"sendNum", "sendNl"}
               /\ pc'[c] # "sendNum"
               /\ pc'[c] = "failed" => pc[c] = "readLine" /\ reply[c] = None /\ c \in closed
      BY <1>0, <1>6 DEF SendNum, SendNl, ReadReply, Kill, Move
    <2>5. srvPc # "exited" /\ pc[c] = "readLine" /\ reply[c] = None /\ c \in closed => len[c] < 0
      BY <1>0 DEF ConnInv, Serving
    <2> QED
      BY <1>0, <2>1, <2>2, <2>3, <2>4, <2>5
  <1>7. CASE UNCHANGED vars
    BY <1>0, <1>7 DEF vars, Waits
  <1> QED
    BY <1>1, <1>2, <1>3, <1>4, <1>5, <1>6, <1>7 DEF Next, Server, Client

\* The invariant of the service holds, for any clients and lengths, whoever
\* is killed and whether the server exits or not.
THEOREM TcpInvariant == Spec => []IndInv
  <1>1. IndInv /\ [Next]_vars => IndInv'
    BY TypeStep, ConnStep, CounterStep, AnswerStep DEF IndInv
  <1> QED
    BY InitInd, <1>1, PTL DEF Spec

\* While the server runs, a client that has connected waits, is served, has its
\* answer or was refused for a negative length, and the two never wait for
\* each other's line (server lines 108-146).
THEOREM TcpForgetsNobody == Spec => []AnswerInv
  <1>1. IndInv => AnswerInv
    BY DEF IndInv
  <1> QED
    BY TcpInvariant, <1>1, PTL

-----------------------------------------------------------------------------
(* The refinement.                                                         *)

\* A step of the service is one of the allocator: the write() of an answer
\* allocates, one to a client that has ended burns its range, and nothing
\* else is seen.
LEMMA StepRefines == IndInv /\ [Next]_vars => [Alloc!AllocNext]_(Alloc!avars)
  <1> SUFFICES ASSUME IndInv, [Next]_vars PROVE [Alloc!AllocNext]_(Alloc!avars)
    OBVIOUS
  <1>0. /\ off \in [start : Nat, used : Nat, at : [Clients -> Nat]]
        /\ reply \in [Clients -> Int \cup {None}] /\ reqLen \in Nat
        /\ None \notin Int
    BY TcpAssumption DEF IndInv, TypeOK
  <1>1. CASE WriteReply
    <2>1. cur \in Clients /\ reply[cur] = None /\ reqLen = len[cur]
      BY <1>1 DEF WriteReply, IndInv, ConnInv, Serving
    <2>2. /\ off'.used = off.used /\ off'.at[cur] = off.used
          /\ \A c \in Clients \ {cur} : off'.at[c] = off.at[c]
          /\ UNCHANGED <<reqLen, len>> /\ srvPc = "write" /\ srvPc' = "close"
      BY <1>0, <1>1, <2>1 DEF WriteReply, cliVars
    <2>3. BarNext = off.used /\ BarNext' = off.used + reqLen
      BY <1>0, <2>2 DEF BarNext
    <2>4. BarNext \in Nat /\ BarNext' \in Nat /\ BarNext' >= BarNext
          /\ BarNext' - BarNext = len[cur]
      BY <1>0, <2>1, <2>3
    <2>5. CASE Ended(cur)
      <3>1. reply' = reply
        BY <1>1, <2>5 DEF WriteReply
      <3>2. BarAlloc' = BarAlloc
        BY <2>1, <2>2, <3>1 DEF BarAlloc
      <3> QED
        BY <2>4, <3>2 DEF Alloc!AllocNext, Alloc!Burn
    <2>6. CASE ~Ended(cur)
      <3>1. /\ reply'[cur] = Printed(seqNum)
            /\ \A c \in Clients \ {cur} : reply'[c] = reply[c]
        BY <1>0, <1>1, <2>1, <2>6 DEF WriteReply
      <3>2. Printed(seqNum) # None
        BY <1>0, PrintedCounter DEF IndInv, TypeOK
      <3>3. BarAlloc[cur] = None
        BY <2>1 DEF BarAlloc
      <3>4. BarAlloc' = [BarAlloc EXCEPT ![cur] =
                           [first |-> BarNext, len |-> BarNext' - BarNext, epoch |-> 0]]
        <4>1. BarAlloc'[cur] = [first |-> BarNext, len |-> BarNext' - BarNext, epoch |-> 0]
          BY <2>1, <2>2, <2>3, <2>4, <3>1, <3>2 DEF BarAlloc
        <4>2. \A c \in Clients \ {cur} : BarAlloc'[c] = BarAlloc[c]
          BY <2>2, <3>1 DEF BarAlloc
        <4>3. BarAlloc = [c \in Clients |-> BarAlloc[c]]
              /\ BarAlloc' = [c \in Clients |-> BarAlloc'[c]]
          BY DEF BarAlloc
        <4> HIDE DEF BarAlloc
        <4> QED
          BY <2>1, <4>1, <4>2, <4>3
      <3>5. Alloc!Allocate(cur)
        BY <2>4, <3>3, <3>4 DEF Alloc!Allocate
      <3> QED
        BY <2>1, <3>5 DEF Alloc!AllocNext
    <2> QED
      BY <2>5, <2>6
  <1>2. CASE Advance
    <2>1. /\ off'.used = off.used + reqLen /\ off'.at = off.at
          /\ UNCHANGED <<reqLen, len, reply>> /\ srvPc = "close" /\ srvPc' # "close"
      BY <1>0, <1>2 DEF Advance, cliVars
    <2>2. BarNext' = BarNext
      BY <1>0, <2>1 DEF BarNext
    <2>3. BarAlloc' = BarAlloc
      BY <2>1 DEF BarAlloc
    <2> QED
      BY <2>2, <2>3 DEF Alloc!avars
  <1>3. CASE ~WriteReply /\ ~Advance
    <2>1. UNCHANGED <<off, reply, len>>
      BY <1>3 DEF Next, Server, Client, Accept, ReadRequest, Connect, SendNum, SendNl,
                  ReadReply, Kill, vars, cliVars
    <2>2. \/ UNCHANGED <<srvPc, reqLen>>
          \/ srvPc # "close" /\ srvPc' # "close"
      BY <1>3 DEF Next, Server, Client, Accept, ReadRequest, Connect, SendNum, SendNl,
                  ReadReply, Kill, vars
    <2>3. BarNext' = BarNext /\ BarAlloc' = BarAlloc
      BY <2>1, <2>2 DEF BarNext, BarAlloc
    <2> QED
      BY <2>3 DEF Alloc!avars
  <1> QED
    BY <1>1, <1>2, <1>3

\* The TCP service implements the abstract allocator, for any clients and
\* lengths: the ranges it answers with follow one another.
THEOREM TcpRefines == Spec => Refines
  <1>1. Init => Alloc!AllocInit
    BY DEF Init, Alloc!AllocInit, BarNext, BarAlloc
  <1> QED
    BY TcpInvariant, StepRefines, <1>1, PTL DEF Spec, Refines, Alloc!AllocSpec

\* Until W numbers have been handed out no value of the wrapping counter,
\* printed signed as it is, is given to two clients: the allocator's theorem
\* taken modulo W.
THEOREM TcpDisjoint == Spec => []DisjointUntilWrap
  <1>1. ASSUME IndInv, Alloc!AllocInv PROVE DisjointUntilWrap
    <2> SUFFICES ASSUME NEW c \in Clients, NEW d \in Clients, BarNext <= W, c # d,
                        Answered(c), Answered(d),
                        NEW i \in 0..len[c] - 1, NEW k \in 0..len[d] - 1,
                        (reply[c] + i) % W = (reply[d] + k) % W
                 PROVE  FALSE
      BY DEF DisjointUntilWrap, Residues
    <2>1. /\ off.start \in Nat /\ off.at[c] \in Nat /\ off.at[d] \in Nat
          /\ W \in Nat \ {0} /\ None \notin [first : Nat, len : Nat, epoch : Nat]
      BY <1>1, TcpAssumption DEF IndInv, TypeOK
    <2>2. /\ reply[c] \in Int /\ len[c] \in Nat /\ reply[d] \in Int /\ len[d] \in Nat
          /\ reply[c] % W = (off.start + off.at[c]) % W
          /\ reply[d] % W = (off.start + off.at[d]) % W
      <3>1. len[c] \in Int /\ len[d] \in Int
        BY <1>1, TcpAssumption DEF IndInv, TypeOK
      <3> QED
        BY <1>1, <3>1 DEF IndInv, CounterInv
    <2> DEFINE g(x) == [first |-> off.at[x], len |-> len[x], epoch |-> 0]
    <2>3. g(c) # None /\ g(d) # None
      <3>1. /\ g(c) \in [first : Nat, len : Nat, epoch : Nat]
            /\ g(d) \in [first : Nat, len : Nat, epoch : Nat]
        BY <2>1, <2>2
      <3> QED
        BY <2>1, <3>1
    <2>4. BarAlloc[c] = g(c) /\ BarAlloc[d] = g(d)
      BY DEF BarAlloc, Answered
    <2>5. /\ BarAlloc[c] # None /\ BarAlloc[d] # None
          /\ BarAlloc[c].epoch = 0 /\ BarAlloc[d].epoch = 0
          /\ BarAlloc[c].first = off.at[c] /\ BarAlloc[c].len = len[c]
          /\ BarAlloc[d].first = off.at[d] /\ BarAlloc[d].len = len[d]
      BY <2>3, <2>4
    <2>6. /\ \/ off.at[c] + len[c] <= off.at[d]
             \/ off.at[d] + len[d] <= off.at[c]
          /\ off.at[c] + len[c] <= BarNext /\ off.at[d] + len[d] <= BarNext
      BY <1>1, <2>5 DEF Alloc!AllocInv, Alloc!NoOverlap, Alloc!BelowNext
    <2>7. BarNext \in Nat
      <3>1. BarNext \in Int
        BY <1>1 DEF Alloc!AllocInv, Alloc!AllocTypeOK
      <3> QED
        BY <2>1, <2>2, <2>6, <3>1
    <2> DEFINE a == off.start + off.at[c]
               b == off.start + off.at[d]
    <2>8. a \in Int /\ b \in Int /\ i \in Int /\ k \in Int
      BY <2>1, <2>2
    <2>9. a + i # b + k /\ (a + i) - (b + k) < W /\ (b + k) - (a + i) < W
      BY <2>1, <2>2, <2>6, <2>7, RangesApart, ZenonT(30)
    <2>10. reply[c] % W = a % W /\ reply[d] % W = b % W
      BY <2>2
    <2> HIDE DEF a, b
    <2>11. /\ ((reply[c] % W) + i) % W = (reply[c] + i) % W
           /\ ((a % W) + i) % W = (a + i) % W
      BY <2>1, <2>2, <2>8, AddRemainder
    <2>12. /\ ((reply[d] % W) + k) % W = (reply[d] + k) % W
           /\ ((b % W) + k) % W = (b + k) % W
      BY <2>1, <2>2, <2>8, AddRemainder
    <2>13. (a + i) % W = (b + k) % W
      BY <2>10, <2>11, <2>12
    <2>14. a + i \in Int /\ b + k \in Int
      BY <2>8
    <2> QED
      BY <2>1, <2>9, <2>13, <2>14, CloseNumbers
  <1>2. Refines => []Alloc!AllocInv
    BY Alloc!AllocSafe, PTL DEF Refines
  <1> QED
    BY TcpInvariant, TcpRefines, <1>1, <1>2, PTL
=============================================================================
