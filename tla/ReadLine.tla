------------------------------ MODULE ReadLine ------------------------------
(***************************************************************************)
(* readLine() of sockets/read_line.c, called again and again on one byte   *)
(* stream: read() returns a byte, end of file, EINTR or another error.     *)
(***************************************************************************)
EXTENDS Integers, Sequences

CONSTANTS Chars,        \* the bytes a peer sends
          NL,           \* '\n'
          n,            \* the size of the caller's buffer
          MaxLen        \* bound: the length of the stream

ASSUME ReadLineAssumption == NL \in Chars /\ n \in Nat \ {0} /\ MaxLen \in Nat

VARIABLES input,        \* what the peer sends before it closes
          pos,          \* how many bytes read() has taken
          start,        \* history: pos at the call
          pc,           \* "idle" (in the caller) or "loop"
          buf,          \* the bytes stored in buffer
          ret           \* the last result

vars == <<input, pos, start, pc, buf, ret>>

totRead == Len(buf)

Init == /\ input \in UNION {[1..k -> Chars] : k \in 0..MaxLen}
        /\ pos = 0 /\ start = 0
        /\ pc = "idle"
        /\ buf = <<>>
        /\ ret = 0

CallNoReset == /\ pc = "idle"
               /\ pc' = "loop"
               /\ start' = pos
               /\ UNCHANGED <<input, pos, buf, ret>>

Call == /\ pc = "idle"
        /\ pc' = "loop"
        /\ start' = pos
        /\ buf' = <<>>
        /\ UNCHANGED <<input, pos, ret>>

ReturnLine(b) == ret' = Len(b) /\ pc' = "idle"

\* The byte is stored while there is room for it and for the final '\0';
\* otherwise it is dropped.
Store(ch) == IF totRead < n - 1 THEN Append(buf, ch) ELSE buf

ReadCharStopFull ==
            /\ pc = "loop" /\ pos < Len(input)
            /\ pos' = pos + 1
            /\ buf' = Store(input[pos + 1])
            /\ IF input[pos + 1] = NL \/ Len(buf') = n - 1
                 THEN ReturnLine(buf') ELSE UNCHANGED <<pc, ret>>
            /\ UNCHANGED <<input, start>>

ReadCharStoredNl ==
            /\ pc = "loop" /\ pos < Len(input)
            /\ pos' = pos + 1
            /\ buf' = Store(input[pos + 1])
            /\ IF input[pos + 1] = NL /\ buf' # buf
                 THEN ReturnLine(buf') ELSE UNCHANGED <<pc, ret>>
            /\ UNCHANGED <<input, start>>

ReadChar == /\ pc = "loop" /\ pos < Len(input)
            /\ pos' = pos + 1
            /\ buf' = Store(input[pos + 1])
            /\ IF input[pos + 1] = NL THEN ReturnLine(buf')
                                      ELSE UNCHANGED <<pc, ret>>
            /\ UNCHANGED <<input, start>>

\* read() = 0: with nothing stored the result is 0, which is totRead too.
ReadEof == /\ pc = "loop" /\ pos = Len(input)
           /\ ReturnLine(buf)
           /\ UNCHANGED <<input, pos, start, buf>>

\* read() = -1: EINTR is retried, any other error is returned and the bytes
\* taken so far are lost to the caller.
ReadEintr == pc = "loop" /\ UNCHANGED vars

ReadError == /\ pc = "loop"
             /\ ret' = -1 /\ pc' = "idle"
             /\ UNCHANGED <<input, pos, start, buf>>

Next == Call \/ ReadChar \/ ReadEof \/ ReadEintr \/ ReadError

Spec == Init /\ [][Next]_vars

-----------------------------------------------------------------------------
TypeOK == /\ input \in Seq(Chars)
          /\ pos \in 0..Len(input)
          /\ start \in 0..pos
          /\ pc \in {"idle", "loop"}
          /\ buf \in Seq(Chars)
          /\ ret \in Int

\* Every byte and the final '\0' are stored inside the n bytes of buffer
\* (read_line.c lines 34-37 and 44).
InBounds == totRead <= n - 1

\* buffer holds the first bytes of what this call took from the stream, and
\* the rest is dropped only when the buffer is full (lines 34-37).
Prefix == /\ totRead <= pos - start
          /\ totRead < pos - start => totRead = n - 1
          /\ \A i \in 1..totRead : buf[i] = input[start + i]

\* No call takes a byte beyond the first newline: the next line is whole
\* (lines 39-40).
WithinLine == \A i \in start + 1 .. pos :
                 input[i] = NL => i = pos /\ pc = "idle"

\* A result that is not an error ends a line or the stream, and 0 means end
\* of file (its callers rely on it) when there is room for a byte.
ResultOK == pc = "idle" /\ ret >= 0 /\ pos > 0 =>
              /\ ret = totRead
              /\ pos = Len(input) \/ input[pos] = NL
              /\ ret = 0 /\ n > 1 => pos = Len(input)

\* What the proofs of the properties above rest on.
LineInv == TypeOK /\ InBounds /\ Prefix /\ WithinLine /\ ResultOK
=============================================================================
