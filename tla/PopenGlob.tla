----------------------------- MODULE PopenGlob -----------------------------
(***************************************************************************)
(* pipes_and_fifo/popen_glob.c: patterns are read line by line with a      *)
(* small buffer, checked character by character and given to a command     *)
(* whose output is copied.  A character is valid (a letter, a digit or one *)
(* of _*?[^-].), "bad" or the newline.  A line that does not fit in the    *)
(* buffer comes in pieces.                                                 *)
(***************************************************************************)
EXTENDS Integers, SequencesExt

CONSTANTS PAT_SIZE,     \* the buffer
          Valid,        \* the valid characters
          MaxInput,     \* bound: characters typed
          PopenMayFail

Chars == Valid \cup {"bad", "nl"}

VARIABLES pc,           \* "fgets", "check", "popen" or "exited"
          input,        \* what was not read yet; then end of file
          pat,          \* the buffer up to the final null
          len,          \* strlen() before the newline was stripped
          history,      \* all that was typed
          ran           \* the patterns that commands were made of

vars == <<pc, input, pat, len, history, ran>>

Init == /\ pc = "fgets"
        /\ input \in SeqOf(Chars, MaxInput) /\ history = input
        /\ pat = <<>> /\ len = 0 /\ ran = <<>>

Newlines(s) == {i \in 1..Len(s) : s[i] = "nl"}

\* How much fgets() takes: a line, the buffer less one, or what is left.
Taken == LET room == {PAT_SIZE - 1, Len(input)} \cup Newlines(input)
         IN CHOOSE n \in room : \A m \in room : n <= m

\* A piece of one character is taken for an empty line; the newline is
\* stripped from any other.
Fgets == /\ pc = "fgets" /\ input # <<>>
         /\ len' = Taken
         /\ pat' = LET line == SubSeq(input, 1, Taken)
                   IN IF Taken > 1 /\ line[Taken] = "nl" THEN Front(line) ELSE line
         /\ input' = SubSeq(input, Taken + 1, Len(input))
         /\ pc' = IF Taken <= 1 THEN "fgets" ELSE "check"
         /\ UNCHANGED <<history, ran>>

Eof == /\ pc = "fgets" /\ input = <<>>
       /\ pc' = "exited"
       /\ UNCHANGED <<input, pat, len, history, ran>>

CheckFirst == /\ pc = "check"
              /\ pc' = IF pat[1] = "bad" THEN "fgets" ELSE "popen"
              /\ UNCHANGED <<input, pat, len, history, ran>>

\* The loop runs to len: the null that replaced a newline passes strchr().
Check == /\ pc = "check"
         /\ pc' = IF \E i \in 1..len : i <= Len(pat) /\ pat[i] \notin Valid
                  THEN "fgets" ELSE "popen"
         /\ UNCHANGED <<input, pat, len, history, ran>>

\* popen(), the copy of its output, pclose() and the report of the status.
Run == /\ pc = "popen"
       /\ ran' = Append(ran, pat)
       /\ pc' = "fgets"
       /\ UNCHANGED <<input, pat, len, history>>

PopenFails == /\ PopenMayFail /\ pc = "popen"
              /\ pc' = "fgets"
              /\ UNCHANGED <<input, pat, len, history, ran>>

Next == Fgets \/ Eof \/ Check \/ Run \/ PopenFails

Spec == Init /\ [][Next]_vars

-----------------------------------------------------------------------------
TypeOK == /\ pc \in {"fgets", "check", "popen", "exited"}
          /\ input \in Seq(Chars) /\ pat \in Seq(Chars)
          /\ Len(pat) < PAT_SIZE /\ len \in 0..PAT_SIZE - 1

\* A line typed is what is between two neighbouring newlines, the start and the
\* end of the input among them.
IsLine(b, e) == b < e /\ \A k \in Newlines(history) : k <= b \/ k >= e
Lines == {SubSeq(history, be[1] + 1, be[2] - 1) :
            be \in {be \in ({0} \cup Newlines(history)) \X (Newlines(history) \cup {Len(history) + 1}) :
                      IsLine(be[1], be[2])}}

\* s is a line, or part of one that does not fit in the buffer.
FromLine(s) == \/ s \in Lines
               \/ \E line \in Lines : Len(line) >= PAT_SIZE - 1 /\ s \in SubSeqs(line)

\* "ensure that the pattern contains only valid characters" (line 37): no
\* command holds another character, not even from a line that came in pieces,
\* and a pattern that fits in the buffer is used as it was typed (lines 28-50).
RunsWhatWasTyped == \A i \in 1..Len(ran) :
    /\ ran[i] # <<>> /\ \A k \in 1..Len(ran[i]) : ran[i][k] \in Valid
    /\ FromLine(ran[i])

\* The reading stands at the start of a line, at least a buffer away from it or
\* at the end; and what is in the buffer came from a line.
Pos == Len(history) - Len(input)
PieceInv ==
    /\ history \in Seq(Chars) /\ Pos \in Nat /\ input = SubSeq(history, Pos + 1, Len(history))
    /\ \E b \in {0} \cup Newlines(history) :
          /\ IsLine(b, Pos + 1)
          /\ Pos = b \/ Pos >= b + PAT_SIZE - 1 \/ input = <<>>
    /\ pc \in {"check", "popen"} => pat # <<>> /\ Len(pat) <= len /\ FromLine(pat)
    /\ pc = "popen" => \A k \in 1..Len(pat) : pat[k] \in Valid

IndInv == TypeOK /\ PieceInv /\ ran \in Seq(Seq(Chars)) /\ RunsWhatWasTyped
=============================================================================
