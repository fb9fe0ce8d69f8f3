----------------------------- MODULE DemoSigio -----------------------------
(***************************************************************************)
(* alternative_io/demo_sigio.c with ttySetCbreak() of terminals/tty_       *)
(* functions.c: signal-driven input from a terminal.  A SIGIO handler sets *)
(* gotSigio; the main loop looks at the flag, clears it and reads until    *)
(* there is nothing left or a '#' was read.  The terminal is the kernel's: *)
(* it raises SIGIO for every input while O_ASYNC is set, tcsetattr() with  *)
(* TCSAFLUSH discards the input not yet read.  One SIGIO at most is        *)
(* pending; it is delivered between two steps of the program.              *)
(***************************************************************************)
EXTENDS Integers, Sequences

CONSTANTS Chars,        \* what is typed; "#" is one of them
          MaxTyped,     \* bound: characters typed
          MayBeKilled   \* may the program be killed?

VARIABLES pc,           \* the call the program is in, or how it ended
          gotSigio,
          done,
          async,        \* are O_ASYNC and O_NONBLOCK set, for this process?
          sigio,        \* is a SIGIO pending?
          handler,      \* is the handler installed?
          cbreak,       \* is the terminal in cbreak mode?
          input,        \* characters typed and not read
          typed,        \* characters typed so far
          shown         \* characters printed

vars == <<pc, gotSigio, done, async, sigio, handler, cbreak, input, typed, shown>>
ttyVars == <<async, handler, cbreak>>

Ended == {"exited", "killed"}

Init == /\ pc = "sigaction"
        /\ gotSigio = FALSE /\ done = FALSE
        /\ async = FALSE /\ sigio = FALSE /\ handler = FALSE /\ cbreak = FALSE
        /\ input = <<>> /\ typed = 0 /\ shown = <<>>

Install == /\ pc = "sigaction"
           /\ handler' = TRUE
           /\ pc' = "setfl"
           /\ UNCHANGED <<gotSigio, done, async, sigio, cbreak, input, typed, shown>>

\* F_SETOWN and F_SETFL.
SetFlags == /\ pc = "setfl"
            /\ async' = TRUE
            /\ pc' = "cbreak"
            /\ UNCHANGED <<gotSigio, done, sigio, handler, cbreak, input, typed, shown>>

\* ttySetCbreak(): what was typed before is discarded, a signal for it is not.
SetCbreak == /\ pc = "cbreak"
             /\ cbreak' = TRUE /\ input' = <<>>
             /\ pc' = "test"
             /\ UNCHANGED <<gotSigio, done, async, sigio, handler, typed, shown>>

Test == /\ pc = "test"
        /\ pc' = IF done THEN "restore" ELSE IF gotSigio THEN "clear" ELSE "test"
        /\ UNCHANGED <<gotSigio, done, sigio, ttyVars, input, typed, shown>>

Clear == /\ pc = "clear"
         /\ gotSigio' = FALSE
         /\ pc' = "read"
         /\ UNCHANGED <<done, sigio, ttyVars, input, typed, shown>>

ReadOnce == /\ pc = "read"
            /\ pc' = "test"
            /\ IF input = <<>> THEN UNCHANGED <<done, input, shown>>
               ELSE /\ input' = Tail(input)
                    /\ shown' = Append(shown, Head(input))
                    /\ done' = (Head(input) = "#")
            /\ UNCHANGED <<gotSigio, sigio, ttyVars, typed>>

\* read() > 0 && !done: after a '#' one character more is read and dropped.
Read == /\ pc = "read"
        /\ IF input = <<>>
           THEN pc' = "test" /\ UNCHANGED <<done, input, shown>>
           ELSE /\ input' = Tail(input)
                /\ pc' = IF done THEN "test" ELSE "read"
                /\ shown' = IF done THEN shown ELSE Append(shown, Head(input))
                /\ done' = (done \/ Head(input) = "#")
        /\ UNCHANGED <<gotSigio, sigio, ttyVars, typed>>

\* tcsetattr(TCSAFLUSH, &origTermios), exit(EXIT_SUCCESS).  O_NONBLOCK and
\* O_ASYNC stay set on the terminal's open file.
Restore == /\ pc = "restore"
           /\ cbreak' = FALSE /\ input' = <<>>
           /\ pc' = "exited"
           /\ UNCHANGED <<gotSigio, done, async, sigio, handler, typed, shown>>

\* sigioHandler().
Handle == /\ sigio /\ handler /\ pc \notin Ended
          /\ sigio' = FALSE /\ gotSigio' = TRUE
          /\ UNCHANGED <<pc, done, ttyVars, input, typed, shown>>

\* Outside cbreak mode a signal comes with the end of a line only.
Type == /\ typed < MaxTyped /\ pc \notin Ended
        /\ \E c \in Chars : input' = Append(input, c)
        /\ typed' = typed + 1
        /\ sigio' \in {sigio \/ async} \cup (IF cbreak THEN {} ELSE {sigio})
        /\ UNCHANGED <<pc, gotSigio, done, ttyVars, shown>>

\* The terminal is left as it is.
Killed == /\ MayBeKilled /\ pc \notin Ended
          /\ pc' = "killed"
          /\ UNCHANGED <<gotSigio, done, sigio, ttyVars, input, typed, shown>>

Main == Install \/ SetFlags \/ SetCbreak \/ Test \/ Clear \/ Read \/ Restore

Next == Main \/ Handle \/ Type \/ Killed

Spec == Init /\ [][Next]_vars

-----------------------------------------------------------------------------
TypeOK == /\ pc \in {"sigaction", "setfl", "cbreak", "test", "clear", "read",
                     "restore"} \cup Ended
          /\ gotSigio \in BOOLEAN /\ done \in BOOLEAN /\ async \in BOOLEAN
          /\ sigio \in BOOLEAN /\ handler \in BOOLEAN /\ cbreak \in BOOLEAN
          /\ input \in Seq(Chars) /\ shown \in Seq(Chars)
          /\ typed \in 0..MaxTyped

\* "it reads all the available input characters" (line 5): in the main loop
\* there is no unread input without a signal or a flag that leads to it, in
\* whatever order characters, signals and lines 67-74 come.
NoStrandedInput == pc \in {"test", "clear"} /\ input # <<>> =>
    sigio \/ gotSigio \/ done

\* "If a hash character is inputted, the program terminates" (line 6): the
\* first '#' shown is the last character shown, and the program ends with the
\* terminal as it found it.
HashEnds == /\ \A i \in 1..Len(shown) : shown[i] = "#" => i = Len(shown) /\ done
            /\ pc = "exited" => ~cbreak /\ done /\ shown # <<>>

\* In the loop the terminal and the signal are set up; the loop ends with a '#'.
ModeInv == /\ pc \notin Ended \cup {"sigaction"} => handler
           /\ pc \notin Ended \cup {"sigaction", "setfl"} => async
           /\ pc \in {"test", "clear", "read", "restore"} => cbreak
           /\ pc \in {"restore", "exited"} => done
           /\ done => shown # <<>>

\* What the proofs of NoStrandedInput and HashEnds rest on.
IndInv == TypeOK /\ ModeInv /\ NoStrandedInput /\ HashEnds

\* What is typed in cbreak mode is read, or the program ends (lines 66-84).
Waiting == pc = "test" /\ input # <<>>
Attended == pc \in Ended \/ input = <<>>
=============================================================================
