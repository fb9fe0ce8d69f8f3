---------------------------- MODULE ThreadCancel ----------------------------
(***************************************************************************)
(* threads/thread_cancel.c: main() starts a thread that prints and sleeps  *)
(* for ever, cancels it after a while and joins it.  Cancelling is         *)
(* deferred, the default: it takes effect at the thread's next             *)
(* cancellation point, printf() or sleep().                                *)
(***************************************************************************)
CONSTANTS MayFail       \* may pthread_create() fail?

VARIABLES main,         \* "create", "cancel", "join", "exited" or "failed"
          thread,       \* "none", "loop" (between two calls), "call" or "ended"
          asked,        \* has pthread_cancel() been called?
          res           \* what pthread_join() returned, or "none"

vars == <<main, thread, asked, res>>

Init == main = "create" /\ thread = "none" /\ asked = FALSE /\ res = "none"

Create == /\ main = "create"
          /\ main' = "cancel" /\ thread' = "loop"
          /\ UNCHANGED <<asked, res>>

CreateFails == /\ MayFail /\ main = "create"
               /\ main' = "failed"
               /\ UNCHANGED <<thread, asked, res>>

\* sleep(3) says nothing about how far the thread has got.
Cancel == /\ main = "cancel"
          /\ asked' = TRUE /\ main' = "join"
          /\ UNCHANGED <<thread, res>>

Join == /\ main = "join" /\ thread = "ended"
        /\ res' = "PTHREAD_CANCELED" /\ main' = "exited"
        /\ UNCHANGED <<thread, asked>>

\* The body of the loop: a call, which a cancellation ends, and a return.
Call == /\ thread = "loop" /\ main # "exited"
        /\ thread' = IF asked THEN "ended" ELSE "call"
        /\ UNCHANGED <<main, asked, res>>

Return == /\ thread = "call" /\ main # "exited"
          /\ thread' = IF asked THEN "ended" ELSE "loop"
          /\ UNCHANGED <<main, asked, res>>

Main == Create \/ Cancel \/ Join
Thread == Call \/ Return
Next == Main \/ CreateFails \/ Thread

Spec == Init /\ [][Next]_vars

-----------------------------------------------------------------------------
TypeOK == /\ main \in {"create", "cancel", "join", "exited", "failed"}
          /\ thread \in {"none", "loop", "call", "ended"}
          /\ asked \in BOOLEAN /\ res \in {"none", "PTHREAD_CANCELED"}

\* main() does not end before the thread it joins has (lines 40-51).
Joined == main = "exited" => thread = "ended" /\ res = "PTHREAD_CANCELED"

\* The thread never returns by itself, yet main() ends: sleep() and printf()
\* are cancellation points (lines 11-14).
AllEnded == main \in {"exited", "failed"}
=============================================================================
