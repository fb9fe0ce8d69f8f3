----------------------------- MODULE PipeFilter -----------------------------
(***************************************************************************)
(* pipes_and_fifo/pipe_ls_wc.c: ls | wc -l.  The parent makes a pipe and   *)
(* two children, which move an end of it to their standard output or input *)
(* and become ls and wc.  The descriptor tables are kept in full, because  *)
(* the program may be started with standard descriptors closed: pipe()     *)
(* then returns them.  ls and wc are what the program expects of them: one *)
(* writes lines to descriptor 1, the other reads descriptor 0 to its end.  *)
(***************************************************************************)
EXTENDS Integers, FiniteSetsExt

CONSTANTS NumLines,     \* what ls has to print
          Capacity,     \* lines the pipe holds
          MayFail       \* the processes that may be killed or whose calls fail

Kids == {"ls", "wc"}
Procs == Kids \cup {"parent"}
Fds == 0..4
Std == {0, 1, 2}

VARIABLES pc,           \* pc[p]: the call process p is in
          fds,          \* fds[p][d]: "none", "tty", or "r", "w": an end of the pipe
          filedes,      \* what pipe() returned
          pipe,         \* lines in the pipe
          wrote, count  \* lines written by ls, counted by wc

vars == <<pc, fds, filedes, pipe, wrote, count>>

Closed == [d \in Fds |-> "none"]

Init == /\ pc = [p \in Procs |-> IF p = "parent" THEN "pipe" ELSE "none"]
        /\ \E open \in SUBSET Std :
             fds = [p \in Procs |-> IF p = "parent"
                      THEN [d \in Fds |-> IF d \in open THEN "tty" ELSE "none"]
                      ELSE Closed]
        /\ filedes = [r |-> 0, w |-> 0]
        /\ pipe = 0 /\ wrote = 0 /\ count = 0

Ended(p) == pc[p] \in {"done", "failed", "killed"}
Holders(end) == {p \in Procs : \E d \in Fds : fds[p][d] = end}

Move(p, to) == pc' = [pc EXCEPT ![p] = to]
Exit(p, how) == Move(p, how) /\ fds' = [fds EXCEPT ![p] = Closed]
Close(p, d) == fds' = [fds EXCEPT ![p][d] = "none"]

\* pipe() takes the two lowest descriptors that are free.
Pipe == /\ pc["parent"] = "pipe"
        /\ LET free == {d \in Fds : fds["parent"][d] = "none"}
               r == Min(free)
               w == Min(free \ {r})
           IN /\ filedes' = [r |-> r, w |-> w]
              /\ fds' = [fds EXCEPT !["parent"][r] = "r", !["parent"][w] = "w"]
        /\ Move("parent", "fork1")
        /\ UNCHANGED <<pipe, wrote, count>>

\* fork() of kid k: it has the descriptors of the parent.
Fork(k, at, next) == /\ pc["parent"] = at
                     /\ pc' = [pc EXCEPT !["parent"] = next, ![k] = "close"]
                     /\ fds' = [fds EXCEPT ![k] = fds["parent"]]
                     /\ UNCHANGED <<filedes, pipe, wrote, count>>

Fork1 == Fork("ls", "fork1", "fork2")
Fork2 == Fork("wc", "fork2", "close1")

-----------------------------------------------------------------------------
(* The children.  Other is the end that k does not use, Mine the one that  *)
(* has to become its standard descriptor Target.                           *)

Other(k) == IF k = "ls" THEN filedes.r ELSE filedes.w
Mine(k) == IF k = "ls" THEN filedes.w ELSE filedes.r
Target(k) == IF k = "ls" THEN 1 ELSE 0

CloseWrEnd(k) == /\ pc[k] = "close"
                 /\ Close(k, filedes.w)
                 /\ Move(k, "dup")
                 /\ UNCHANGED <<filedes, pipe, wrote, count>>

\* close() of the end the child does not use.
CloseOther(k) == /\ pc[k] = "close"
                 /\ Close(k, Other(k))
                 /\ Move(k, "dup")
                 /\ UNCHANGED <<filedes, pipe, wrote, count>>

\* dup2() onto the standard descriptor and close(), unless pipe() had
\* returned just that descriptor.
Dup(k) == /\ pc[k] = "dup"
          /\ IF Mine(k) = Target(k) THEN UNCHANGED fds
             ELSE fds' = [fds EXCEPT ![k][Target(k)] = fds[k][Mine(k)],
                                     ![k][Mine(k)] = "none"]
          /\ Move(k, "exec")
          /\ UNCHANGED <<filedes, pipe, wrote, count>>

Exec(k) == /\ pc[k] = "exec"
           /\ Move(k, "run")
           /\ UNCHANGED <<fds, filedes, pipe, wrote, count>>

\* ls: a line to descriptor 1, SIGPIPE when nobody can read it, or the end.
LsWrite == /\ pc["ls"] = "run" /\ wrote < NumLines
           /\ fds["ls"][1] = "w"
           /\ Holders("r") # {} => pipe < Capacity
           /\ IF Holders("r") = {}
                THEN Exit("ls", "killed") /\ UNCHANGED <<pipe, wrote>>
                ELSE pipe' = pipe + 1 /\ wrote' = wrote + 1 /\ UNCHANGED <<pc, fds>>
           /\ UNCHANGED <<filedes, count>>

LsEnd == /\ pc["ls"] = "run" /\ wrote = NumLines
         /\ Exit("ls", "done")
         /\ UNCHANGED <<filedes, pipe, wrote, count>>

\* wc: a line from descriptor 0, or end of file once no write end is left.
WcRead == /\ pc["wc"] = "run" /\ fds["wc"][0] = "r" /\ pipe > 0
          /\ pipe' = pipe - 1 /\ count' = count + 1
          /\ UNCHANGED <<pc, fds, filedes, wrote>>

WcEnd == /\ pc["wc"] = "run" /\ fds["wc"][0] = "r" /\ pipe = 0
         /\ Holders("w") = {}
         /\ Exit("wc", "done")
         /\ UNCHANGED <<filedes, pipe, wrote, count>>

-----------------------------------------------------------------------------
(* The parent.                                                             *)

CloseEnd(at, d, next) == /\ pc["parent"] = at
                         /\ Close("parent", d)
                         /\ Move("parent", next)
                         /\ UNCHANGED <<filedes, pipe, wrote, count>>

CloseRd == CloseEnd("close1", filedes.r, "close2")
CloseWr == CloseEnd("close2", filedes.w, "wait")

\* The two wait() calls return when both children have ended; exit(0).
WaitBoth == /\ pc["parent"] = "wait"
            /\ \A k \in Kids : Ended(k)
            /\ Exit("parent", "done")
            /\ UNCHANGED <<filedes, pipe, wrote, count>>

\* A call of p fails and p exits with EXIT_FAILURE, or p is killed.
Fails(p) == /\ p \in MayFail
            /\ pc[p] # "none" /\ ~Ended(p)
            /\ Exit(p, "failed")
            /\ UNCHANGED <<filedes, pipe, wrote, count>>

-----------------------------------------------------------------------------
Parent == Pipe \/ Fork1 \/ Fork2 \/ CloseRd \/ CloseWr \/ WaitBoth
Kid(k) == CloseOther(k) \/ Dup(k) \/ Exec(k)
Ls == Kid("ls") \/ LsWrite \/ LsEnd
Wc == Kid("wc") \/ WcRead \/ WcEnd

Next == Parent \/ Ls \/ Wc \/ \E p \in Procs : Fails(p)

Spec == Init /\ [][Next]_vars

-----------------------------------------------------------------------------
TypeOK == /\ pc \in [Procs -> {"none", "pipe", "fork1", "fork2", "close1", "close2",
                               "wait", "close", "dup", "exec", "run",
                               "done", "failed", "killed"}]
          /\ fds \in [Procs -> [Fds -> {"none", "tty", "r", "w"}]]
          /\ filedes \in [r : Fds, w : Fds]
          /\ pipe \in 0..Capacity
          /\ wrote \in 0..NumLines /\ count \in 0..NumLines

\* Whatever standard descriptors the program was started with, ls runs with
\* the write end as its standard output, wc with the read end as its standard
\* input, and neither has another descriptor of the pipe (lines 37-52 and
\* 68-83).
Plumbed == \A k \in Kids : pc[k] = "run" =>
    {d \in Fds : fds[k][d] \in {"r", "w"}} = {Target(k)}
      /\ fds[k][Target(k)] = (IF k = "ls" THEN "w" ELSE "r")

\* wc never takes a pause of ls for its end: when it has printed its count,
\* ls has ended and every line it wrote was counted (lines 31-102).
CountsAll == pc["wc"] = "done" => Ended("ls") /\ count = wrote

\* A parent that exits with success has waited for both (lines 104-113).
WaitedForBoth == pc["parent"] = "done" => \A k \in Kids : Ended(k)

\* Which ends of the pipe p has, and as which descriptors.
HasEnds(p, rs, ws) == \A d \in Fds : /\ fds[p][d] = "r" <=> d \in rs
                                     /\ fds[p][d] = "w" <=> d \in ws

\* The descriptor tables from pipe() to exec().
TableInv ==
    /\ pc["parent"] \in {"fork1", "fork2", "close1", "close2"} \/ (\E k \in Kids : pc[k] # "none")
         => filedes.r # filedes.w
    /\ pc["parent"] \in {"fork1", "fork2", "close1"} =>
         HasEnds("parent", {filedes.r}, {filedes.w})
    /\ pc["parent"] = "close2" => HasEnds("parent", {}, {filedes.w})
    /\ pc["parent"] = "pipe" => \A d \in Fds : /\ fds["parent"][d] \in {"none", "tty"}
                                               /\ d \in {3, 4} => fds["parent"][d] = "none"
    /\ pc["parent"] = "wait" => HasEnds("parent", {}, {})
    /\ \A p \in Procs : pc[p] = "none" \/ Ended(p) => HasEnds(p, {}, {})
    /\ \A k \in Kids :
         /\ pc[k] = "close" => HasEnds(k, {filedes.r}, {filedes.w})
         /\ pc[k] = "dup" => IF k = "ls" THEN HasEnds(k, {}, {filedes.w})
                             ELSE HasEnds(k, {filedes.r}, {})
         /\ pc[k] \in {"exec", "run"} => IF k = "ls" THEN HasEnds(k, {}, {1})
                                         ELSE HasEnds(k, {0}, {})

\* The order of the forks, and what is in the pipe.
OrderInv == /\ pc["parent"] \in {"pipe", "fork1", "fork2", "close1", "close2", "wait",
                                 "done", "failed"}
            /\ \A k \in Kids : pc[k] \notin {"pipe", "fork1", "fork2", "close1", "close2", "wait"}
            /\ pc["parent"] \in {"pipe", "fork1"} => pc["ls"] = "none"
            /\ pc["parent"] = "fork2" => pc["ls"] # "none" /\ pc["wc"] = "none"
            /\ pc["parent"] \in {"close1", "close2", "wait"} => pc["wc"] # "none"
            /\ pc["wc"] # "none" => pc["ls"] # "none"
            /\ count + pipe = wrote

\* What the proofs of Plumbed, CountsAll and NeverStuck rest on.
IndInv == TypeOK /\ TableInv /\ OrderInv /\ CountsAll /\ WaitedForBoth

\* All processes end, whoever fails: nobody keeps a write end that wc waits
\* for, or a read end that ls waits for (lines 37, 48, 68, 79 and 95-102).
Gone(p) == pc[p] = "none" \/ Ended(p)
AllEnded == \A p \in Procs : Gone(p)

\* The calls that block: write() of ls to a full pipe, read() of wc from an
\* empty one that has writers, and the parent's wait().
Blocked(p) ==
    \/ p = "ls" /\ pc[p] = "run" /\ wrote < NumLines /\ Holders("r") # {} /\ pipe = Capacity
    \/ p = "wc" /\ pc[p] = "run" /\ pipe = 0 /\ Holders("w") # {}
    \/ pc[p] = "wait" /\ \E k \in Kids : ~Ended(k)

\* No deadlock: until all have ended one of the three is not blocked, whoever
\* fails and whichever descriptors were closed at the start; an end of the
\* pipe left open in the wrong process (lines 37, 68, 95 and 99) would make
\* one.
NeverStuck == AllEnded \/ \E p \in Procs : ~Gone(p) /\ ~Blocked(p)
=============================================================================
