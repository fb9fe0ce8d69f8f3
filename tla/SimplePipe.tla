----------------------------- MODULE SimplePipe -----------------------------
(***************************************************************************)
(* pipes_and_fifo/simple_pipe.c: a parent writes its argument to a pipe    *)
(* and a child copies the pipe to standard output in blocks.  The case of  *)
(* a failed fork() has no break: the parent then runs the branch of the    *)
(* child.  The pipe is the kernel's; bytes are counted in units.           *)
(***************************************************************************)
EXTENDS Integers

CONSTANTS StrLen,       \* strlen(argv[1]), in units
          BufSize,      \* BUF_SIZE
          Capacity,     \* what the pipe holds
          ForkMayFail,
          MayFail,      \* the calls that may fail: "echo", write() to standard output
          MayDie        \* the processes that may be killed

Procs == {"parent", "child"}

VARIABLES pc,           \* pc[p]: the call process p is in
          rd, wr,       \* who holds the read end, the write end
          left,         \* units the parent has still to write
          pipe,         \* units in the pipe
          buf,          \* units in the reader's buffer
          out,          \* units on standard output
          lost          \* units of a partial or failed write() to standard output

vars == <<pc, rd, wr, left, pipe, buf, out, lost>>

Init == /\ pc = [parent |-> "fork", child |-> "none"]
        /\ rd = {"parent"} /\ wr = {"parent"}
        /\ left = StrLen
        /\ pipe = 0 /\ buf = 0 /\ out = 0 /\ lost = 0

Least(a, b) == IF a < b THEN a ELSE b
Move(p, to) == pc' = [pc EXCEPT ![p] = to]

Fork == /\ pc["parent"] = "fork"
        /\ pc' = [parent |-> "closeRd", child |-> "closeWr"]
        /\ rd' = Procs /\ wr' = Procs
        /\ UNCHANGED <<left, pipe, buf, out, lost>>

\* fork() = -1 falls through to "case 0".
ForkFails == /\ ForkMayFail
             /\ pc["parent"] = "fork"
             /\ Move("parent", "closeWr")
             /\ UNCHANGED <<rd, wr, left, pipe, buf, out, lost>>

-----------------------------------------------------------------------------
(* The branch of the child, run by process p.                              *)

CloseWr(p) == /\ pc[p] = "closeWr"
              /\ wr' = wr \ {p}
              /\ Move(p, "read")
              /\ UNCHANGED <<rd, left, pipe, buf, out, lost>>

\* read() of a block.  A read() that fails changes nothing: the error is
\* reported, and the write() of -1 bytes and the next round follow.
Read(p) == /\ pc[p] = "read" /\ pipe > 0
           /\ buf' = Least(BufSize, pipe)
           /\ pipe' = pipe - buf'
           /\ Move(p, "echo")
           /\ UNCHANGED <<rd, wr, left, out, lost>>

\* write() of the block: what it does not take is reported (lines 54-55) and
\* given up, and the loop goes on.
Echo(p) == /\ pc[p] = "echo"
           /\ \E k \in 0..buf :
                /\ k = buf \/ "echo" \in MayFail
                /\ out' = out + k /\ lost' = lost + (buf - k)
           /\ buf' = 0
           /\ Move(p, "read")
           /\ UNCHANGED <<rd, wr, left, pipe>>

ReadEofEarly(p) == /\ pc[p] = "read" /\ pipe = 0
                   /\ rd' = rd \ {p}
                   /\ Move(p, "done")
                   /\ UNCHANGED <<wr, left, pipe, buf, out, lost>>

\* read() = 0, the newline, close(pfd[0]) and exit(EXIT_SUCCESS).
ReadEof(p) == /\ pc[p] = "read" /\ pipe = 0 /\ wr = {}
              /\ rd' = rd \ {p}
              /\ Move(p, "done")
              /\ UNCHANGED <<wr, left, pipe, buf, out, lost>>

-----------------------------------------------------------------------------
(* The branch of the parent.                                               *)

CloseRd == /\ pc["parent"] = "closeRd"
           /\ rd' = rd \ {"parent"}
           /\ Move("parent", "write")
           /\ UNCHANGED <<wr, left, pipe, buf, out, lost>>

\* write() fills the pipe as it empties and returns when all is written.
Write == /\ pc["parent"] = "write" /\ rd # {}
         /\ left > 0 /\ pipe < Capacity
         /\ \E k \in 1..Least(left, Capacity - pipe) :
              left' = left - k /\ pipe' = pipe + k
         /\ UNCHANGED <<pc, rd, wr, buf, out, lost>>

\* Without a reader SIGPIPE kills the parent.
Sigpipe == /\ pc["parent"] = "write" /\ rd = {} /\ left > 0
           /\ Move("parent", "killed")
           /\ wr' = wr \ {"parent"}
           /\ UNCHANGED <<rd, left, pipe, buf, out, lost>>

\* The write is complete; close(pfd[1]) lets the child see end of file.
CloseLast == /\ pc["parent"] = "write" /\ left = 0
             /\ wr' = wr \ {"parent"}
             /\ Move("parent", "wait")
             /\ UNCHANGED <<rd, left, pipe, buf, out, lost>>

Wait == /\ pc["parent"] = "wait" /\ pc["child"] \in {"done", "killed"}
        /\ Move("parent", "done")
        /\ UNCHANGED <<rd, wr, left, pipe, buf, out, lost>>

Kill(p) == /\ p \in MayDie /\ pc[p] \notin {"none", "done", "killed"}
           /\ Move(p, "killed")
           /\ rd' = rd \ {p} /\ wr' = wr \ {p}
           /\ UNCHANGED <<left, pipe, buf, out, lost>>

Parent == Fork \/ CloseRd \/ Write \/ Sigpipe \/ CloseLast \/ Wait
Reader(p) == CloseWr(p) \/ Read(p) \/ Echo(p) \/ ReadEof(p)

Next == Parent \/ ForkFails \/ \E p \in Procs : Reader(p) \/ Kill(p)

Spec == Init /\ [][Next]_vars

-----------------------------------------------------------------------------
TypeOK == /\ pc \in [Procs -> {"none", "fork", "closeRd", "write", "wait",
                               "closeWr", "read", "echo", "done", "killed"}]
          /\ rd \subseteq Procs /\ wr \subseteq Procs
          /\ left \in 0..StrLen
          /\ pipe \in 0..Capacity
          /\ buf \in 0..BufSize
          /\ out \in 0..StrLen
          /\ lost \in 0..StrLen

\* A child that ends normally has printed every byte the parent wrote except
\* those of a write() to standard output whose failure it reported, even if the
\* parent was killed in the middle of its write (lines 48-57 and 70): it never
\* takes an empty pipe for the end.  The exit status tells nothing of a loss.
AllEchoed == pc["child"] = "done" =>
    /\ out = StrLen - left - lost
    /\ pc["parent"] \notin {"closeRd", "write"}

\* No unit is made or lost unseen: each is with the parent, in the pipe, in the
\* buffer, printed, or in a write() that was reported.  One process reads, and
\* nothing is in its buffer but between read() and write().
Flow == /\ left + pipe + buf + out + lost = StrLen
        /\ "echo" \notin MayFail => lost = 0
        /\ pc["child"] \in {"closeWr", "read", "done"} => buf = 0
        /\ pc["child"] = "none" /\ pc["parent"] \notin {"echo", "killed"} => buf = 0

\* Who holds the write end, and which branches of the code run together.
WriteEnds ==
    /\ "parent" \in wr <=> pc["parent"] \in {"fork", "closeRd", "write", "closeWr"}
    /\ "child" \in wr <=> pc["child"] = "closeWr"
    /\ pc["parent"] # "none"
    /\ pc["child"] \in {"none", "closeWr", "read", "echo", "done", "killed"}
    /\ pc["parent"] \in {"closeRd", "write", "wait"} => pc["child"] # "none"
    /\ pc["parent"] \in {"fork", "closeWr", "read", "echo"} => pc["child"] = "none"
    /\ pc["child"] = "done" => pipe = 0 /\ "parent" \notin wr

ReadEnds ==
    /\ "parent" \in rd <=> pc["parent"] \in {"fork", "closeRd", "closeWr", "read", "echo"}
    /\ "child" \in rd <=> pc["child"] \in {"closeWr", "read", "echo"}

\* What the proofs of AllEchoed and NeverStuck rest on.
IndInv == TypeOK /\ Flow /\ WriteEnds /\ ReadEnds

\* Parent and child end: neither waits for the other for ever, however small
\* the pipe is and whoever is killed (lines 46, 67, 73 and 76).
Gone(p) == pc[p] \in {"none", "done", "killed"}
AllEnded == \A p \in Procs : Gone(p)

\* The calls that block: write() to a full pipe, wait(), read() from an empty
\* pipe that has writers.
Blocked(p) == \/ pc[p] = "write" /\ left > 0 /\ rd # {} /\ pipe = Capacity
              \/ pc[p] = "wait" /\ ~Gone("child")
              \/ pc[p] = "read" /\ pipe = 0 /\ wr # {}

\* No deadlock: until both have ended one of them is not blocked, although a
\* process that kept an end it does not use (lines 46 and 67) would wait for
\* itself, and a pipe may be full or a process killed at any moment.
NeverStuck == AllEnded \/ \E p \in Procs : ~Gone(p) /\ ~Blocked(p)
=============================================================================
