---------------------------- MODULE SharedMemory ----------------------------
(***************************************************************************)
(* The tools of posix_shared_memory: pshm_create, pshm_write, pshm_read    *)
(* and pshm_unlink processes work on one name without synchronization.     *)
(* An object lives on while a process has it open, also when its name is   *)
(* gone or names a new object.  Objects are the kernel's.  A unit of       *)
(* memory holds 0 or the name of the writer that stored it; access beyond  *)
(* the end of the object hits the rest of its last page, or no page.       *)
(***************************************************************************)
EXTENDS Integers, Sequences

CONSTANTS Creators, Writers, Readers, Unlinkers,
          Sizes,        \* the size argument of pshm_create
          MsgLen,       \* MsgLen[w]: the length of the string of writer w
          Mortal,       \* the processes that may be killed or whose calls may fail
          MaxObjs,      \* bound: objects made under the name
          Zero          \* the contents of new memory

Procs == Creators \cup Writers \cup Readers \cup Unlinkers
Changers == Creators \cup Writers

VARIABLES name,         \* the object the name denotes, or 0
          mem,          \* mem[o]: the contents of object o
          pc,           \* pc[p]: where process p is
          obj,          \* obj[p]: the object p has opened
          len,          \* len[p]: the length p maps
          pos,          \* pos[p]: units copied by p
          out,          \* out[r]: what reader r printed
          last,         \* history: last[o]: the last process to resize o
          src,          \* history: src[r]: last[obj[r]] when r took the size
          mixed         \* history: processes that shared an object with a
                        \* process changing it

vars == <<name, mem, pc, obj, len, pos, out, last, src, mixed>>

Init == /\ name = 0 /\ mem = <<>>
        /\ pc = [p \in Procs |-> "open"]
        /\ obj = [p \in Procs |-> 0]
        /\ len = [p \in Procs |-> 0]
        /\ pos = [p \in Procs |-> 0]
        /\ out = [r \in Readers |-> <<>>]
        /\ last = <<>> /\ src = [r \in Readers |-> Zero]
        /\ mixed = {}

Ended == {"done", "failed", "sigbus", "killed"}
Move(p, to) == pc' = [pc EXCEPT ![p] = to]

\* The processes at work on object o.
Users(o) == {p \in Procs : obj[p] = o /\ pc[p] \notin Ended \cup {"open"}}

\* p has opened object o: whoever meets a changer there is not alone.
Opened(p, o) ==
    /\ obj' = [obj EXCEPT ![p] = o]
    /\ Move(p, "opened")
    /\ mixed' = mixed \cup
         {q \in Users(o) \cup {p} : \E r \in (Users(o) \cup {p}) \ {q} :
                                       q \in Changers \/ r \in Changers}

\* ftruncate(): memory beyond the old end is zero.
Resize(p, k) ==
    /\ mem' = [mem EXCEPT ![obj[p]] =
                  [i \in 1..k |-> IF i <= Len(@) THEN @[i] ELSE Zero]]
    /\ last' = [last EXCEPT ![obj[p]] = p]

-----------------------------------------------------------------------------
(* pshm_create [-c] [-x] name size                                         *)

CreateOpen(p) == \E c, x \in BOOLEAN :
    /\ pc[p] = "open"
    /\ \/ /\ name # 0 /\ ~(c /\ x)
          /\ Opened(p, name)
          /\ UNCHANGED <<name, mem, last>>
       \/ /\ name = 0 /\ c /\ Len(mem) < MaxObjs
          /\ name' = Len(mem) + 1
          /\ mem' = Append(mem, <<>>)
          /\ last' = Append(last, p)
          /\ Opened(p, name')
       \/ /\ IF name = 0 THEN ~c ELSE c /\ x
          /\ Move(p, "failed")
          /\ UNCHANGED <<name, mem, obj, last, mixed>>
    /\ UNCHANGED <<len, pos, out, src>>

\* ftruncate() to the given size and mmap(), which refuses a size of zero.
CreateResize(p) == \E k \in Sizes :
    /\ pc[p] = "opened"
    /\ Resize(p, k)
    /\ Move(p, IF k = 0 THEN "failed" ELSE "done")
    /\ UNCHANGED <<name, obj, len, pos, out, src, mixed>>

-----------------------------------------------------------------------------
(* pshm_write name string                                                  *)

\* shm_open() without O_CREAT, by pshm_write and pshm_read.
OpenExisting(p) ==
    /\ pc[p] = "open"
    /\ IF name = 0 THEN Move(p, "failed") /\ UNCHANGED <<obj, mixed>>
                   ELSE Opened(p, name)
    /\ UNCHANGED <<name, mem, len, pos, out, last, src>>

WriteGrowOnly(w) ==
    /\ pc[w] = "opened"
    /\ Resize(w, IF MsgLen[w] > Len(mem[obj[w]]) THEN MsgLen[w] ELSE Len(mem[obj[w]]))
    /\ len' = [len EXCEPT ![w] = MsgLen[w]]
    /\ Move(w, IF MsgLen[w] = 0 THEN "failed" ELSE "copy")
    /\ UNCHANGED <<name, obj, pos, out, src, mixed>>

\* ftruncate() to the length of the string and mmap().
WriteResize(w) ==
    /\ pc[w] = "opened"
    /\ Resize(w, MsgLen[w])
    /\ len' = [len EXCEPT ![w] = MsgLen[w]]
    /\ Move(w, IF MsgLen[w] = 0 THEN "failed" ELSE "copy")
    /\ UNCHANGED <<name, obj, pos, out, src, mixed>>

\* One unit of memcpy().  Where the object has been cut shorter, the unit is
\* lost in the rest of the last page or SIGBUS ends the writer.
WriteCopy(w) ==
    /\ pc[w] = "copy" /\ pos[w] < len[w]
    /\ pos' = [pos EXCEPT ![w] = @ + 1]
    /\ LET next == IF pos'[w] = len[w] THEN "done" ELSE "copy"
       IN  IF pos'[w] <= Len(mem[obj[w]])
             THEN mem' = [mem EXCEPT ![obj[w]][pos'[w]] = w] /\ Move(w, next)
             ELSE (Move(w, next) \/ Move(w, "sigbus")) /\ UNCHANGED mem
    /\ UNCHANGED <<name, obj, len, out, last, src, mixed>>

-----------------------------------------------------------------------------
(* pshm_read name, pshm_unlink name                                        *)

\* fstat() and mmap() of the size it returned.
ReadStat(r) ==
    /\ pc[r] = "opened"
    /\ len' = [len EXCEPT ![r] = Len(mem[obj[r]])]
    /\ src' = [src EXCEPT ![r] = last[obj[r]]]
    /\ Move(r, IF len'[r] = 0 THEN "failed" ELSE "print")
    /\ UNCHANGED <<name, mem, obj, pos, out, last, mixed>>

\* One unit of write().  Where the object has been cut shorter it copies the
\* rest of the last page, or stops short, which is not checked.
ReadPrint(r) ==
    /\ pc[r] = "print" /\ pos[r] < len[r]
    /\ LET i == pos[r] + 1
           Copy(u) == /\ pos' = [pos EXCEPT ![r] = i]
                      /\ out' = [out EXCEPT ![r] = Append(@, u)]
                      /\ Move(r, IF i = len[r] THEN "done" ELSE "print")
       IN  IF i <= Len(mem[obj[r]]) THEN Copy(mem[obj[r]][i])
           ELSE Copy(Zero) \/ (Move(r, "done") /\ UNCHANGED <<pos, out>>)
    /\ UNCHANGED <<name, mem, obj, len, last, src, mixed>>

Unlink(u) == /\ pc[u] = "open"
             /\ Move(u, IF name = 0 THEN "failed" ELSE "done")
             /\ name' = 0
             /\ UNCHANGED <<mem, obj, len, pos, out, last, src, mixed>>

\* p is killed, or another call of p fails and it exits.
Kill(p) == /\ p \in Mortal /\ pc[p] \notin Ended
           /\ Move(p, "killed")
           /\ UNCHANGED <<name, mem, obj, len, pos, out, last, src, mixed>>

Next == \/ \E p \in Creators : CreateOpen(p) \/ CreateResize(p)
        \/ \E w \in Writers : OpenExisting(w) \/ WriteResize(w) \/ WriteCopy(w)
        \/ \E r \in Readers : OpenExisting(r) \/ ReadStat(r) \/ ReadPrint(r)
        \/ \E u \in Unlinkers : Unlink(u)
        \/ \E p \in Procs : Kill(p)

Spec == Init /\ [][Next]_vars

-----------------------------------------------------------------------------
Unit == Writers \cup {Zero}

TypeOK == /\ name \in 0..Len(mem)
          /\ mem \in Seq(Seq(Unit)) /\ last \in Seq(Changers)
          /\ Len(mem) = Len(last)
          /\ pc \in [Procs -> {"open", "opened", "copy", "print"} \cup Ended]
          /\ obj \in [Procs -> 0..Len(mem)]
          /\ len \in [Procs -> Nat] /\ pos \in [Procs -> Nat]
          /\ \A p \in Procs : pos[p] \in 0..len[p]
          /\ out \in [Readers -> Seq(Unit)]
          /\ src \in [Readers -> Changers \cup {Zero}]
          /\ mixed \subseteq Procs

Message(w) == [i \in 1..MsgLen[w] |-> w]

\* A writer that was never on the object together with another process
\* leaves exactly its string there, until another process resizes it: no
\* rest of a longer string, of a writer that died or of an object the name
\* denoted before (pshm_write.c lines 20-51).
WholeMessage == \A w \in Writers :
    pc[w] = "done" /\ w \notin mixed /\ last[obj[w]] = w
        => mem[obj[w]] = Message(w)

\* A reader that ran alone prints the whole string of the writer before it,
\* if that one ran alone too (pshm_read.c lines 20-39), also when the name
\* is unlinked or denotes a new object in the meantime.
ReadsWhole == \A r \in Readers : \A w \in Writers :
    /\ pc[r] = "done" /\ r \notin mixed
    /\ src[r] = w /\ pc[w] = "done" /\ w \notin mixed
    => out[r] = Message(w)

\* No process that is alone on the object runs beyond its end: SIGBUS in
\* memcpy() or a short write() needs a concurrent resize.
FaultsOnlyMixed == \A p \in Procs :
    pc[p] = "sigbus" \/ (pc[p] = "done" /\ pos[p] < len[p]) => p \in mixed

Active(p) == pc[p] \notin Ended \cup {"open"}

\* Whoever is on an object together with a changer is not alone; an object
\* was made before it is opened.
SharingInv ==
    /\ \A p \in Procs \ Unlinkers : Active(p) \/ pc[p] = "done" => obj[p] > 0
    /\ \A u \in Unlinkers : ~Active(u)
    /\ \A p \in Changers, q \in Procs :
         p # q /\ Active(p) /\ Active(q) /\ obj[p] = obj[q] => {p, q} \subseteq mixed

\* The last process to resize an object: a writer that did is past its resize,
\* and one that is copying was overtaken only if neither is alone.
LastInv ==
    /\ \A o \in 1..Len(mem) : last[o] \in Writers =>
         obj[last[o]] = o /\ pc[last[o]] \notin {"open", "opened"}
    /\ \A w \in Writers : pc[w] = "copy" =>
         last[obj[w]] = w \/ (w \in mixed /\ last[obj[w]] \in mixed)

\* What a writer or reader that is alone has copied so far.
CopyInv ==
    /\ \A w \in Writers : pc[w] = "copy" =>
         /\ len[w] = MsgLen[w] /\ pos[w] < len[w]
         /\ w \notin mixed => /\ Len(mem[obj[w]]) = MsgLen[w]
                              /\ \A i \in 1..pos[w] : mem[obj[w]][i] = w
    /\ \A r \in Readers : pc[r] = "print" =>
         /\ pos[r] < len[r]
         /\ r \notin mixed => /\ src[r] = last[obj[r]]
                              /\ len[r] = Len(mem[obj[r]])
                              /\ out[r] = SubSeq(mem[obj[r]], 1, pos[r])

\* What a reader prints stays what the writer before it had written.
PrintInv ==
    /\ \A r \in Readers : pc[r] \in {"open", "opened"} => pos[r] = 0 /\ out[r] = <<>>
    /\ \A w \in Writers : /\ pc[w] # "print"
                          /\ pc[w] \in {"open", "opened"} => pos[w] = 0
    /\ \A p \in Procs \ (Writers \cup Readers) : pos[p] = 0 /\ len[p] = 0
    /\ \A r \in Readers, w \in Writers :
         pc[r] = "done" /\ r \notin mixed /\ src[r] = w => pc[w] \in Ended

\* What the proofs of the three properties rest on.
IndInv == /\ TypeOK /\ SharingInv /\ LastInv /\ CopyInv /\ PrintInv
          /\ WholeMessage /\ ReadsWhole /\ FaultsOnlyMixed
=============================================================================
