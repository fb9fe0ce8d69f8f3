# TLA+ models of tlpi_system_prog

The repository is a collection of Linux programs in C: exercises in the system
calls for pipes, FIFOs, sockets, signals, POSIX IPC, epoll and processes. There
is no single system; there are about thirty small ones, each a program or a
server with its clients, whose correctness lies in the *order of system calls
of several processes*. The models therefore take one step per system call (or
per group of calls nothing can come between), and treat the kernel objects -
pipes, FIFOs, queues, sockets, signals, semaphores - as external, by what the
programs rely on.

`PROJECT.json` holds the machine-readable side: components, runs, the map from
definitions to source lines, findings, hazards and theorems.

## 1. Inventory

| Component | State it keeps | Operations | Interaction | What is hard | What makes it correct |
|---|---|---|---|---|---|
| FIFO sequence-number service (`pipes_and_fifo/fifo_seqnum_*`) | the counter `seqNum`; the well-known FIFO; one FIFO per client | server: mkfifo, blocking opens, read, open/write/close of the client's FIFO; client: mkfifo, open, write, open, read, removal by an exit handler | messages through FIFOs; opens that block until the other side opens | opens that wait for each other, clients killed between two calls, a server that restarts while requests are queued, a write that fails after the number was chosen, lengths that are not checked | no number is given twice while the counter only goes up; every client is answered while nothing fails; the server never spins on end of file |
| TCP sequence-number service (`sockets/net_stream_sock_seqnum_*`) | an unsigned 32-bit counter | accept, readLine, write, close; connect, two writes, readLine | stream sockets, a backlog, an iterative server | half a request, a client gone before the reply, wrap-around, `%d` of an unsigned | values are disjoint until the counter has gone round; refused requests do not move it; nobody starves |
| `readLine` (`sockets/read_line.c`) | position in the stream and in the buffer | one read() per byte | called by both sides of the service above | truncation, EOF in mid-line, EINTR and errors | stays in the buffer, one line per call, 0 means end of file |
| Message-queue notification (`posix_message_queues/mq_notify_*`) | the registration, the threads draining | mq_notify, sigsuspend or thread start, mq_receive until EAGAIN | the kernel queue, other senders and receivers | the one-shot notification and a queue that fills while it is drained | no lost wake-up, never EBUSY |
| Message-queue tools (`pmsg_*`) | a named queue with attributes and a mode | mq_open with flags, mq_send, mq_receive, mq_getattr, mq_unlink | the name and the queue; they are also the environment of the two programs above | full and empty queues, priorities, unlink and re-creation, octal permissions, a message received and not written | every message is received once, from the queue it was sent to |
| epoll loop (`alternative_io/epoll_input.c`) | open descriptors, their count, a snapshot of events | epoll_wait, read, close | FIFOs with concurrent writers | the snapshot is stale while it is worked through | nothing is closed before it is read, reads do not block, the loop ends |
| Pipe barrier (`pipe_sync.c`) | who holds the ends of a pipe | fork, close, read to EOF | descriptors inherited by fork | a descriptor too many, children that die, a fork that fails | a parent past the barrier has waited for all |
| Simple pipe, filter pipe (`simple_pipe.c`, `pipe_ls_wc.c`) | descriptor tables, bytes in the pipe | pipe, fork, dup2, close, read, write, wait | pipe | a full pipe, SIGPIPE, a write end kept open, standard descriptors closed at the start | everything written is read, all processes end |
| Stream transfer (`stream_sock_xfr_*`) | one connection at a time | accept, read, write | backlog | clients killed, failing calls | each connection is copied whole and in one piece |
| Datagram services (`datagram_unix_sock_ucase_*`, `i6d_ucase_*`, `iterative_udp_echo_*`) | none on the server | recvfrom, sendto | datagrams that get lost, duplicated, reordered, truncated | matching answers to requests without numbers | line *i* answers argument *i* |
| Address loops (`inet_sockets.c`) | sockets and the address list | socket, setsockopt, bind/connect, listen | called by the UDP echo server and client; the TCP programs have loops of their own | error paths | no descriptor is leaked or closed twice |
| Signal counting (`sig_receiver.c`, `sig_sender.c`) | counts, the mask, pending signals | signal, sigprocmask, the handler, kill | asynchronous handlers | coalescing, real-time signals that queue, signals that keep no handler, SIGINT before the signals it should end | no kind of signal that has a handler is lost; SIGINT ends the program |
| Real-time signals (`catch_rtsigs.c`, `t_sigqueue.c`) | `allDone`, the mask, queued signals | sigaction, sigprocmask, pause, sigqueue | asynchronous handlers | the window before pause(), order of delivery, a full queue | every queued value is handled once, in order, before the end |
| Signal-driven input (`demo_sigio.c`, `tty_functions.c`) | `gotSigio`, `done`, the terminal mode | sigaction, fcntl, tcsetattr, the handler, non-blocking read | SIGIO from the terminal | a signal between the test of the flag, its clearing and the last read() | no character is left behind, `#` ends the program with the terminal restored |
| inotify (`inotify_demo.c`) | a buffer of records of different lengths | inotify_add_watch, read, the walk | the kernel's event queue | events during the walk, a full buffer, an overflow of the queue | every queued event is displayed once |
| Signal synchronization (`fork_sig_sync.c`) | the mask, the handler, a pending signal | sigprocmask, fork, kill, sigsuspend | a signal from child to parent | the signal before the sleep, a stranger's signal, a killed child | the parent goes on after the child's work, and does go on |
| Waiting for children (`multi_wait.c`, `child_status.c`) | children running, dead and reaped | fork, wait, waitpid | exit statuses | order of ends, inherited children, SIGCHLD ignored, stops | all children are reaped and counted once; the parent sees the end |
| State shared across fork (`anony_mmap.c`, `fork_file_sharing.c`) | an integer, or the offset and flags of an open file | mmap or mkstemp, fork, changes by the child, wait, print | shared memory, a shared open file | a child killed between two changes, a fork that fails | what the parent prints is final |
| Threads (`thread_cancel.c`) | a thread and its cancellation | create, cancel, join | pthread_cancel | a thread that never returns | main ends after the thread |
| `becomeDaemon` (`daemons/`) | sessions, the controlling terminal, descriptors of three processes | two forks, setsid, umask, chdir, close, open, dup2 | parent and child run on together; called by two programs | the hang-up of the caller's terminal, calls that fail half-way, limits | a daemon has no terminal, cannot get one, and keeps no descriptor |
| `popen_glob.c` | a pattern buffer | fgets, the check, popen | a shell | lines longer than the buffer | no command has an unchecked character |
| Shared memory tools (`pshm_*`) | a named object | shm_open, ftruncate, mmap, memcpy, write, shm_unlink | memory without synchronization | resizing under another process, unlinking | who is alone writes and reads whole strings |
| Semaphore tools (`psem_*`) | a named semaphore | sem_open, sem_post, sem_wait, sem_unlink | the name and the semaphore | unlink and re-creation, overflow | posts are conserved |

The hazards of each component, at their lines and with the properties that
guard against them, are listed in `PROJECT.json`.

## 2. Modules

```
SeqAllocator  <--refines--  FifoSeqnum  <--  FifoSeqnumProofs, MCFifoSeqnum
              <--refines--  TcpSeqnum   <--  TcpSeqnumProofs, MCTcpSeqnum

ReadLine, StreamXfr, DatagramService, InetSockets
              <--  MCSockets    <--  SocketsProofs
EpollInput, DemoSigio, Inotify
              <--  MCAltIo      <--  AltIoProofs
PipeSync, SimplePipe, PipeFilter, ForkSync, MultiWait,
ForkShare, ThreadCancel, Daemon, PopenGlob
              <--  MCProcesses  <--  ProcessesProofs
SigCount, CatchRtsigs
              <--  MCSignals    <--  SignalsProofs
MessageQueue  <--  MqNotifyThread, MqNotifySignal
MqNotifyThread, MqNotifySignal, SharedMemory, PosixSem, QueueTools
              <--  MCPosixIpc   <--  PosixIpcProofs
QueueTools    <--  MCQueuePerms
ChildStatus
```

| Module | Code | State and actions against the code |
|---|---|---|
| `SeqAllocator` | what `fifo_seqnum_server.c` promises | `next` is the counter, `alloc[c]` the range a client holds. `Burn` is a range whose owner died before it was told, `Restart` a step that sets the counter back and begins a new epoch: a new server, or a length that the server should have refused. |
| `FifoSeqnum` | `fifo_seqnum_server.c`, `fifo_seqnum_client.c`, `fifo_seqnum.h` | One action per system call. `srvPc` and `pc[c]` name the call a process is in. `fifo[c]` and `srvFifo` are the names in the file system; `srvPipe` and `chan[c]` the contents. An open() that needs the other side is a joint action (`MeetAtServerFifo`, `MeetAtClientFifo`). `EndClient` is exit (which runs `removeFifo`) or death by a signal (which does not). The counter is an `int`: `ServerClose` adds any length and wraps (`Wrap`); `gen` is history and counts the steps that set it back (`SetsBack`, and a crash). |
| `ReadLine` | `read_line.c` | `Call`, `ReadChar`, `ReadEof`, `ReadEintr`, `ReadError` are the branches of the loop; `Store` the test for room. `start` is a history variable. |
| `TcpSeqnum` | `net_stream_sock_seqnum_*` | `Advance` adds modulo `W` (2^32 in the code), `Printed` is the `%d` of the unsigned counter. `off` is history: what the counter would be without wrapping, and how many numbers were handed out before each client's. `BarNext` and `BarAlloc` map it to `SeqAllocator`. |
| `MessageQueue` | the kernel queue, `pmsg_send.c`, `pmsg_receive.c` | The one-shot notification (`NotifyOnArrival`), blocked senders and receivers. |
| `MqNotifyThread` | `mq_notify_thread.c` | Threads are interchangeable and counted: `notif` of them have not registered yet, `draining` are in the receive loop. |
| `MqNotifySignal` | `mq_notify_signal.c` | SIGUSR1 is blocked except in `Sigsuspend`; other processes may send it too (`StraySignal`). |
| `EpollInput` | `epoll_input.c` | `evlist` is the snapshot; writers open, write and close between any two steps. |
| `PipeSync` | `pipe_sync.c` | `wr` and `rd` are the processes that hold the ends. `ForkFails` and `ParentAsChild` follow the missing `break`. |
| `SimplePipe` | `simple_pipe.c` | Units in the pipe, in the buffer, on standard output, and those a reported write() did not take (`lost`); the same missing `break`. |
| `PipeFilter` | `pipe_ls_wc.c` | Complete descriptor tables, started with every subset of the standard descriptors. |
| `StreamXfr` | `stream_sock_xfr_*` | `sent`, `rcvd`, `out` count or list units by client. |
| `DatagramService` | the three datagram services | One module, because the loops are the same; `kind` selects the transport and what a failed send does. `RecvError` and `ClientRecvError` are recvfrom() = -1, which ends a server or a client. |
| `InetSockets` | `inet_sockets.c` | One call after the other of the address loops, each failing or not; `open`, `held`, `leaked` are sets of descriptors. |
| `SigCount` | `sig_receiver.c`, `sig_sender.c` | `pending[k]` counts: at most one for a standard signal, any number for a real-time one. `Deliver` is one run of the handler, `DeliverDefault` the default action of a signal without one: SIGKILL and SIGSTOP, and every signal before its signal() call. `kernel` says that the receiver is on its way back from the kernel, which runs all deliverable handlers first; `stopped` lasts until SIGCONT or SIGKILL is sent. `Discards` and `Dropped` are what a kill() takes away or does not queue. |
| `CatchRtsigs` | `catch_rtsigs.c`, `t_sigqueue.c` | Pending signals are sequences of values; the test of `allDone` and `pause()` are separate steps. SIGKILL and SIGSTOP come through the mask and have their default action, SIGQUIT has no handler; `stopped`, `Discards` and `Dropped` as in `SigCount`. |
| `SharedMemory` | `pshm_*` | memcpy and write move one unit per step; `mixed` is history: who was on an object together with a process changing it. |
| `PosixSem` | `psem_*` | A name leads to a semaphore; `first` is history: the initial value. |
| `QueueTools` | `pmsg_*` | A name leads to a queue with its attributes, mode and messages in order of priority. A blocked mq_send() or mq_receive() is completed by the step of the other side, as the kernel does. A receiver that has its message then writes it (`Write`), and ends in "lost" if that fails. `ModeOf` is atoi() of the digits. |
| `DemoSigio` | `demo_sigio.c`, `ttySetCbreak()` | `Test`, `Clear` and each read() are separate steps; `Handle` (the handler) and `Type` come between any two. tcsetattr() with TCSAFLUSH drops unread input. |
| `Inotify` | `inotify_demo.c` | A record is a header unit and the units of its name; `p` walks over units, so a wrong step would land in a name. |
| `ForkSync` | `fork_sig_sync.c` | `Signal` is the kernel's choice between waking sigsuspend(), pending, the handler and death; getppid() and kill() of the child are separate steps. |
| `MultiWait` | `multi_wait.c` | Children the process inherited and a disposition of SIGCHLD it inherited are part of `Init`. |
| `ForkShare` | `anony_mmap.c`, `fork_file_sharing.c` | `shared` are the values both processes see; `ForkFails` follows the missing `break` of `anony_mmap.c`. |
| `ThreadCancel` | `thread_cancel.c` | Cancellation takes effect at the next call of the thread. |
| `ChildStatus` | `child_status.c` | `Waitpid` is lines 48-58, the `exit` of line 58 included. |
| `Daemon` | `become_daemon.c`, its callers | Three processes; `Fork` is both forks; `Leaves` is the kernel's hang-up when a session leader with a terminal ends. `prog` is the caller: `test_become_daemon` ignores the result, the echo server does not. |
| `PopenGlob` | `popen_glob.c` | Characters are valid, bad or a newline; `Taken` is how much fgets() takes. |

The `MC...` modules of a family (`MCProcesses`, `MCAltIo`, `MCSockets`,
`MCSignals`, `MCPosixIpc`) put programs that share no state side by side: the
initial state chooses one of them, its actions are those of its module, and the
variables of the others keep one value. The states are the sum of the programs'
states, not their product, and every property says which program it is about.
One program of a family is extended and has its own variables (`ReadLine`,
`EpollInput`, `PipeSync`, `MqNotifyThread`); the others are instances on the
variables `x1`, `x2`, ... (`MCSignals` has variables with the programs' names).
The `...Proofs` module of a family extends the family, so that the property
that is checked is, word for word, the one that is proved. The parameters of
the programs are constants of the family with named assumptions; only the
configurations fix their values.

Operators placed before an action with a telling suffix (`...NoReset`,
`...Forgotten`, `...Early`) are wrong variants of it, one for each property;
no specification uses them. Replacing the action by its variant makes the
property fail, which shows that the property depends on that line of the code.

## 3. Runs

| Run | Configuration | What it asks |
|---|---|---|
| `fifo` | `FifoSeqnum.cfg` | Three clients, two of them mortal, lengths -1 and 2, an int of three bits (so that three lengths reach beyond it), one server crash. `IndInv`, `DisjointGrants`, refinement of `SeqAllocator` (`Refines`), and `Served`: while nothing has failed, a client that found the server's FIFO is answered. |
| `fifo_abandon` | `FifoSeqnum_abandon.cfg` | *Violated*: see finding 1. |
| `tcp` | `TcpSeqnum.cfg` | Three clients, a three-bit counter started at 0 and two short of its wrap, lengths -1, 1 and 3, two mortal clients, a close() that may fail: `DisjointUntilWrap`, `EveryoneAnswered`, the inductive invariant, and the refinement of `SeqAllocator` (`Refines`). |
| `alt_io` | `MCAltIo.cfg` | `epoll_input`: three files, two events per call, two units per file read one at a time, writers that may come back once (`SnapshotValid`, `AllConsumed`). `demo_sigio`: four characters, killed at any time (`SigioReads`). `inotify_demo`: two files, one of them a directory, five events, a queue of three, a buffer of six units (`EventsShown`). `InputAttended`: input is read. |
| `processes` | `MCProcesses.cfg` | `pipe_sync` with four children, two of which may die (`IndInv`, `Barrier`); `simple_pipe` with nine units through a pipe of three and a buffer of two, each write() to standard output taking all or less (`AllEchoed`, which includes that the two never both block); `pipe_ls_wc` with four lines and every set of standard descriptors (`CountsAll`, with the same); `fork_sig_sync` with two stray signals (`AfterWork`); `multi_wait` with four children and an inherited one, `anony_mmap`, `fork_file_sharing`, `thread_cancel` (`Collected`); `becomeDaemon` from three callers, with flags, two sets of open descriptors and two limits (`Detached`); `popen_glob` on every input of up to five characters with a buffer of four (`RunsWhatWasTyped`). In all of them calls may fail and processes may be killed; `AllEnd`. |
| `pipe_sync_fork` | `PipeSync_fork.cfg` | *Violated*: see finding 2. |
| `child_status` | `ChildStatus.cfg` | *Violated*: see finding 3. |
| `queue_perms` | `MCQueuePerms.cfg` | *Violated*: see finding 4. |
| `sockets` | `MCSockets.cfg` | `readLine` on every stream of up to six bytes over a newline and another byte, with a buffer of three and errors at every byte (`LineInv`, `WithinLine`, `ResultOK`). Three stream clients with three units each; two datagram clients with two arguments, one loss, one duplicate, one failing sendto() or recvfrom() of the server, on each transport; three calls of the address loops with lists of up to two: `CopiedWhole`, `ResponseMatches`, `OnlyListenLeaks`, `EveryoneServed`. |
| `signals` | `MCSignals.cfg` | Two senders of up to two signals each, of SIGINT, SIGQUIT, SIGKILL, SIGCONT, SIGSTOP and a real-time signal, a queue of three: `KindCounted`, `QueuedHandled`, `PausesOnlyByRace`, `InterruptEnds`. |
| `posix_ipc` | `MCPosixIpc.cfg` | `mq_notify_thread` with four senders and two receivers, one each non-blocking, on a queue of two (`IndInv`); `mq_notify_signal` on the same queue with a stray signal (`SleepsOnEmpty`); both: `AllDrained`. The queue tools: creators, two senders of different priorities and lengths, receivers, a getter and an unlinker on two successive queues (`Delivered`). Two creators, two writers, a reader and an unlinker on two successive objects (`WholeMessages`). Two creators, posters and waiters, a getter and an unlinker on two successive semaphores with SEM_VALUE_MAX = 1 (`Conserved`). |

`CHECK_DEADLOCK FALSE` is set where the processes end, or where a server whose
clients are all done waits for ever.

The invariants that the proofs use are checked too: wherever section 5 names an
inductive invariant, it is a conjunct of the property of the run (`Conserved`
of `MCPosixIpc`, for instance, is `Sem!IndInv /\ Sem!Conserved`), or an
invariant of the run itself.

**Why the bounds are enough.** The properties relate one or two processes, an
object and a process that fails; the instances have at least that many and one
more (three clients: one being served, one waiting, one dying). Buffers and
queues are smaller than what goes through them, so that full, empty and cut
cases happen (a string of nine in a pipe of three, a line of six in a buffer of
three, arguments of three in datagrams of two, four messages in a queue of
two). The counters of `fifo` and `tcp` wrap in their runs. Lives of FIFOs, semaphores and
objects are at least two, which is when a stale name can matter. For every
safety property of a passing run the bounds do not matter: section 5 proves it
for all values of the constants. Only the liveness properties depend on them.

**Fairness.** The only fairness is weak fairness of a process: the kernel
schedules every process that can go on. Faults (kill, failing calls, loss,
duplication, stray signals) are never fair, so nothing depends on them
happening. Two assumptions are about the environment: in `EpollInput` no writer
keeps its file open for ever, since the program is meant to run until they
close; in `TcpSeqnum` and `StreamXfr` a connected client goes on, or dies. An
iterative server that waits for a client that neither sends nor ends does stop
for all others: fairness of the clients says just this.
In `signals` only the receivers are fair, with the delivery of signals to them;
the senders need not go on (so a sender without a second signal is one that
never takes that step). In `DemoSigio` the delivery of a pending signal is fair by itself. The child of
`multi_wait` ends (its sleep() does), and in `ThreadCancel` the thread goes on
calling printf() and sleep(), which is where it can be cancelled.

## 4. Findings

1. `fifo_seqnum_server.c` line 6 says the server abandons a request when it has
   trouble opening the client's FIFO. The open of line 58 blocks, so a client
   killed after its request and before its own open leaves a FIFO nobody reads,
   and the server stays in open() for ever (`AbandonsClient`). If the FIFO is
   *gone* the request is dropped as the comment says.
2. `pipe_sync.c` line 36: `case -1` of fork() has no break. The parent closes
   its read end, runs the child's branch and exits with EXIT_SUCCESS while
   children it did fork are still at work (`ExitsSynchronized`). `Barrier`
   still holds, because that parent never says it is ready.

3. `child_status.c` lines 56-58 are an `if` without braces: `exit` follows
   every return of waitpid(), the report of lines 60-66 is never reached, and a
   child that was only stopped is left behind (`DetectsEnd`).
4. `pmsg_create.c` line 62 converts the argument its usage message calls
   `octal-perms` with atoi(), in decimal: 600 gives the mode 01130, with which
   the owner may neither read nor write (`PermsAsWritten`). `psem_create.c` and
   `pshm_create.c` do the same.

Deviations that the properties state as exceptions rather than as findings of
their own, because no document says otherwise:

- `fifo_seqnum_client.c` line 51 sends what atoi() returns and line 71 of the
  server adds it: after a negative length, or beyond INT_MAX (where the addition
  is undefined in C and wraps in practice), numbers are granted again
  (`DisjointGrants` says: only then, and after a restart).
- `simple_pipe.c` lines 54-55 report a write() that failed or was partial, and
  go on; the child still exits with success (`AllEchoed` excepts what was
  reported).
- `pmsg_receive.c` lines 58-61: a message that was received and cannot be
  written is gone (`LostOnlyByWrite` says: only then).
- All three datagram servers exit when recvfrom() fails, whatever the reason
  (`ServerSurvives`).
- `sig_receiver.c` counts no SIGSTOP, and may count no SIGCONT or stop signal
  when the two meet (`KindCounted` excepts kinds the kernel took one of).
- `simple_pipe.c` has the same missing break as `pipe_sync.c`; the parent then reads a pipe it
  alone holds and ends at once, without printing anything.
- `anony_mmap.c` too: after a failed fork the parent increments the value
  itself and exits with success (a part of `Collected`); after a failed mmap() it dies of `*addr = 1`.
- `fork_sig_sync`: a SYNC_SIG from anybody ends the wait before the child's
  work is done, and a child that is killed leaves the parent asleep for ever.
- `become_daemon.c`: a caller that leads its session may hang up its child
  before setsid(); descriptors at or above the limit stay open;
  `test_become_daemon.c` goes on when becomeDaemon() fails.
- `popen_glob.c`: a line longer than the buffer is used in pieces, and a piece
  of one character (the rest of a long line, or a last line without newline) is
  taken for an empty line.
- `demo_sigio` drops the character after a `#`, and leaves O_ASYNC and
  O_NONBLOCK set on the terminal.
- The TCP counter is an unsigned that is printed with `%d`; values of the upper
  half print negative, and after 2^32 numbers values repeat
  (`DisjointUntilWrap` says until when they do not).
- `mq_notify_signal` exits with EBUSY when any other process sends it SIGUSR1;
  both notification programs never learn of messages that were queued before
  their first registration (`startEmpty`).
- `epoll_input.c` line 91 holds for a FIFO that was opened for writing once; a
  writer that comes back between epoll_wait() and close() loses its input.
- `stream_sock_xfr_client.c` tests `numRead == 1` for an error of read(): a
  read error ends the client with status 0 (`SentWhole`, a part of `CopiedWhole`,
  says that only then a client reports success without having sent all).
- Datagrams longer than BUF_SIZE are cut without notice.
- `inet_sockets.c` leaves the socket open when listen() fails (`leaked`).
- `catch_rtsigs.c` sleeps for ever on SIGINT between the test of `allDone` and
  pause() (`PausesOnlyByRace` says: only there).

## 5. Proofs

Checked by TLAPS for every value of the constants that satisfies the named
assumptions.

**`SeqAllocator`, `FifoSeqnumProofs`.** Assumption `FifoAssumption`: lengths
are ints of any width, mortal clients are clients, `None` is not a message.
`DisjointGrants` is not inductive, and proving it directly would mix the
arithmetic of ranges with the positions of processes. It is proved in two
halves:

- *Abstract.* `AllocInv` says that the ranges of an epoch do not overlap
  (`NoOverlap`) and that the counter is beyond all ranges of the present epoch
  (`BelowNext`, the strengthening without which a new range could overlap).
  `AllocSafe` is its invariance.
- *Concrete.* `IndInv` has no arithmetic: `TypeOK`; `FdInv` (a server past its
  start-up holds the dummy write end); `ChanInv` (a response waits only for a
  client in read(), and is printed once); `FlightInv` (a client with a request
  in the FIFO or being looked up is in its open() or gone, has no second
  request and has not been answered). `IndInvariant` is its invariance.
- *Refinement.* `BarNext` moves the abstract counter at the write of a
  response, not at the addition two calls later; `BarAlloc` reads a range off
  the delivered or waiting response. From `IndInv` every step is an abstract
  step or a stutter (`RefinesAllocator`): a successful write is `Allocate`, a
  write to a dead client `Burn`, a client that ends with a response in its FIFO
  `Forget`, a crash `Restart`. A negative length is granted as an empty range,
  and the addition that sets the counter back (`SetsBack`) is a `Restart` too:
  the epoch of the allocator is `gen`, not the life of the server.
- *Together.* `GrantsDisjoint` carries `NoOverlap` back through the mapping: two
  clients whose numbers have the same `gen` share none.
  `ServerNeverEOF` and `AtMostOneRequest` follow from `IndInv`.
- *Nobody is forgotten.* `HeldInv`, also a part of `IndInv`: until the server
  dies, a client in its open() has its request in the FIFO or in the server's
  hands, its own FIFO exists, so the server does not drop the request, and a
  client in read() has its response or gets it with the server's next call
  (`NobodyForgotten`). `FlightInv` says that a request has its client; `HeldInv`
  is the converse.

**`TcpSeqnumProofs`.** `TcpAssumption`: the counter is taken modulo a positive
`W`; lengths and start values are integers. The argument has the same halves as
that of the FIFO service, with arithmetic between them:

- `IndInv` is `TypeOK`, `ConnInv` (every connection is accepted once, answered
  at most once and closed once) and `CounterInv`: the counter is
  `off.start + off.used` modulo `W`, and so is every reply with the number of
  values handed out before it.
- Every step is a step of `SeqAllocator` on the counter that does not wrap
  (`TcpRefines`), so the ranges there do not overlap.
- `RangesApart`: numbers less than `W` apart have different remainders, and
  `PrintedCounter`: the signed text determines the remainder. So no
  value is in two ranges while at most `W` numbers were given out
  (`TcpDisjoint`).
- `AnswerInv`, also a part of `IndInv`: while the server runs, a connected
  client is in the backlog, being served, answered, or refused for a negative
  length, and one that waits for the answer has sent its whole line, so the two
  never wait for each other (`TcpForgetsNobody`).

The other proof modules are about families. A step of the family is a step of
the program the behaviour is about, or changes none of its variables
(`FamilyStep`, `SystemStep`, `SignalsStep`); so it is enough that each program
keeps its inductive invariant (`...Step` lemmas, one step per action).

Liveness is out of the prover's reach, but most of what can go wrong with it
here is a state: a process that waits for what nobody will do. Where a liveness
property rests on such a state being unreachable, that is proved as an
invariant. The blocking conditions of the calls are written out in the models
(`Blocked` of `SimplePipe` and `PipeFilter`), so no ENABLED is needed. What TLC
adds is that nothing goes round for ever.

**`SocketsProofs`** (`ReadLineAssumption`: the buffer has at least one byte;
`FamilyAssumption`: sizes and counts are natural numbers).

- `readLine`: `LineInv` is inductive; `ReadLineInBounds`, `ReadLineWithinLine`
  and `ReadLineResult` are its consequences, for streams and buffers of any
  length.
- `InetOnlyListenLeaks`: `OwnersInv` says that the open sockets are exactly
  those of the callers, the leaked ones, and the one being tried. That socket()
  returns a number nobody has needs that the open ones are finitely many
  (`FreeDescriptor`).
- `DgramResponseMatches`: `FlightInv` ties every datagram on its way to the
  argument it was sent for; without duplicates there is at most one per client
  (`OnceInv`), which makes "line *i* answers argument *i*" true although the
  datagrams have no numbers. `UnixInv` is why the UNIX-domain server does not
  meet a vanished client unless one was killed or its recvfrom() failed
  (`ServerSurvives`), and why its
  clients do not wait in vain: while it runs, the datagram of a client in
  recvfrom() is on its way there or back. That the
  server cuts a datagram that was cut before changes nothing (`CutOnce`).
- `XfrCopiedWhole`: `PlaceInv` says that a client is not connected, waits once,
  is served, or is finished with; `PrintInv` that what was read of a client is
  what was printed plus what is in the buffer. `Printed` counts places of the
  output, so appending needs a lemma on cardinalities (`PrintedMore`).
  `NotMixed` - the output of a client is in one piece - is inductive only with
  the last conjunct of `PrintInv`: from the first unit of the client being
  served on, the output is this client's.

**`AltIoProofs`** (`EpollAssumption`, `FamilyAssumption`; `WatcherAssumption`:
numbers of files, lengths and limits are natural numbers).

- `epoll_input`: `IndInv` adds to `SnapshotValid` and `AllConsumed` only how
  far the opening of the files is (`Opening`). The heart is `HangUpIsFinal`: a
  hang-up without input stays one while the file has had one writer, because a
  new writer would be its second (`LivesStep`), only a writer adds data, and
  only the event of the file itself takes data (`DataStep`). Hence nothing is
  left when the descriptor is closed (`EpollConsumes`), and since events name
  different open descriptors, `numOpenFds` is their number (`EpollSnapshot`).
- `demo_sigio` (`SigioReadsAll`): unread input in the test of the flag means
  that the flag is set or the signal is pending (`NoStrandedInput`); it is kept
  because the flag is cleared *before* the reads. `ModeInv` gives the handler,
  the flags and the terminal mode from the set-up on.
- `inotify_demo` (`WatcherShowsAll`): what the kernel queued is what was shown,
  what the walk has before it (`Unshown`) and the queue, in this order; and
  from where the walk stands the records before it end exactly at the end of
  the buffer. Where records end is a recursive function (`Ends`). That it is
  defined, is the only one of its kind and grows is shown with the least number
  at which it would not (`SomeEnds`, `OneEnds`, `EndsGrow`). A step of the walk
  then drops the first record, and its ends are those of the rest, seen from
  the new position (`WalkEnds`).

**`ProcessesProofs`** (`PipeSyncAssumption`; `FamilyAssumption`: sizes are
natural numbers, a pipe holds something, inherited children are finitely many
and not the parent's own).

- `pipe_sync` (`SyncBarrier`): `WriteEnds` says exactly who holds the write
  end: children that have not finished, and the parent until it is done
  forking. End of file then means that all have finished; and a parent blocked
  in read() has a child that is not finished, so it does not wait for itself.
- `fork_sig_sync` (`SigSyncAfterWork`): the mask is closed from before fork()
  on (`MaskInv`), so a signal the child has sent is pending or has woken the
  parent (`SignalKept`): without strangers the parent goes on only after the
  child's work, and no wake-up is lost: a parent asleep has a child that has
  yet to signal it, unless the child was killed (`NotLost`).
- `multi_wait`, `anony_mmap`, `fork_file_sharing`, `thread_cancel`
  (`WaitersCollect`): `CountInv` makes `numDead` the number of reaped children,
  for any number of them; `ChangeInv` how much of the change is made at each
  step of the child.
- `simple_pipe` (`SimpleAllEchoed`): `Flow` is conservation of units, those of a
  reported write() included, and
  `WriteEnds` again what end of file means. With `ReadEnds`, which says who
  keeps a write() to a full pipe waiting, the two processes never both block
  (`NeverStuck`).
- `pipe_ls_wc` (`FilterCountsAll`): `TableInv` describes both descriptor tables
  from pipe() to exec(), whichever standard descriptors were closed; pipe() and
  dup2() take the lowest free descriptors (`LowestFree`). From the same tables,
  `NeverStuck`: until all have ended one of the three processes is not blocked.
- `becomeDaemon` (`DaemonDetached`): `SessionInv` follows sessions, leaders and
  terminals through both forks, the hang-up included (`DaemonLeaves`).
- `popen_glob` (`PopenRunsTyped`): `PieceInv` says where the reading stands: at
  the start of a line, or at least a buffer away from it inside a line that is
  too long, or at the end of the input. So what fgets() returns is a whole line
  or a part of a long one, whatever pieces came before, and no induction over
  the input is needed.

**`SignalsProofs`** (`SignalsAssumption`).

- `sig_receiver` (`CountsKinds`): `KindInv` follows the signal a sender sent
  before its SIGINT - pending, counted, or taken by the kernel (`Settled`) -
  until it is shown. Once that SIGINT is handled, a signal that is still pending
  is delivered before the receiver goes on: `kernel` is set, and nothing is
  blocked. `CountInv` bounds what is counted or pending by what was sent while
  unblocked, plus what was sent while blocked: one for a standard signal
  (coalescing), all for a real-time one. Also in `KindInv`: a SIGINT that was
  sent is pending or has set `gotSigint`.
- `catch_rtsigs` (`RtQueuedHandled`, `RtPausesOnlyByRace`): what was handled,
  followed by what is pending, is what was queued, except for kinds of which the
  kernel took one away (`InOrder`); `OwedInv` and
  `RaceInv` are about the unblocking and the way to pause(). The kernel delivers
  the lowest signal that can be delivered; that there is a lowest one is a
  well-founded minimum (`LowestDeliverable`). `sigCnt` is the cardinality of
  the set of runs of the handler (`RunsCounted`).

**`PosixIpcProofs`** (`QueueAssumption`; `FamilyAssumption` and
`ToolsAssumption`: a process runs one program, values and lengths are unsigned).

- `mq_notify_thread` (`ThreadNeverBusy`, `ThreadAttended`): registering is a
  token. Exactly one of the registration, a thread that has not registered yet,
  and main before its set-up holds it (`Token`), because the kernel takes the
  registration away with each notification it sends. `AttendedQueue` needs that
  a message reaches an empty queue either with a registration (and so starts a
  thread), or with a thread that has yet to register and drain.
- `mq_notify_signal` (`SignalSleepsOnEmpty`): the same token, which stray
  signals can multiply (`TokenInv`).
- Semaphores (`SemConserved`): value = initial value + posts - waits, counting
  processes; creating and unlinking touch no semaphore that is open (`OpenInv`).
- Queue tools (`ToolsDelivered`): per queue, the senders that are done are the
  messages in it and those received from it (`SentOnce`), the messages are in
  order of priority (`Ordered`), and a process waits only on a full or an empty
  queue (`WaitsForCause`); a receiver that failed has taken nothing, unless its
  write() failed (`LostOnlyByWrite`). The strengthening is that no message is in a queue
  twice (`Once`) and that who is at work has opened a queue (`OpenInv`).
  Two lemmas carry the proof: in an ordered queue the messages that stay before
  a new one are an initial segment, so the insertion keeps the order
  (`ToolsBefore`, `ToolsInsert`); and a queue is unaffected by processes that
  work on another one (`ToolsElsewhere`), also by those that make a new queue
  under the old name.
- Shared memory (`ShmWholeMessages`): who shares an object with a changer is in
  `mixed` (`SharingInv`); who is not has resized it last (`LastInv`), so what it
  has copied is still there (`CopyInv`, `PrintInv`). SIGBUS and short writes
  follow as happening to `mixed` processes only.

**Only model-checked.** The seven liveness properties (`Served`,
`EveryoneAnswered`, `EveryoneServed`, `AllDrained`, `InputAttended`, `AllEnd`,
`InterruptEnds`): fairness and leads-to are out of the prover's reach. Every
other property of a passing run is stated by a theorem. The four violations are
traces TLC finds; the temporal one, `AbandonsClient`, is checked under fairness.

## 6. Abstractions

- Contents are counted or named, not spelled: the programs do not look at
  them, except `readLine` (which looks for newlines) and the request length of
  the sequence-number services.
- Start-up calls whose failure only ends the program before it has any effect
  are left out where the model says so. Of later failures the models have those
  that change what another process sees or what a property says (`Fail`, `Kill`
  and `...Error` actions). Left out are failures that only end the program in a
  state in which it may be killed anyway, malloc(), printf() and the other calls
  of stdio, and a read() of `simple_pipe.c` that fails, which is reported and
  changes nothing (the write() of -1 bytes that follows fails too).
- In `FifoSeqnum` a process identifier is not reused. The overflow of the signed
  counter is undefined in C; it wraps, as in the builds of the repository.
- The address loops of the TCP programs, which are their own, are not modelled;
  `InetSockets` is about `inet_sockets.c`.
- `readLine` with a buffer of no bytes returns EINVAL at once and is excluded.
- A pipe() that fails in `simple_pipe.c` leaves uninitialized descriptors and
  the program runs on; this is left out.
- `catch_rtsigs` started without an argument compares a null pointer; left out.
- In `DemoSigio` and `ForkSync` the set-up calls do not fail; `DemoSigio` may be
  killed at any of them, which leaves the same state. In `Inotify` a read()
  that fails is left out: it ends the program.
- `QueueTools` is used by one unprivileged user and no process is killed while
  it waits; messages cannot be lost that way, since a message belongs to the
  queue until it is received. A partial write() by `pmsg_receive`, which it does
  not look at, counts as written.
- `print_wait_status.c` is what `popen_glob` and `child_status` print with; its
  text is left out.

## 7. Not modelled

- `concurrent_tcp_client.c`, `concurrent_tcp_server.c`: stubs without logic.
- `t_select.c`, `poll_pipes.c`: one call of select() or poll() and a print-out.
- `signal_functions.c`, `ouch.c`, `intquit.c`, `t_sigaltstack.c`: formatting of
  signal sets and handlers that count to two.
- `make_zombie.c`, `t_fork.c`, `t_vfork.c`, `t_execve.c`, `envargs.c`,
  `exit_handlers.c`, `print_wait_status.c`: one effect of a system call each,
  with sleeps where one process is to come first, and no condition on it.
- `mmcat.c`, `t_mmap.c`, `seek_io.c`, `t_stat.c`, `t_mount.c` and the programs
  on files, users, time and system information: sequential programs around one
  system call, whose work is parsing options and formatting output.
- `error_functions.c`: formatting and exit.

## 8. Plan

1. *Prove more.* The action properties of the services (a number that was given
   is never given back, a reply is written once) as theorems of their own, and
   states without progress excluded, as for the pipes, for `StreamXfr` and
   `ThreadCancel`.
2. *Compose.* `TcpSeqnum` over `ReadLine`, so that the abstract "line, cut line
   or nothing" is a refinement; the notification programs on a queue that is
   unlinked and made again by `QueueTools`.
