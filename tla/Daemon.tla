------------------------------- MODULE Daemon -------------------------------
(***************************************************************************)
(* daemons/become_daemon.c and its callers: test_become_daemon.c, which    *)
(* does not look at the result, sockets/iterative_udp_echo_server.c, which *)
(* exits when it is -1, and any other that does so and passes flags.  The  *)
(* process that calls becomeDaemon(), its child and its grandchild;        *)
(* sessions and the controlling terminal as the kernel keeps them: a       *)
(* session leader without one acquires the terminal it opens, and when a   *)
(* session leader ends, its terminal hangs up the foreground processes.    *)
(***************************************************************************)
EXTENDS Integers

CONSTANTS FlagSets,     \* the values of flags that are tried, sets of names
          OpenSets,     \* the sets of descriptors the caller may have open
          Limits,       \* what sysconf(_SC_OPEN_MAX) may return; -1: no limit
          BD_MAX_CLOSE,
          MayFail       \* the calls that may fail

Procs == {"caller", "child", "grandchild"}
Callers == {"test", "echo", "other"}
NextGen(p) == IF p = "caller" THEN "child" ELSE "grandchild"

VARIABLES pc,           \* pc[p]: the call process p is in, or how it ended
          prog,         \* the program that calls becomeDaemon(flags)
          flags,
          leads,        \* the processes that lead a session
          session,      \* session[p]: the session of p, named for its leader
          tty,          \* the sessions that have a controlling terminal
          fds,          \* fds[p][d]: what descriptor d of p refers to
          env,          \* env[p]: does p have umask 0, and "/" as directory?
          maxfd         \* the first descriptor that is not closed, or -1

vars == <<pc, prog, flags, leads, session, tty, fds, env, maxfd>>
procVars == <<prog, flags, leads, session, tty>>

Descs == 0..4
Ended == {"exited", "failed", "hungup", "none"}

\* A caller that leads its session was started by "setsid", or is the only
\* process of a terminal.
Init == /\ pc = [p \in Procs |-> IF p = "caller" THEN "fork" ELSE "none"]
        /\ prog \in Callers /\ flags \in IF prog = "other" THEN FlagSets ELSE {{}}
        /\ \/ leads = {"caller"} /\ session = [p \in Procs |-> "caller"]
           \/ leads = {} /\ session = [p \in Procs |-> "shell"]
        /\ tty = {session["caller"]}
        /\ \E open \in OpenSets : fds = [p \in Procs |->
              [d \in Descs |-> IF p = "caller" /\ d \in open THEN "file" ELSE "closed"]]
        /\ env = [p \in Procs |-> {}]
        /\ maxfd = -1

Move(p, to) == pc' = [pc EXCEPT ![p] = to]

\* The end of a session leader takes the terminal from the session and sends
\* SIGHUP to its processes, if they are in the foreground.
Leaves(p, how) ==
    /\ \E foreground \in BOOLEAN : pc' = [q \in Procs |->
          IF q = p THEN how
          ELSE IF /\ foreground /\ p \in leads /\ session[p] \in tty
                  /\ pc[q] \notin Ended /\ session[q] = session[p]
          THEN "hungup" ELSE pc[q]]
    /\ tty' = IF p \in leads THEN tty \ {session[p]} ELSE tty

-----------------------------------------------------------------------------
ForkOnce(p) == /\ pc[p] \in {"fork", "fork2"}
               /\ pc' = IF pc[p] = "fork2" THEN [pc EXCEPT ![p] = "env"]
                        ELSE [pc EXCEPT ![p] = "exit", ![NextGen(p)] = "setsid"]
               /\ session' = [session EXCEPT ![NextGen(p)] = session[p]]
               /\ fds' = [fds EXCEPT ![NextGen(p)] = fds[p]]
               /\ UNCHANGED <<prog, flags, leads, tty, env, maxfd>>

Fork(p) == /\ pc[p] \in {"fork", "fork2"}
           /\ pc' = [pc EXCEPT ![p] = "exit",
                               ![NextGen(p)] = IF pc[p] = "fork" THEN "setsid" ELSE "env"]
           /\ session' = [session EXCEPT ![NextGen(p)] = session[p]]
           /\ fds' = [fds EXCEPT ![NextGen(p)] = fds[p]]
           /\ UNCHANGED <<prog, flags, leads, tty, env, maxfd>>

\* _exit(EXIT_SUCCESS) of the process that forked.
ParentExits(p) == /\ pc[p] = "exit"
                  /\ Leaves(p, "exited")
                  /\ UNCHANGED <<prog, flags, leads, session, fds, env, maxfd>>

\* A forked child leads no process group: setsid() succeeds, and the new
\* session has no terminal.
Setsid(p) == /\ pc[p] = "setsid" /\ p # "caller"
             /\ leads' = leads \cup {p}
             /\ session' = [session EXCEPT ![p] = p]
             /\ Move(p, "fork2")
             /\ UNCHANGED <<prog, flags, tty, fds, env, maxfd>>

\* return -1: the test program goes on, the others exit.
Returns(p, result) == Move(p, IF result = 0 THEN "daemon"
                              ELSE IF prog = "test" THEN "notDaemon" ELSE "failed")

CallFails(p) == /\ pc[p] \in MayFail \cap {"fork", "setsid", "fork2"}
                /\ Returns(p, -1)
                /\ UNCHANGED <<procVars, fds, env, maxfd>>

\* umask(0); chdir("/"), whose result is not looked at.
SetEnv(p) == /\ pc[p] = "env"
             /\ \E root \in {{}, {"root"}} :
                  /\ root = {} => "BD_NO_CHDIR" \in flags \/ "chdir" \in MayFail
                  /\ root # {} => "BD_NO_CHDIR" \notin flags
                  /\ env' = [env EXCEPT ![p] = root \cup
                          (IF "BD_NO_UMASK0" \in flags THEN {} ELSE {"umask0"})]
             /\ Move(p, IF "BD_NO_CLOSE_FILES" \in flags THEN "reopen" ELSE "close")
             /\ UNCHANGED <<procVars, fds, maxfd>>

\* The loop over close(fd); a descriptor opened before the limit was lowered
\* lies beyond it.
CloseFiles(p) == /\ pc[p] = "close"
                 /\ \E m \in Limits : maxfd' = IF m = -1 THEN BD_MAX_CLOSE ELSE m
                 /\ fds' = [fds EXCEPT ![p] =
                        [d \in Descs |-> IF d < maxfd' THEN "closed" ELSE @[d]]]
                 /\ Move(p, "reopen")
                 /\ UNCHANGED <<procVars, env>>

\* close(0) and open("/dev/null") give descriptor 0, dup2() the other two.
Reopen(p) == /\ pc[p] = "reopen"
             /\ fds' = IF "BD_NO_REOPEN_STD_FDS" \in flags THEN fds
                       ELSE [fds EXCEPT ![p] =
                              [d \in Descs |-> IF d <= 2 THEN "null" ELSE @[d]]]
             /\ Returns(p, 0)
             /\ UNCHANGED <<procVars, env, maxfd>>

\* open("/dev/null") or dup2() fails with part of the work done.
ReopenFails(p) == /\ "reopen" \in MayFail /\ pc[p] = "reopen"
                  /\ "BD_NO_REOPEN_STD_FDS" \notin flags
                  /\ \E n \in 0..2 : fds' = [fds EXCEPT ![p] =
                        [d \in Descs |-> IF d < n THEN "null"
                                         ELSE IF d = 0 THEN "closed" ELSE @[d]]]
                  /\ Returns(p, -1)
                  /\ UNCHANGED <<procVars, env, maxfd>>

\* What the program does afterwards may open a terminal.
OpensTty(p) == /\ pc[p] \in {"daemon", "notDaemon"}
               /\ p \in leads /\ session[p] \notin tty
               /\ tty' = tty \cup {session[p]}
               /\ UNCHANGED <<pc, prog, flags, leads, session, fds, env, maxfd>>

\* The end of sleep() in the test program; the others run on.
Done(p) == /\ pc[p] \in {"daemon", "notDaemon"} /\ prog = "test"
           /\ Leaves(p, "exited")
           /\ UNCHANGED <<prog, flags, leads, session, fds, env, maxfd>>

Step(p) == \/ Fork(p) \/ ParentExits(p) \/ Setsid(p) \/ SetEnv(p)
           \/ CloseFiles(p) \/ Reopen(p) \/ Done(p)

Next == \E p \in Procs : Step(p) \/ CallFails(p) \/ ReopenFails(p) \/ OpensTty(p)

Spec == Init /\ [][Next]_vars

-----------------------------------------------------------------------------
TypeOK == /\ pc \in [Procs -> {"fork", "exit", "setsid", "fork2", "env", "close",
                               "reopen", "daemon", "notDaemon"} \cup Ended]
          /\ prog \in Callers /\ flags \in FlagSets
          /\ leads \subseteq Procs
          /\ session \in [Procs -> Procs \cup {"shell"}]
          /\ tty \subseteq Procs \cup {"shell"}
          /\ fds \in [Procs -> [Descs -> {"closed", "file", "null"}]]
          /\ env \in [Procs -> SUBSET {"umask0", "root"}]
          /\ maxfd \in Int

Daemons == {p \in Procs : pc[p] = "daemon"}

\* "Ensure we are not session leader" (become_daemon.c line 37): a process
\* for which becomeDaemon() returned 0 never has a controlling terminal,
\* whatever it opens and whichever of its ancestors is still running; it is
\* the only one that returned, and only the test program runs on otherwise.
NoTerminal == /\ \A p \in Daemons : p \notin leads /\ session[p] \notin tty
              /\ \A p, q \in Procs : pc[p] \in {"daemon", "notDaemon"}
                     /\ pc[q] \in {"daemon", "notDaemon"} => p = q
              /\ prog # "test" => \A p \in Procs : pc[p] # "notDaemon"

\* "Close all open files" (line 49): of the caller's descriptors a daemon
\* keeps those at or above the limit, and 0, 1 and 2 are /dev/null.
CleanDescriptors == \A p \in Daemons :
    /\ "BD_NO_REOPEN_STD_FDS" \notin flags => \A d \in 0..2 : fds[p][d] = "null"
    /\ "BD_NO_CLOSE_FILES" \notin flags =>
         \A d \in Descs : fds[p][d] = "file" => d >= maxfd

Detached == NoTerminal /\ CleanDescriptors

\* Which process is where: each generation does its part, and runs on only if
\* there is no next one.
StageInv ==
    /\ pc["caller"] \in {"fork", "exit", "notDaemon", "exited", "failed", "hungup"}
    /\ pc["child"] \in {"setsid", "fork2", "exit", "notDaemon"} \cup Ended
    /\ pc["grandchild"] \in {"env", "close", "reopen", "daemon", "notDaemon"} \cup Ended
    /\ pc["child"] # "none" => pc["caller"] \in {"exit", "exited", "hungup"}
    /\ pc["grandchild"] # "none" => pc["child"] \in {"exit", "exited", "hungup"}
    /\ prog # "test" => \A p \in Procs : pc[p] # "notDaemon"

\* Sessions: a leader leads its own, the grandchild leads none and is in that
\* of the child, which has no terminal unless the child returned.
SessionInv ==
    /\ \A p \in leads : session[p] = p
    /\ "grandchild" \notin leads
    /\ pc["child"] \in {"fork2", "exit"} => "child" \in leads
    /\ pc["grandchild"] # "none" => session["grandchild"] = "child" /\ "child" \notin tty
    /\ pc["child"] \in {"none", "setsid"} => "child" \notin leads
    /\ "child" \in tty => "child" \in leads /\ pc["child"] = "notDaemon"

\* What closing and reopening have done so far.
FdInv ==
    /\ pc["grandchild"] \in {"reopen", "daemon"} /\ "BD_NO_CLOSE_FILES" \notin flags
         => \A d \in Descs : fds["grandchild"][d] = "file" => d >= maxfd
    /\ pc["grandchild"] = "daemon" /\ "BD_NO_REOPEN_STD_FDS" \notin flags
         => \A d \in 0..2 : fds["grandchild"][d] = "null"

\* What the proof of Detached rests on.
IndInv == TypeOK /\ StageInv /\ SessionInv /\ FdInv

\* Started by a shell, and when no call fails, the program becomes a daemon;
\* a caller that leads its session may hang up its child before setsid().
Settled == /\ \A p \in Procs : pc[p] \in Ended \cup {"daemon", "notDaemon"}
           /\ "hungup" \in {pc[p] : p \in Procs} => "caller" \in leads
=============================================================================
