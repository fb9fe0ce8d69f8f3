---------------------------- MODULE InetSockets ----------------------------
(***************************************************************************)
(* The address loops of sockets/inet_sockets.c: inetConnect() and          *)
(* inetPassiveSocket() (behind inetListen() and inetBind()) try the        *)
(* addresses getaddrinfo() returned until one works.  Each system call     *)
(* succeeds or fails; the descriptors that are open are tracked.  The      *)
(* functions are called any number of times by one process.                *)
(***************************************************************************)
EXTENDS Integers, FiniteSets

CONSTANTS MaxAddrs,     \* bound: length of the address list
          MaxCalls      \* bound: calls made

VARIABLES fn,           \* "none", "connect", "listen" or "bind"
          pc,           \* the system call to make next
          left,         \* addresses not yet tried
          sfd,          \* the last socket made, or -1
          open,         \* the descriptors that are open
          list,         \* is the address list allocated?
          calls,        \* calls made so far
          held,         \* descriptors returned to callers
          leaked        \* history: descriptors lost by a failed listen()

vars == <<fn, pc, left, sfd, open, list, calls, held, leaked>>

Init == /\ fn = "none" /\ pc = "idle"
        /\ left = 0 /\ sfd = -1
        /\ open = {} /\ list = FALSE
        /\ calls = 0 /\ held = {} /\ leaked = {}

doListen == fn = "listen"

\* Back to the caller with descriptor fd or -1; freeaddrinfo().
Return(fd) == /\ fn' = "none" /\ pc' = "idle"
              /\ list' = FALSE
              /\ held' = IF fd = -1 THEN held ELSE held \cup {fd}

\* getaddrinfo() fails or returns a list, possibly of addresses none of
\* which works.  The hints of inetPassiveSocket are not cleared, which can
\* only make it fail.
Call(f) ==
    /\ pc = "idle" /\ calls < MaxCalls
    /\ calls' = calls + 1
    /\ \/ UNCHANGED <<fn, pc, left, list>>
       \/ /\ fn' = f /\ pc' = "socket" /\ list' = TRUE
          /\ left' \in 1..MaxAddrs
    /\ UNCHANGED <<sfd, open, held, leaked>>

\* The loop is over without a socket that works.
Exhausted == /\ pc = "socket" /\ left = 0
             /\ Return(-1)
             /\ UNCHANGED <<left, sfd, open, calls, leaked>>

\* socket(): the lowest free descriptor, or -1 and the next address.
Socket == /\ pc = "socket" /\ left > 0
          /\ left' = left - 1
          /\ \/ sfd' = -1 /\ UNCHANGED <<pc, open>>
             \/ /\ sfd' = CHOOSE d \in 0..Cardinality(open) : d \notin open
                /\ open' = open \cup {sfd'}
                /\ pc' = CASE fn = "connect" -> "connect"
                           [] doListen       -> "setsockopt"
                           [] OTHER          -> "bind"
          /\ UNCHANGED <<fn, list, calls, held, leaked>>

Setsockopt == /\ pc = "setsockopt"
              /\ \/ pc' = "bind" /\ UNCHANGED <<fn, open, list, held>>
                 \/ Return(-1) /\ open' = open \ {sfd}
              /\ UNCHANGED <<left, sfd, calls, leaked>>

TryNoClose == /\ pc \in {"connect", "bind"}
              /\ \/ /\ pc' = "socket"
                    /\ UNCHANGED <<fn, list, held, open>>
                 \/ IF pc = "bind" /\ doListen
                      THEN pc' = "listen" /\ UNCHANGED <<fn, open, list, held>>
                      ELSE Return(sfd) /\ UNCHANGED open
              /\ UNCHANGED <<left, sfd, calls, leaked>>

\* connect() or bind(): a socket that fails is closed and the next address
\* is tried; one that works ends the loop.
Try == /\ pc \in {"connect", "bind"}
       /\ \/ /\ open' = open \ {sfd}
             /\ pc' = "socket"
             /\ UNCHANGED <<fn, list, held>>
          \/ IF pc = "bind" /\ doListen
               THEN pc' = "listen" /\ UNCHANGED <<fn, open, list, held>>
               ELSE Return(sfd) /\ UNCHANGED open
       /\ UNCHANGED <<left, sfd, calls, leaked>>

\* listen(): its failure returns -1 and leaves the socket open.
Listen == /\ pc = "listen"
          /\ \/ Return(sfd) /\ UNCHANGED leaked
             \/ Return(-1) /\ leaked' = leaked \cup {sfd}
          /\ UNCHANGED <<left, sfd, open, calls>>

\* The caller closes a descriptor it was given.
CallerClose(d) == /\ pc = "idle" /\ d \in held
                  /\ held' = held \ {d} /\ open' = open \ {d}
                  /\ UNCHANGED <<fn, pc, left, sfd, list, calls, leaked>>

Next == \/ \E f \in {"connect", "listen", "bind"} : Call(f)
        \/ Exhausted \/ Socket \/ Setsockopt \/ Try \/ Listen
        \/ \E d \in held : CallerClose(d)

Spec == Init /\ [][Next]_vars

-----------------------------------------------------------------------------
TypeOK == /\ fn \in {"none", "connect", "listen", "bind"}
          /\ pc \in {"idle", "socket", "setsockopt", "connect", "bind", "listen"}
          /\ left \in 0..MaxAddrs
          /\ sfd \in Int
          /\ open \subseteq Nat /\ held \subseteq Nat /\ leaked \subseteq Nat
          /\ list \in BOOLEAN
          /\ calls \in 0..MaxCalls

\* Between calls the open sockets are those the callers hold and those a
\* failed listen() left behind (lines 101-104): no other path of the loops
\* leaks, closes what a caller holds or returns a descriptor that is closed
\* or already returned.
OnlyListenLeaks ==
    pc = "idle" => open = held \cup leaked /\ held \cap leaked = {} /\ ~list

Trying == pc \in {"setsockopt", "connect", "bind", "listen"}

\* During a call the socket being tried is nobody else's.
FreshSocket == Trying =>
    sfd \in open /\ sfd \notin held \cup leaked

\* The sockets that are open are the callers', the leaked ones and the one
\* being tried.
OwnersInv == /\ IsFiniteSet(open)
             /\ held \cap leaked = {} /\ (pc = "idle" => ~list)
             /\ IF Trying THEN /\ sfd \in Nat /\ sfd \notin held \cup leaked
                               /\ open = held \cup leaked \cup {sfd}
                          ELSE open = held \cup leaked

\* What the proofs of OnlyListenLeaks and FreshSocket rest on.
IndInv == TypeOK /\ OwnersInv
=============================================================================
