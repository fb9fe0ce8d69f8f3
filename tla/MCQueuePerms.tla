---------------------------- MODULE MCQueuePerms ----------------------------
(* An instance of QueueTools for TLC: queues made with the permission      *)
(* argument 600 and without one, and a sender that tries to use them.      *)
EXTENDS QueueTools, TLC

CONSTANT s1

MCPrio == s1 :> 0
MCLength == s1 :> 1
MCAttrs == {[maxmsg |-> 1, msgsize |-> 1]}
MCPerms == {<<>>, <<6, 0, 0>>}
=============================================================================
