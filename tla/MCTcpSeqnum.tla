----------------------------- MODULE MCTcpSeqnum -----------------------------
(* Instances of TcpSeqnum for TLC: a counter of three bits, clients that   *)
(* ask for a refused, a small and the largest length, and a server started *)
(* at zero or two short of the wrap.                                       *)
EXTENDS TcpSeqnum

MCLens == {-1, 1, W \div 2 - 1}
MCInitSeqs == {0, -2}
=============================================================================
