---------------------------- MODULE MCFifoSeqnum ----------------------------
(***************************************************************************)
(* The FIFO service for TLC: an int of three bits, so that the lengths of  *)
(* three clients reach its limit, and a length that sets the counter back. *)
(***************************************************************************)
EXTENDS FifoSeqnum

MCLens == {-1, 2}
=============================================================================
