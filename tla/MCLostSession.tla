--------------------------- MODULE MCLostSession ---------------------------
(***************************************************************************)
(* TLC instance of LostSession: a ring of Size slots fed with every        *)
(* sequence of packets numbered 0..MaxExtSeq, MaxExtSeq a few times Size.  *)
(***************************************************************************)
EXTENDS LostSession

=============================================================================
