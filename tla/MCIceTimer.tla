----------------------------- MODULE MCIceTimer -----------------------------
(* IceTimer in units of 833 ms, a third of the period; the loop may be late by two
   of them. The clock has room for two silences long enough to be found. *)
EXTENDS IceTimer
=============================================================================
