------------------------------ MODULE MCRelay ------------------------------
(***************************************************************************)
(* TLC instances of Relay: one publisher with one player, and with two,    *)
(* and one player while a second publisher replaces the first.             *)
(***************************************************************************)
EXTENDS Relay

=============================================================================
