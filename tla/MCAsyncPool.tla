---------------------------- MODULE MCAsyncPool ----------------------------
(***************************************************************************)
(* TLC instances of AsyncPool: two threads posting to a loop that one      *)
(* thread runs, and to the Server's loop, which two threads run.           *)
(***************************************************************************)
EXTENDS AsyncPool

=============================================================================
