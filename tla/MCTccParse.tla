----------------------------- MODULE MCTccParse -----------------------------
(* Feedback messages with small units and widths: a tick is 6 us, a reference
   unit 48 us, a byte delta at most 1, a short delta in -8..7, the reference
   time comes round after 384 us and the clock after 16384, which is no whole
   number of ticks.  Chunks have two and four symbols; the foreign messages are
   all of up to two chunks, cut at every byte, that report up to five packets. *)
EXTENDS TccParse

(* The first round, the turn to the second, and the turn from an odd round to
   an even one. *)
MCTimes ==
  {1, 5, 6, 7, 12, 13, 30, 42, 48} \cup {350, 371, 378, 379, 383, 384, 385, 390, 391, 409}
  \cup {761, 767, 768, 769, 780}

ForeignChunks ==
  {RunChunk(s, n) : s \in 0..3, n \in {0, 1, 3}}
  \cup {TwoBitChunk(symbols) : symbols \in [1..2 -> {0, 2, 3}]}
  \cup [kind : {"one"}, symbols : [1..4 -> 0..1]]

MCForeign ==
  [size : {0, 7} \cup 8..16, count : 0..5,
   chunks : UNION {[1..n -> ForeignChunks] : n \in 0..2}]
=============================================================================
