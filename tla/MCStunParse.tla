---------------------------- MODULE MCStunParse ----------------------------
(* StunParse on all datagrams of up to three words behind the header and up to
   three bytes more, with lengths that are zero, unaligned, exact or too long. *)
EXTENDS StunParse

Words == [type : {Username, 32802}, length : {0, 1, 4, 5, 8, 300}]

MCPackets ==
  UNION {[size : {StunHeaderSize + 4 * n + rest : rest \in 0..3}, type : {1, 257, 32865},
          words : [1..n -> Words]] : n \in 0..3}
  \cup [size : {2}, type : {1}, words : {<<>>}]

MCOpaque == {[type |-> Username, length |-> 0], [type |-> 32802, length |-> 65535]}
=============================================================================
