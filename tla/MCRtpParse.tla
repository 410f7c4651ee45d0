----------------------------- MODULE MCRtpParse -----------------------------
(* RtpParse on all short extension blocks over bytes that stand for padding,
   ids with a length nibble that fits or does not, and the reserved id; and on
   all combinations of sizes and flags with one of a few blocks. *)
EXTENDS RtpParse

Bytes == {0, 2, 16, 33, 63, 240}   \* 1: L=0, 2: L=1, 3: L=15, 15: L=0
Fit(cc, block, payload) == kFixedHeaderSize + 4 * cc + 4 + Len(block) + payload

ManyBlocks ==
  {[size |-> Fit(0, b, 1), version |-> 2, cc |-> 0, padding |-> -1, hasExt |-> TRUE,
    profile |-> p, block |-> b] :
     p \in {"oneByte", "twoByte"},
     b \in [1..4 -> Bytes] \cup {x \o y : x \in [1..4 -> {0, 16, 33}], y \in [1..4 -> {0, 2, 240}]}}

(* A packet that ends with its block ends with the block's last byte. *)
Consistent(p) ==
  p.hasExt /\ p.block # <<>> /\ p.padding # -1 /\ p.size = Fit(p.cc, p.block, 0)
    => p.padding = p.block[Len(p.block)]

ManySizes ==
  {p \in [size : 11..27, version : {1, 2}, cc : {0, 1}, padding : {-1, 0, 1, 6},
          hasExt : BOOLEAN, profile : {"oneByte", "twoByte", "other"},
          block : {<<>>, <<16, 1, 0, 0>>, <<16, 1, 16, 1>>}] : Consistent(p)}

MCPackets == ManyBlocks \cup ManySizes
=============================================================================
