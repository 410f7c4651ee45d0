---------------------------- MODULE MCSignaling ----------------------------
(* Signaling with two handler threads and three connections.  The publishers
   send audio and video in either order with other SSRCs, or video only, or
   fail at their second media; the players receive both, or fail because their
   offer sends too.  Their media agree on the id of transport-cc, name two, or
   name one that extMap_ cannot hold. *)
EXTENDS Signaling, TLC

Perms == Permutations(Threads)

M(type, direction, ssrc, ufrag, id) ==
  [type |-> type, direction |-> direction, ssrc |-> ssrc, ufrag |-> ufrag,
   ext |-> {<<id, "tcc">>} \cup IF type = "video" THEN {<<2, "other">>} ELSE {}]

MCPostOffers ==
  {<<M("audio", "sendonly", 11, TRUE, 3), M("video", "sendrecv", 12, TRUE, 3)>>,
   <<M("video", "sendonly", 22, TRUE, 5), M("audio", "inactive", 0, TRUE, 3)>>,
   <<M("audio", "sendrecv", 31, TRUE, 3), M("video", "sendonly", 0, TRUE, 3)>>}

MCPlayOffers ==
  {<<M("audio", "recvonly", 0, TRUE, 3), M("video", "recvonly", 0, TRUE, 17)>>,
   <<M("video", "sendrecv", 41, TRUE, 3)>>,
   <<M("video", "recvonly", 0, FALSE, 3)>>}
=============================================================================
