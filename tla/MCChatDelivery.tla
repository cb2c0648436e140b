--------------------------- MODULE MCChatDelivery ---------------------------
(* ChatDelivery on small instances.                                         *)
EXTENDS ChatDelivery, TLC

Symmetry == Permutations(Conns)
=============================================================================
