----------------------------- MODULE MCExchange -----------------------------
(* Model checking Exchange on two servers that play the same part.          *)
EXTENDS ExchangeDelivery, ExchangeInvariant, TLC

Symmetry == Permutations(Server)
=============================================================================
