----------------------------- MODULE MCLifecycle -----------------------------
(***************************************************************************)
(* Lifecycle for TLC: two warm-ups and the requests that follow.           *)
(***************************************************************************)
EXTENDS Lifecycle

CONSTANTS w1, w2

TwoWarmUps == <<w1, w2>>
=============================================================================
