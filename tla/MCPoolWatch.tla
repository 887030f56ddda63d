----------------------------- MODULE MCPoolWatch -----------------------------
(***************************************************************************)
(* Instances of PoolWatch for TLC: amounts are a few units, so that the    *)
(* pool crosses the mark several times and the wallet runs dry.            *)
(***************************************************************************)
EXTENDS PoolWatch
=============================================================================
