---------------------------- MODULE MCDeployment ----------------------------
(***************************************************************************)
(* An instance of Deployment for TLC.                                      *)
(***************************************************************************)
EXTENDS Deployment, TLC

CONSTANTS sepolia, one, poolA, poolB, w1, w2

\* w1 owns the first pool on both chains, w2 the second.
MCOwner == [c \in {sepolia, one} |-> (poolA :> w1 @@ poolB :> w2)]

Setting(rpc, id, pool, cap, ttl) ==
  [rpc |-> rpc, chain_id |-> id, pool |-> pool, cap |-> cap, ttl |-> ttl]

\* The usual one, a lower cap and no lifetime, another pool, another chain with
\* SPONSOR_CHAIN_ID left at its default.
MCConfig ==
  {Setting(sepolia, sepolia, poolA, 2, 2), Setting(sepolia, sepolia, poolA, 1, 0),
   Setting(sepolia, sepolia, poolB, 2, 1), Setting(one, sepolia, poolA, 2, 2)}

Symmetry == Permutations(Proc)
=============================================================================
