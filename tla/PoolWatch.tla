------------------------------ MODULE PoolWatch ------------------------------
(***************************************************************************)
(* The low-water sweep (crates/server/src/pool_watch.rs) over the treasury *)
(* (treasury.rs): on every tick of an interval it reads what remains in    *)
(* the payment pool and, below the low-water mark, tops it up from the hot *)
(* wallet.  Modelled with it, from how the code uses them: the RPC calls,  *)
(* each of which may fail or leave its outcome unknown, the transactions   *)
(* that are sent and not yet mined, the sellers who redeem from the pool,  *)
(* and a process that may crash and be started again.                      *)
(*                                                                         *)
(*   off -> wait -> read -> allow -> send -> confirm -> wait               *)
(*                                                                         *)
(* A tick that finds the pool full, or fails, goes back to wait.           *)
(***************************************************************************)
EXTENDS Integers

CONSTANTS
  Interval,   \* SPONSOR_POOL_WATCH_INTERVAL_SECS; config.rs accepts 0
  LowWater,   \* pool_low_water
  Refill,     \* pool_refill
  Deposit,    \* the pool's deposit at first
  Funds,      \* the hot wallet's balance at first
  MaxLost,    \* bound: transactions whose receipt is lost
  MaxBacklog  \* bound: ticks that may wait to be served

ASSUME PoolWatchAssumption ==
  /\ Interval \in Nat /\ LowWater \in Nat /\ Refill \in Nat
  /\ Deposit \in Nat /\ Funds \in Nat
  /\ MaxLost \in Nat /\ MaxBacklog \in Nat \ {0}

VARIABLES
  pc,       \* where the sweep is
  backlog,  \* ticks that are due (missed ones are made up for in a burst)
  deposit,  \* the pool on-chain
  redeemed,
  wallet,   \* the hot wallet on-chain
  adrift,   \* top-ups sent, not mined, and no longer waited for
  lost      \* history: top-ups that were ever adrift

vars == <<pc, backlog, deposit, redeemed, wallet, adrift, lost>>
onchain == <<deposit, redeemed, wallet>>

TypeOK ==
  /\ pc \in {"off", "dead", "wait", "read", "allow", "send", "confirm"}
  /\ backlog \in 0..MaxBacklog
  /\ deposit \in Nat
  /\ redeemed \in 0..deposit
  /\ wallet \in Nat
  /\ lost \in 0..MaxLost
  /\ adrift \in 0..lost

Init ==
  /\ pc = "off"
  /\ backlog = 0
  /\ deposit = Deposit
  /\ redeemed = 0
  /\ wallet = Funds
  /\ adrift = 0
  /\ lost = 0

Goto(label) == pc' = label

(* u64::saturating_sub *)
SatSub(a, b) == IF b < a THEN a - b ELSE 0

(* Treasury::remaining *)
Remaining == SatSub(deposit, redeemed)

(* Faulty variant: refills at the mark, too. *)
FaultyNeedsRefill(remaining) == remaining <= LowWater

NeedsRefill(remaining) == remaining < LowWater

-----------------------------------------------------------------------------
(* The sweep *)

(* main spawns the sweep; tokio's interval panics on a period of zero, and *)
(* otherwise its first tick is due at once.                                *)
Boot ==
  /\ pc = "off"
  /\ IF Interval = 0 THEN Goto("dead") /\ backlog' = 0
                     ELSE Goto("wait") /\ backlog' = 1
  /\ UNCHANGED <<onchain, adrift, lost>>

(* Another interval has gone by. *)
Elapse ==
  /\ pc \notin {"off", "dead"}
  /\ backlog < MaxBacklog
  /\ backlog' = backlog + 1
  /\ UNCHANGED <<pc, onchain, adrift, lost>>

TickFires ==
  /\ pc = "wait"
  /\ backlog > 0
  /\ backlog' = backlog - 1
  /\ Goto("read")
  /\ UNCHANGED <<onchain, adrift, lost>>

ReadRemaining ==
  /\ pc = "read"
  /\ Goto(IF NeedsRefill(Remaining) THEN "allow" ELSE "wait")
  /\ UNCHANGED <<backlog, onchain, adrift, lost>>

(* Faulty variant: an error ends the loop. *)
FaultyReadFails ==
  /\ pc = "read"
  /\ Goto("dead")
  /\ UNCHANGED <<backlog, onchain, adrift, lost>>

ReadFails ==
  /\ pc = "read"
  /\ Goto("wait")
  /\ UNCHANGED <<backlog, onchain, adrift, lost>>

(* ensure_allowance *)
Allow ==
  /\ pc = "allow"
  /\ Goto("send")
  /\ UNCHANGED <<backlog, onchain, adrift, lost>>

(* Faulty variant: sent twice, and one receipt waited for. *)
FaultySend ==
  /\ pc = "send"
  /\ Goto("confirm")
  /\ adrift' = adrift + 1
  /\ UNCHANGED <<backlog, onchain, lost>>

(* The top-up is in the mempool. *)
Send ==
  /\ pc = "send"
  /\ Goto("confirm")
  /\ UNCHANGED <<backlog, onchain, adrift, lost>>

(* The approval or the transaction is refused: nothing was sent. *)
TopUpFails ==
  /\ pc \in {"allow", "send"}
  /\ Goto("wait")
  /\ UNCHANGED <<backlog, onchain, adrift, lost>>

(* A top-up is mined: it credits the pool, or reverts for want of funds. *)
Mine ==
  IF wallet >= Refill
    THEN deposit' = deposit + Refill /\ wallet' = wallet - Refill
    ELSE UNCHANGED <<deposit, wallet>>

(* The receipt comes: credited, or an error. *)
Confirm ==
  /\ pc = "confirm"
  /\ Mine
  /\ Goto("wait")
  /\ UNCHANGED <<backlog, redeemed, adrift, lost>>

(* The RPC node is gone before the receipt: an error, like any other, for  *)
(* the sweep, but the transaction may still be mined.                      *)
LoseReceipt ==
  /\ pc = "confirm"
  /\ lost < MaxLost  \* bound
  /\ lost' = lost + 1
  /\ adrift' = adrift + 1
  /\ Goto("wait")
  /\ UNCHANGED <<backlog, onchain>>

(* The process ends, at the latest when its port turns out to be taken:    *)
(* main binds after it has spawned the sweep.                              *)
Crash ==
  /\ pc # "off"
  /\ pc = "confirm" => lost < MaxLost  \* bound
  /\ lost' = IF pc = "confirm" THEN lost + 1 ELSE lost
  /\ adrift' = IF pc = "confirm" THEN adrift + 1 ELSE adrift
  /\ Goto("off")
  /\ backlog' = 0
  /\ UNCHANGED onchain

-----------------------------------------------------------------------------
(* The chain *)

MineAdrift ==
  /\ adrift > 0
  /\ Mine
  /\ adrift' = adrift - 1
  /\ UNCHANGED <<pc, backlog, redeemed, lost>>

DropAdrift ==
  /\ adrift > 0
  /\ adrift' = adrift - 1
  /\ UNCHANGED <<pc, backlog, onchain, lost>>

(* A seller is paid; the contract pays no more than there is. *)
Redeem ==
  /\ redeemed < deposit
  /\ redeemed' = redeemed + 1
  /\ UNCHANGED <<pc, backlog, deposit, wallet, adrift, lost>>

Next ==
  \/ Boot \/ Elapse \/ TickFires
  \/ ReadRemaining \/ ReadFails
  \/ Allow \/ Send \/ TopUpFails
  \/ Confirm \/ LoseReceipt
  \/ Crash
  \/ MineAdrift \/ DropAdrift \/ Redeem

Spec == Init /\ [][Next]_vars

(* The process is started again after a crash, intervals elapse and ticks  *)
(* are served; and an RPC call that is tried again and again succeeds      *)
(* again and again.                                                        *)
LiveSpec ==
  /\ Spec
  /\ WF_vars(Boot)
  /\ SF_vars(Elapse) /\ SF_vars(TickFires)
  /\ SF_vars(ReadRemaining) /\ SF_vars(Allow) /\ SF_vars(Send)
  /\ SF_vars(Confirm)

-----------------------------------------------------------------------------
(* Properties *)

Bigger(a, b) == IF a < b THEN b ELSE a

(* The sweep never overfills the pool: what remains is at most one refill  *)
(* above the mark, and one more for each top-up whose receipt was lost, in *)
(* spite of sweeps that start before an earlier top-up is mined.           *)
BoundedOvershoot ==
  Remaining <= Bigger(Deposit, LowWater - 1 + Refill * (1 + lost))

(* A pool below the mark gets back to it, as long as the wallet can pay,   *)
(* through failed ticks, lost receipts and restarts.                       *)
Replenished ==
  Remaining < LowWater ~> (Remaining >= LowWater \/ wallet < Refill)

(* "Never panics the loop" (the comment on pool_watch::run). *)
NeverPanics == pc # "dead"
=============================================================================
