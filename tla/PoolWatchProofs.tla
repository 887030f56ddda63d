--------------------------- MODULE PoolWatchProofs ---------------------------
(***************************************************************************)
(* Theorems about PoolWatch, for every mark, refill, deposit and wallet.   *)
(***************************************************************************)
EXTENDS PoolWatch, TLAPS

-----------------------------------------------------------------------------
(* Arithmetic *)

LEMMA OneMore ==
  ASSUME NEW n \in Nat
  PROVE  Refill * n \in Nat /\ Refill * (n + 1) = Refill * n + Refill
  BY PoolWatchAssumption

LEMMA AtMost ==
  ASSUME NEW m \in Nat, NEW n \in Nat, m <= n
  PROVE  Refill * m <= Refill * n
<1>1. PICK k \in Nat : n = m + k
  <2> WITNESS n - m \in Nat
  <2> QED  OBVIOUS
<1>2. Refill * n = Refill * m + Refill * k
  BY <1>1, PoolWatchAssumption
<1> QED  BY <1>2, PoolWatchAssumption

LEMMA SatSubIsMinus ==
  ASSUME NEW a \in Nat, NEW b \in Nat, b <= a
  PROVE  SatSub(a, b) = a - b /\ SatSub(a, b) \in Nat
  BY DEF SatSub

LEMMA Sum ==
  ASSUME NEW a \in Nat, NEW b \in Nat
  PROVE  a + b \in Nat
  OBVIOUS

LEMMA SumBound ==
  ASSUME NEW a \in Nat, NEW b \in Nat, NEW c \in Nat, NEW d \in Nat,
         NEW r \in Nat, a <= b + r, c + r <= d
  PROVE  a + c <= b + d
  OBVIOUS

LEMMA BelowBigger ==
  ASSUME NEW a \in Nat, NEW b \in Int, NEW p \in Nat, p <= b
  PROVE  p <= Bigger(a, b)
  BY DEF Bigger

(* The bound grows with the refills lost (here m of them, or n).           *)
LEMMA BoundGrows ==
  ASSUME NEW p \in Nat, NEW q \in Nat, NEW m \in Nat, NEW n \in Nat,
         q <= p, m <= n
  PROVE  /\ p <= Bigger(Deposit, LowWater - 1 + (m + Refill))
              => q <= Bigger(Deposit, LowWater - 1 + (n + Refill))
         /\ p <= LowWater - 1 + m => q <= LowWater - 1 + n
  BY PoolWatchAssumption DEF Bigger

-----------------------------------------------------------------------------
(* The invariant.  What remains is bounded only together with what is on   *)
(* its way: the top-ups adrift and the one that is waited for.             *)
InFlight == IF pc = "confirm" THEN adrift + 1 ELSE adrift

Potential == Remaining + Refill * InFlight

(* Below the mark the sweep commits itself to a refill; by then the only   *)
(* other top-ups in flight are among those whose receipt was lost.         *)
PotentialBound ==
  /\ Potential <= Bigger(Deposit, LowWater - 1 + Refill * (1 + lost))
  /\ pc \in {"allow", "send"} => Potential <= LowWater - 1 + Refill * lost

Inv == TypeOK /\ PotentialBound

LEMMA InvInit == Init => Inv
<1> SUFFICES ASSUME Init PROVE Inv
  OBVIOUS
<1>1. TypeOK
  BY PoolWatchAssumption DEF Init, TypeOK
<1>2. Potential = Deposit
  BY PoolWatchAssumption DEF Init, Potential, InFlight, Remaining, SatSub
<1>3. PotentialBound
  BY <1>2, PoolWatchAssumption DEF Init, PotentialBound, Bigger
<1> QED  BY <1>1, <1>3 DEF Inv

LEMMA TypeNext == TypeOK /\ [Next]_vars => TypeOK'
<1> SUFFICES ASSUME TypeOK, [Next]_vars PROVE TypeOK'
  OBVIOUS
<1> USE PoolWatchAssumption DEF TypeOK, onchain, Goto
<1>1. CASE Boot \/ Elapse \/ TickFires \/ ReadRemaining \/ ReadFails
  BY <1>1 DEF Boot, Elapse, TickFires, ReadRemaining, ReadFails
<1>2. CASE Allow \/ Send \/ TopUpFails
  BY <1>2 DEF Allow, Send, TopUpFails
<1>3. CASE Confirm
  BY <1>3 DEF Confirm, Mine
<1>4. CASE LoseReceipt \/ Crash
  BY <1>4 DEF LoseReceipt, Crash
<1>5. CASE MineAdrift \/ DropAdrift
  BY <1>5 DEF MineAdrift, DropAdrift, Mine
<1>6. CASE Redeem
  BY <1>6 DEF Redeem
<1>7. CASE UNCHANGED vars
  BY <1>7 DEF vars
<1> QED  BY <1>1, <1>2, <1>3, <1>4, <1>5, <1>6, <1>7 DEF Next

LEMMA Types ==
  ASSUME TypeOK
  PROVE  /\ Remaining = deposit - redeemed /\ Remaining \in Nat
         /\ InFlight \in Nat /\ Refill * InFlight \in Nat
         /\ Potential \in Nat
         /\ lost \in Nat /\ Refill * lost \in Nat
         /\ Refill * (1 + lost) = Refill * lost + Refill
<1>1. /\ deposit \in Nat /\ redeemed \in Nat /\ redeemed <= deposit
      /\ lost \in Nat /\ adrift \in Nat
  BY PoolWatchAssumption DEF TypeOK
<1>2. Remaining = deposit - redeemed /\ Remaining \in Nat
  BY <1>1, SatSubIsMinus DEF Remaining
<1>3. InFlight \in Nat
  <2>1. InFlight = adrift + 1 \/ InFlight = adrift
    BY DEF InFlight
  <2> QED  BY <1>1, <2>1
<1>4. Refill * InFlight \in Nat /\ Refill * lost \in Nat
  BY <1>1, <1>3, OneMore
<1>5. Refill * (1 + lost) = Refill * lost + Refill
  BY <1>1, OneMore
<1> QED  BY <1>1, <1>2, <1>3, <1>4, <1>5, Sum DEF Potential

LEMMA NextTypes ==
  ASSUME TypeOK'
  PROVE  /\ Remaining' = deposit' - redeemed' /\ Remaining' \in Nat
         /\ InFlight' \in Nat /\ Refill * InFlight' \in Nat
         /\ Potential' \in Nat
         /\ lost' \in Nat /\ Refill * lost' \in Nat
         /\ Refill * (1 + lost') = Refill * lost' + Refill
<1>1. /\ deposit' \in Nat /\ redeemed' \in Nat /\ redeemed' <= deposit'
      /\ lost' \in Nat /\ adrift' \in Nat
  BY PoolWatchAssumption DEF TypeOK
<1>2. Remaining' = deposit' - redeemed' /\ Remaining' \in Nat
  BY <1>1, SatSubIsMinus DEF Remaining
<1>3. InFlight' \in Nat
  <2>1. InFlight' = adrift' + 1 \/ InFlight' = adrift'
    BY DEF InFlight
  <2> QED  BY <1>1, <2>1
<1>4. Refill * InFlight' \in Nat /\ Refill * lost' \in Nat
  BY <1>1, <1>3, OneMore
<1>5. Refill * (1 + lost') = Refill * lost' + Refill
  BY <1>1, OneMore
<1> QED  BY <1>1, <1>2, <1>3, <1>4, <1>5, Sum DEF Potential

(* A step that adds nothing to the potential, and does not enter the       *)
(* top-up, keeps the bound: the bound itself only grows.                   *)
LEMMA NoGain ==
  ASSUME Inv, TypeOK', Potential' <= Potential, lost <= lost',
         pc' \in {"allow", "send"} => pc \in {"allow", "send"}
  PROVE  PotentialBound'
<1>1. /\ Potential \in Nat /\ Potential' \in Nat
      /\ lost \in Nat /\ lost' \in Nat
      /\ Refill * lost \in Nat /\ Refill * lost' \in Nat
      /\ Refill * (1 + lost) = Refill * lost + Refill
      /\ Refill * (1 + lost') = Refill * lost' + Refill
  BY Types, NextTypes DEF Inv
<1>2. Refill * lost <= Refill * lost'
  BY <1>1, AtMost
<1>3. Potential <= Bigger(Deposit, LowWater - 1 + (Refill * lost + Refill))
  BY <1>1 DEF Inv, PotentialBound
<1>4. Potential' <= Bigger(Deposit, LowWater - 1 + (Refill * lost' + Refill))
  BY <1>1, <1>2, <1>3, BoundGrows
<1>5. pc' \in {"allow", "send"} => Potential' <= LowWater - 1 + Refill * lost'
  BY <1>1, <1>2, BoundGrows DEF Inv, PotentialBound
<1> QED  BY <1>1, <1>4, <1>5 DEF PotentialBound

(* Mining moves a refill from flight into the pool, or loses it.           *)
LEMMA MineGain ==
  ASSUME TypeOK, TypeOK', Mine, redeemed' = redeemed,
         InFlight = InFlight' + 1
  PROVE  Potential' <= Potential
<1>1. /\ Remaining \in Nat /\ Remaining' \in Nat
      /\ InFlight' \in Nat /\ Refill * InFlight' \in Nat
  BY Types, NextTypes
<1>2. Refill * InFlight = Refill * InFlight' + Refill
  BY <1>1, OneMore
<1>3. /\ deposit \in Nat /\ redeemed \in Nat /\ redeemed <= deposit
      /\ Refill \in Nat /\ Remaining = deposit - redeemed
  BY Types, PoolWatchAssumption DEF TypeOK
<1>4. Remaining' <= Remaining + Refill
  <2>1. CASE wallet >= Refill
    <3>1. Remaining' = SatSub(deposit + Refill, redeemed)
      BY <2>1 DEF Mine, Remaining
    <3>2. deposit + Refill \in Nat /\ redeemed <= deposit + Refill
      BY <1>3
    <3>3. SatSub(deposit + Refill, redeemed) = (deposit + Refill) - redeemed
      BY <1>3, <3>2, SatSubIsMinus
    <3>4. (deposit + Refill) - redeemed = Remaining + Refill
      BY <1>3
    <3>5. Remaining' = Remaining + Refill
      BY <3>1, <3>3, <3>4
    <3> QED  BY <1>1, <1>3, <3>5
  <2>2. CASE ~(wallet >= Refill)
    <3>1. Remaining' = Remaining
      BY <2>2 DEF Mine, Remaining
    <3> QED  BY <1>3, <3>1
  <2> QED  BY <2>1, <2>2
<1>5. Refill * InFlight \in Nat /\ Refill * InFlight' + Refill <= Refill * InFlight
  BY <1>2, Types
<1> QED  BY <1>1, <1>3, <1>4, <1>5, SumBound DEF Potential

LEMMA InvNext == Inv /\ [Next]_vars => Inv'
<1> SUFFICES ASSUME Inv, [Next]_vars PROVE Inv'
  OBVIOUS
<1>1. TypeOK /\ TypeOK'
  BY TypeNext DEF Inv
<1>2. /\ Remaining \in Nat /\ InFlight \in Nat /\ Potential \in Nat
      /\ lost \in Nat /\ Refill * InFlight \in Nat
  BY <1>1, Types
<1> USE DEF onchain, Goto
<1>3. ASSUME UNCHANGED <<deposit, redeemed>>, InFlight' = InFlight
      PROVE  Potential' <= Potential
  BY <1>2, <1>3 DEF Potential, Remaining
<1>4. CASE Boot \/ Elapse \/ TickFires \/ ReadFails \/ Allow \/ TopUpFails
  <2>1. UNCHANGED <<deposit, redeemed, lost>> /\ InFlight' = InFlight
    BY <1>4 DEF Boot, Elapse, TickFires, ReadFails, Allow, TopUpFails, InFlight
  <2>2. pc' \in {"allow", "send"} => pc \in {"allow", "send"}
    BY <1>4 DEF Boot, Elapse, TickFires, ReadFails, Allow, TopUpFails
  <2> QED  BY <1>1, <1>2, <1>3, <2>1, <2>2, NoGain DEF Inv
<1>5. CASE ReadRemaining
  <2>1. /\ UNCHANGED <<deposit, redeemed, lost>> /\ InFlight' = InFlight
        /\ InFlight = adrift
    BY <1>5 DEF ReadRemaining, InFlight
  <2>2. CASE NeedsRefill(Remaining)
    <3>1. Remaining <= LowWater - 1
      BY <1>2, <2>2, PoolWatchAssumption DEF NeedsRefill
    <3>2. Refill * InFlight <= Refill * lost
      BY <1>1, <1>2, <2>1, AtMost DEF TypeOK
    <3>3. Potential' = Potential /\ Potential <= LowWater - 1 + Refill * lost
      BY <1>1, <1>2, <2>1, <3>1, <3>2, Types, PoolWatchAssumption
         DEF Potential, Remaining
    <3> QED
      BY <1>1, <2>1, <3>3 DEF Inv, PotentialBound
  <2>3. CASE ~NeedsRefill(Remaining)
    BY <1>1, <1>2, <1>3, <1>5, <2>1, <2>3, NoGain DEF Inv, ReadRemaining
  <2> QED  BY <2>2, <2>3
<1>6. CASE Send
  <2>1. /\ UNCHANGED <<deposit, redeemed, lost>>
        /\ InFlight' = InFlight + 1 /\ pc' = "confirm"
    BY <1>6 DEF Send, InFlight
  <2>2. Potential <= LowWater - 1 + Refill * lost
    BY <1>6 DEF Send, Inv, PotentialBound
  <2>3. Potential' = Potential + Refill
    BY <1>2, <2>1, OneMore, PoolWatchAssumption DEF Potential, Remaining
  <2>4. Potential' <= LowWater - 1 + Refill * (1 + lost)
    BY <1>1, <1>2, <2>2, <2>3, Types, PoolWatchAssumption
  <2>5. Potential' <= Bigger(Deposit, LowWater - 1 + Refill * (1 + lost))
    <3>1. LowWater - 1 + Refill * (1 + lost) \in Int
      BY <1>1, Types, PoolWatchAssumption
    <3>2. Potential' \in Nat /\ Deposit \in Nat
      BY <1>1, NextTypes, PoolWatchAssumption
    <3> QED  BY <2>4, <3>1, <3>2, BelowBigger
  <2> QED  BY <1>1, <2>1, <2>5 DEF Inv, PotentialBound
<1>7. CASE Confirm
  <2>1. /\ Mine /\ redeemed' = redeemed /\ lost' = lost /\ pc' = "wait"
        /\ InFlight = InFlight' + 1
    BY <1>7 DEF Confirm, InFlight
  <2> QED  BY <1>1, <1>2, <2>1, MineGain, NoGain DEF Inv
<1>8. CASE LoseReceipt \/ Crash
  <2>1. UNCHANGED <<deposit, redeemed>> /\ InFlight' = InFlight /\ lost <= lost'
    BY <1>2, <1>8 DEF LoseReceipt, Crash, InFlight
  <2>2. pc' \notin {"allow", "send"}
    BY <1>8 DEF LoseReceipt, Crash
  <2> QED  BY <1>1, <1>3, <2>1, <2>2, NoGain DEF Inv
<1>9. CASE MineAdrift
  <2>1. /\ Mine /\ redeemed' = redeemed /\ lost' = lost /\ pc' = pc
        /\ InFlight = InFlight' + 1
    BY <1>1, <1>9 DEF MineAdrift, InFlight, TypeOK
  <2> QED  BY <1>1, <1>2, <2>1, MineGain, NoGain DEF Inv
<1>10. CASE DropAdrift
  <2>1. /\ UNCHANGED <<deposit, redeemed, lost, pc>>
        /\ InFlight' \in Nat /\ InFlight' <= InFlight
    BY <1>1, <1>10, PoolWatchAssumption DEF DropAdrift, InFlight, TypeOK
  <2>2. Refill * InFlight' \in Nat /\ Refill * InFlight' <= Refill * InFlight
    BY <1>2, <2>1, AtMost, OneMore
  <2>3. Potential' <= Potential
    BY <1>2, <2>1, <2>2 DEF Potential, Remaining
  <2> QED  BY <1>1, <1>2, <2>1, <2>3, NoGain DEF Inv
<1>11. CASE Redeem
  <2>1. UNCHANGED <<lost, pc>> /\ InFlight' = InFlight
    BY <1>11 DEF Redeem, InFlight
  <2>2. Remaining' = SatSub(deposit, redeemed + 1)
    BY <1>11 DEF Redeem, Remaining
  <2>3. /\ deposit \in Nat /\ redeemed \in Nat /\ redeemed + 1 <= deposit
        /\ Remaining = deposit - redeemed
    BY <1>1, <1>11, Types DEF Redeem, TypeOK
  <2>4. Remaining' \in Nat /\ Remaining' <= Remaining
    BY <2>2, <2>3, SatSubIsMinus
  <2>5. Potential' <= Potential
    BY <1>2, <2>1, <2>4 DEF Potential
  <2> QED  BY <1>1, <1>2, <2>1, <2>5, NoGain DEF Inv
<1>12. CASE UNCHANGED vars
  BY <1>12 DEF vars, Inv, TypeOK, PotentialBound, Potential, Remaining, InFlight
<1> QED
  BY <1>4, <1>5, <1>6, <1>7, <1>8, <1>9, <1>10, <1>11, <1>12 DEF Next

THEOREM Invariant == Spec => []Inv
  BY InvInit, InvNext, PTL DEF Spec

(* The sweep's state, the pool, the wallet and the top-ups in flight keep   *)
(* their types; in particular no more is redeemed than was deposited, and   *)
(* whatever is adrift lost its receipt.                                     *)
THEOREM PoolTypeCorrect == Spec => []TypeOK
<1>1. Inv => TypeOK
  BY DEF Inv
<1> QED  BY <1>1, Invariant, PTL

(* The sweep never overfills the pool by more than one refill and one more  *)
(* for each lost receipt, however sweeps, redemptions, crashes and late     *)
(* transactions interleave.                                                 *)
THEOREM Overshoot == Spec => []BoundedOvershoot
<1>1. Inv => BoundedOvershoot
  <2> SUFFICES ASSUME Inv PROVE BoundedOvershoot
    OBVIOUS
  <2>1. TypeOK /\ Potential <= Bigger(Deposit, LowWater - 1 + Refill * (1 + lost))
    BY DEF Inv, PotentialBound
  <2>2. /\ Remaining \in Nat /\ Refill * InFlight \in Nat
        /\ Refill * (1 + lost) \in Int
    BY <2>1, Types, PoolWatchAssumption
  <2>3. Bigger(Deposit, LowWater - 1 + Refill * (1 + lost)) \in Int
    BY <2>2, PoolWatchAssumption DEF Bigger
  <2> QED  BY <2>1, <2>2, <2>3 DEF BoundedOvershoot, Potential
<1> QED  BY <1>1, Invariant, PTL
=============================================================================
