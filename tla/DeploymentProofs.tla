--------------------------- MODULE DeploymentProofs ---------------------------
(***************************************************************************)
(* Deployment's invariants, for all sets of processes, clients, settings   *)
(* and wallets, and any error of the clock.                                *)
(*                                                                         *)
(* Steps of boot write one process's record and nothing else, which        *)
(* ProcStep and its lemma treat once; a request writes the store and the   *)
(* reply.                                                                  *)
(***************************************************************************)
EXTENDS Deployment, TLAPS

Checked == {"built", "watch", "serving"}  \* CheckOwner has passed

(* The store is open in one process at most. *)
LockInv ==
  \A p, q \in Proc : proc[p].pc \in Opened /\ proc[q].pc \in Opened => p = q

OwnerInv ==
  \A p \in Proc : proc[p].pc \in Checked => PoolOwner(proc[p].cfg) = proc[p].wallet

(* What a grant is, whoever signed it and whenever. *)
Recovers(g) ==
  g.cfg.chain_id = g.cfg.rpc => g.signer = Owner[g.cfg.chain_id][g.cfg.pool]

Sound(g) ==
  /\ g.born <= time
  /\ g.expiry <= g.born + Skew + g.cfg.ttl
  /\ Recovers(g)

(* A grant in the store, seen by a process that has it open, is the        *)
(* process's own or older than its opening.                                *)
Own(g, r) == r.pc = "serving" /\ g.cfg = r.cfg /\ g.signer = r.wallet

OwnOrOld(g, r) == Own(g, r) \/ g.born <= r.since

StoreInv ==
  \A c \in Client : store[c] # None =>
    /\ Sound(store[c])
    /\ \A p \in Proc : proc[p].pc \in Opened => OwnOrOld(store[c], proc[p])

SinceInv == \A p \in Proc : proc[p].since <= time

ReplyInv ==
  reply # None =>
    /\ Sound(reply.grant)
    /\ reply.grant.born = time \/ time < reply.grant.born + reply.grant.cfg.ttl + 2 * Skew
    /\ \/ Own(reply.grant, proc[reply.proc])
       \/ time < proc[reply.proc].since + reply.grant.cfg.ttl + 2 * Skew

IInv == TypeOK /\ LockInv /\ OwnerInv /\ StoreInv /\ SinceInv /\ ReplyInv

-----------------------------------------------------------------------------
(* One process moves *)

ProcStep(p, r) ==
  /\ proc' = [proc EXCEPT ![p] = r]
  /\ reply' = None
  /\ UNCHANGED <<time, keystore, store>>

(* What the new record has to satisfy. *)
Fits(p, r) ==
  /\ r \in ProcState
  /\ r.pc # "down" => r.cfg \in ServerConfig
  /\ r.pc \in HasSigner => r.wallet \in Wallet
  /\ r.pc \in Opened => \A q \in Proc \ {p} : proc[q].pc \notin Opened
  /\ r.pc \in Checked => PoolOwner(r.cfg) = r.wallet
  /\ r.since <= time
  /\ r.pc \in Opened =>
       \A c \in Client : store[c] # None => OwnOrOld(store[c], r)

LEMMA ProcStepKeeps ==
  ASSUME IInv, NEW p \in Proc, NEW r, ProcStep(p, r), Fits(p, r)
  PROVE  IInv'
<1>1. /\ \A q \in Proc : proc'[q] = IF q = p THEN r ELSE proc[q]
      /\ proc' \in [Proc -> ProcState]
  BY DEF IInv, TypeOK, ProcStep, Fits
<1>2. time' = time /\ keystore' = keystore /\ store' = store /\ reply' = None
  BY DEF ProcStep
<1>3. TypeOK'
  BY <1>1, <1>2 DEF IInv, TypeOK, Fits
<1>4. LockInv'
  BY <1>1 DEF IInv, LockInv, Fits
<1>5. OwnerInv'
  BY <1>1 DEF IInv, OwnerInv, Fits
<1>6. StoreInv'
  <2>1. \A c \in Client : store[c] # None => Sound(store[c])'
    BY <1>2 DEF IInv, StoreInv, Sound, Recovers
  <2>2. ASSUME NEW c \in Client, store[c] # None, NEW q \in Proc,
               proc'[q].pc \in Opened
        PROVE  OwnOrOld(store[c], proc'[q])
    BY <1>1, <2>2 DEF IInv, StoreInv, Fits
  <2> QED
    BY <1>2, <2>1, <2>2 DEF StoreInv, OwnOrOld, Own
<1>7. SinceInv'
  BY <1>1, <1>2 DEF IInv, SinceInv, Fits
<1>8. ReplyInv'
  BY <1>2 DEF ReplyInv
<1> QED
  BY <1>3, <1>4, <1>5, <1>6, <1>7, <1>8 DEF IInv

-----------------------------------------------------------------------------
(* Steps of boot *)

LEMMA RecordType ==
  ASSUME IInv, NEW p \in Proc
  PROVE  /\ proc[p] \in ProcState
         /\ proc[p].since <= time
         /\ proc[p].pc # "down" => proc[p].cfg \in ServerConfig
         /\ proc[p].pc \in HasSigner => proc[p].wallet \in Wallet
         /\ time \in Nat /\ keystore \in Wallet
  BY DEF IInv, TypeOK, SinceInv

(* A move between places with the store open, to the same settings.        *)
LEMMA MoveKeeps ==
  ASSUME IInv, NEW p \in Proc, NEW label \in HasSigner, Goto(p, label),
         proc[p].pc \in HasSigner \ {"serving"},
         label \in Checked => PoolOwner(proc[p].cfg) = proc[p].wallet
  PROVE  IInv'
<1> DEFINE r == [proc[p] EXCEPT !.pc = label]
<1>1. ProcStep(p, r)
  BY DEF Goto, ProcStep
<1>2. /\ r \in ProcState /\ r.pc = label /\ r.cfg = proc[p].cfg
      /\ r.wallet = proc[p].wallet /\ r.since = proc[p].since
  BY RecordType DEF ProcState, HasSigner, Opened
<1>3. proc[p].pc \in Opened
  BY DEF HasSigner
<1>4. \A c \in Client : store[c] # None => OwnOrOld(store[c], r)
  BY <1>2, <1>3 DEF IInv, StoreInv, OwnOrOld, Own
<1>5. \A q \in Proc \ {p} : proc[q].pc \notin Opened
  BY <1>3 DEF IInv, LockInv
<1>6. Fits(p, r)
  <2>1. proc[p].pc # "down"
    BY <1>3 DEF Opened
  <2> QED
    BY <1>2, <1>4, <1>5, <2>1, RecordType DEF Fits, PoolOwner
<1> QED
  BY <1>1, <1>6, ProcStepKeeps

LEMMA DownFits ==
  ASSUME IInv, NEW p \in Proc, NEW cfg \in ServerConfig
  PROVE  /\ Fits(p, Down)
         /\ Fits(p, [Down EXCEPT !.pc = "config", !.cfg = cfg])
<1> DEFINE r == [Down EXCEPT !.pc = "config", !.cfg = cfg]
<1>1. Fits(p, Down)
  BY RecordType DEF Fits, Down, ProcState, Label, HasSigner, Opened, Checked
<1>2. r.pc = "config" /\ r.cfg = cfg /\ r.since = 0 /\ r \in ProcState
  BY DEF Down, ProcState, Label
<1>3. Fits(p, r)
  BY <1>2, RecordType DEF Fits, HasSigner, Opened, Checked
<1> QED
  BY <1>1, <1>3

LEMMA BootKeeps ==
  ASSUME IInv, NEW p \in Proc, Boot(p) \/ Exit(p)
  PROVE  IInv'
<1>1. CASE FromEnv(p)
  <2>1. PICK cfg \in Config :
          proc' = [proc EXCEPT ![p] = [Down EXCEPT !.pc = "config", !.cfg = cfg]]
    BY <1>1 DEF FromEnv
  <2>2. cfg \in ServerConfig
    BY DeploymentAssumption
  <2>3. ProcStep(p, [Down EXCEPT !.pc = "config", !.cfg = cfg])
    BY <1>1, <2>1 DEF FromEnv, ProcStep
  <2> QED
    BY <2>2, <2>3, DownFits, ProcStepKeeps
<1>2. CASE OpenStore(p)
  <2> DEFINE r == [proc[p] EXCEPT !.pc = "store", !.since = time]
  <2>1. ProcStep(p, r)
    BY <1>2 DEF OpenStore, ProcStep
  <2>2. /\ r \in ProcState /\ r.pc = "store" /\ r.cfg = proc[p].cfg
        /\ r.since = time
    BY RecordType DEF ProcState, Label
  <2>3. \A q \in Proc : proc[q].pc \notin Opened
    BY <1>2 DEF OpenStore, Unlocked
  <2>4. \A c \in Client : store[c] # None => OwnOrOld(store[c], r)
    BY <2>2 DEF IInv, StoreInv, Sound, OwnOrOld
  <2>5. proc[p].cfg \in ServerConfig
    BY <1>2, RecordType DEF OpenStore, At
  <2>6. Fits(p, r)
    BY <2>2, <2>3, <2>4, <2>5, RecordType DEF Fits, HasSigner, Checked
  <2> QED
    BY <2>1, <2>6, ProcStepKeeps
<1>3. CASE LoadSigner(p)
  <2> DEFINE r == [proc[p] EXCEPT !.pc = "signer", !.wallet = keystore]
  <2>1. ProcStep(p, r)
    BY <1>3 DEF LoadSigner, ProcStep
  <2>2. /\ r \in ProcState /\ r.pc = "signer" /\ r.cfg = proc[p].cfg
        /\ r.since = proc[p].since /\ r.wallet = keystore
    BY RecordType DEF ProcState, Label
  <2>3. proc[p].pc \in Opened /\ proc[p].pc = "store"
    BY <1>3 DEF LoadSigner, At, Opened, Label
  <2>4. \A c \in Client : store[c] # None => OwnOrOld(store[c], r)
    BY <2>2, <2>3 DEF IInv, StoreInv, OwnOrOld, Own
  <2>5. \A q \in Proc \ {p} : proc[q].pc \notin Opened
    BY <2>3 DEF IInv, LockInv
  <2>6. Fits(p, r)
    BY <2>2, <2>3, <2>4, <2>5, RecordType DEF Fits, Checked
  <2> QED
    BY <2>1, <2>6, ProcStepKeeps
<1>4. CASE Connect(p)
  BY <1>4, MoveKeeps DEF Connect, At, HasSigner, Opened, Label, Checked
<1>5. CASE CheckOwner(p)
  BY <1>5, MoveKeeps DEF CheckOwner, At, HasSigner, Opened, Label
<1>6. CASE SpawnWatch(p)
  <2>1. PoolOwner(proc[p].cfg) = proc[p].wallet
    BY <1>6 DEF SpawnWatch, At, IInv, OwnerInv, Checked
  <2> QED
    BY <1>6, <2>1, MoveKeeps DEF SpawnWatch, At, HasSigner, Opened, Label
<1>7. CASE Bind(p)
  <2>1. PoolOwner(proc[p].cfg) = proc[p].wallet
    BY <1>7 DEF Bind, At, IInv, OwnerInv, Checked
  <2> QED
    BY <1>7, <2>1, MoveKeeps DEF Bind, At, HasSigner, Opened, Label
<1>8. CASE Exit(p)
  <2>1. ProcStep(p, Down)
    BY <1>8 DEF Exit, ProcStep
  <2>2. Fits(p, Down)
    BY RecordType DEF Fits, Down, ProcState, Label, HasSigner, Opened, Checked
  <2> QED
    BY <2>1, <2>2, ProcStepKeeps
<1> QED
  BY <1>1, <1>2, <1>3, <1>4, <1>5, <1>6, <1>7, <1>8 DEF Boot

-----------------------------------------------------------------------------
(* Requests *)

(* What a signature and a lookup do with the clock. *)
LEMMA ClockAtIssue ==
  ASSUME NEW t \in Nat, NEW now \in Nat, NEW ttl \in Nat, now <= t + Skew
  PROVE  now + ttl \in Nat /\ now + ttl <= t + Skew + ttl
  BY DeploymentAssumption

LEMMA ClockAtReturn ==
  ASSUME NEW t \in Nat, NEW now \in Nat, NEW born \in Nat, NEW since \in Nat,
         NEW expiry \in Nat, NEW ttl \in Nat,
         t - Skew <= now, now < expiry, expiry <= born + Skew + ttl
  PROVE  /\ t < born + ttl + 2 * Skew
         /\ born <= since => t < since + ttl + 2 * Skew
  BY DeploymentAssumption

LEMMA Readings ==
  ASSUME IInv, NEW now \in Reading
  PROVE  now \in Nat /\ time - Skew <= now /\ now <= time + Skew
  BY DeploymentAssumption DEF Reading, IInv, TypeOK

LEMMA ReturnKeeps ==
  ASSUME IInv, NEW p \in Proc, NEW c \in Client, NEW now \in Reading,
         Return(p, c, now)
  PROVE  IInv'
<1> DEFINE g == store[c]
<1>1. /\ proc[p].pc = "serving" /\ g # None /\ now < g.expiry
      /\ reply' = [proc |-> p, grant |-> g]
      /\ UNCHANGED <<time, keystore, proc, store>>
  BY DEF Return, At, Stored, Answer
<1>2. g \in Grant
  BY <1>1 DEF IInv, TypeOK
<1>3. TypeOK'
  BY <1>1, <1>2 DEF IInv, TypeOK
<1>4. LockInv' /\ OwnerInv' /\ StoreInv' /\ SinceInv'
  BY <1>1 DEF IInv, LockInv, OwnerInv, StoreInv, SinceInv, Sound, Recovers,
              OwnOrOld, Own
<1>5. Sound(g) /\ OwnOrOld(g, proc[p])
  BY <1>1 DEF IInv, StoreInv, Opened, Label
<1>6. /\ g.born \in Nat /\ g.expiry \in Nat /\ g.cfg.ttl \in Nat
      /\ proc[p].since \in Nat /\ time \in Nat
  BY <1>2, RecordType DEF Grant, ServerConfig, ProcState
<1>7. /\ time < g.born + g.cfg.ttl + 2 * Skew
      /\ g.born <= proc[p].since => time < proc[p].since + g.cfg.ttl + 2 * Skew
  BY <1>1, <1>5, <1>6, Readings, ClockAtReturn DEF Sound
<1>8. ReplyInv'
  <2>1. reply'.grant = g /\ reply'.proc = p
    BY <1>1
  <2>2. Own(g, proc[p]) \/ time < proc[p].since + g.cfg.ttl + 2 * Skew
    BY <1>5, <1>7 DEF OwnOrOld
  <2> QED
    BY <1>1, <1>5, <1>7, <2>1, <2>2 DEF ReplyInv, Sound, Recovers, Own
<1> QED
  BY <1>3, <1>4, <1>8 DEF IInv

LEMMA SignKeeps ==
  ASSUME IInv, NEW p \in Proc, NEW c \in Client, NEW now \in Reading,
         Sign(p, c, now)
  PROVE  IInv'
<1> DEFINE g == Issue(p, now)
<1>1. /\ proc[p].pc = "serving"
      /\ store' = [store EXCEPT ![c] = g]
      /\ reply' = [proc |-> p, grant |-> g]
      /\ UNCHANGED <<time, keystore, proc>>
  BY DEF Sign, At, Answer
<1>2. /\ proc[p].cfg \in ServerConfig /\ proc[p].wallet \in Wallet
      /\ time \in Nat
  BY <1>1, RecordType DEF HasSigner, Opened, Label
<1>3. /\ g.cfg = proc[p].cfg /\ g.signer = proc[p].wallet /\ g.born = time
      /\ g.expiry = now + proc[p].cfg.ttl
  BY DEF Issue
<1>4. /\ g.expiry \in Nat
      /\ g.expiry <= time + Skew + g.cfg.ttl
  <2>1. proc[p].cfg.ttl \in Nat
    BY <1>2 DEF ServerConfig
  <2> QED
    BY <1>2, <1>3, <2>1, Readings, ClockAtIssue
<1>5. g \in Grant
  BY <1>2, <1>3, <1>4 DEF Grant, Issue
<1>6. \A d \in Client : store'[d] = IF d = c THEN g ELSE store[d]
  BY <1>1 DEF IInv, TypeOK
<1>7. TypeOK'
  BY <1>1, <1>5 DEF IInv, TypeOK
<1>8. LockInv' /\ OwnerInv' /\ SinceInv'
  BY <1>1 DEF IInv, LockInv, OwnerInv, SinceInv
<1>9. Sound(g)
  <2>1. PoolOwner(proc[p].cfg) = proc[p].wallet
    BY <1>1 DEF IInv, OwnerInv, Checked
  <2>2. g.born <= time
    BY <1>2, <1>3
  <2> QED
    BY <1>3, <1>4, <2>1, <2>2 DEF Sound, Recovers, PoolOwner
<1>10. Own(g, proc[p])
  BY <1>1, <1>3 DEF Own
<1>11. \A q \in Proc : proc[q].pc \in Opened => q = p
  BY <1>1 DEF IInv, LockInv, Opened, Label
<1>12. StoreInv'
  <2>1. ASSUME NEW d \in Client, store'[d] # None
        PROVE  /\ Sound(store'[d])
               /\ \A q \in Proc : proc[q].pc \in Opened => OwnOrOld(store'[d], proc[q])
    <3>1. CASE d = c
      BY <1>6, <1>9, <1>10, <1>11, <3>1 DEF OwnOrOld
    <3>2. CASE d # c
      BY <1>6, <2>1, <3>2 DEF IInv, StoreInv
    <3> QED
      BY <3>1, <3>2
  <2> QED
    BY <1>1, <2>1 DEF StoreInv, Sound, Recovers, OwnOrOld, Own
<1>13. ReplyInv'
  <2>1. reply'.grant = g /\ reply'.proc = p
    BY <1>1
  <2> QED
    BY <1>1, <1>3, <1>9, <1>10, <2>1 DEF ReplyInv, Sound, Recovers, Own
<1> QED
  BY <1>7, <1>8, <1>12, <1>13 DEF IInv

-----------------------------------------------------------------------------
(* The invariant *)

LEMMA InitHolds ==
  ASSUME Init
  PROVE  IInv
<1>1. TypeOK
  BY DEF Init, TypeOK, Down, ProcState, Label, HasSigner, Opened
<1>2. \A p \in Proc : proc[p].pc = "down" /\ proc[p].since = 0
  BY DEF Init, Down
<1>3. \A p \in Proc : proc[p].pc \notin Opened /\ proc[p].pc \notin Checked
  BY <1>2 DEF Opened, Checked
<1>4. LockInv /\ OwnerInv
  BY <1>3 DEF LockInv, OwnerInv
<1>5. SinceInv
  BY <1>2 DEF SinceInv, Init
<1>6. StoreInv /\ ReplyInv
  BY DEF Init, StoreInv, ReplyInv
<1> QED
  BY <1>1, <1>4, <1>5, <1>6 DEF IInv

LEMMA LaterIsSound ==
  ASSUME NEW t \in Nat, NEW b \in Nat
  PROVE  b <= t => b <= t + 1
  OBVIOUS

LEMMA StepKeeps ==
  ASSUME IInv, [Next]_vars
  PROVE  IInv'
<1>1. ASSUME NEW p \in Proc, Boot(p) \/ Exit(p)
      PROVE  IInv'
  BY <1>1, BootKeeps
<1>2. ASSUME NEW p \in Proc, NEW c \in Client, NEW now \in Reading,
             Return(p, c, now) \/ Sign(p, c, now)
      PROVE  IInv'
  BY <1>2, ReturnKeeps, SignKeeps
<1>3. CASE Rotate
  BY <1>3 DEF Rotate, IInv, TypeOK, LockInv, OwnerInv, StoreInv, SinceInv,
              ReplyInv, Sound, Recovers, OwnOrOld, Own
<1>4. CASE Tick
  <2>1. time \in Nat /\ time' = time + 1 /\ time' \in Nat /\ reply' = None
    BY <1>4 DEF Tick, IInv, TypeOK
  <2>2. TypeOK' /\ LockInv' /\ OwnerInv' /\ ReplyInv'
    BY <1>4, <2>1 DEF Tick, IInv, TypeOK, LockInv, OwnerInv, ReplyInv
  <2>3. SinceInv'
    <3>1. \A p \in Proc : proc[p].since \in Nat
      BY RecordType DEF ProcState
    <3> QED
      BY <1>4, <2>1, <3>1, LaterIsSound DEF Tick, IInv, SinceInv
  <2>4. StoreInv'
    <3>1. ASSUME NEW c \in Client, store[c] # None
          PROVE  Sound(store[c])'
      <4>1. store[c].born \in Nat
        BY <3>1 DEF IInv, TypeOK, Grant
      <4>2. store[c].born <= time'
        BY <2>1, <3>1, <4>1, LaterIsSound DEF IInv, StoreInv, Sound
      <4> QED
        BY <1>4, <3>1, <4>2 DEF Tick, IInv, StoreInv, Sound, Recovers
    <3> QED
      BY <1>4, <3>1 DEF Tick, IInv, StoreInv, OwnOrOld, Own
  <2> QED
    BY <2>2, <2>3, <2>4 DEF IInv
<1>5. CASE UNCHANGED vars
  BY <1>5 DEF vars, IInv, TypeOK, LockInv, OwnerInv, StoreInv, SinceInv,
              ReplyInv, Sound, Recovers, OwnOrOld, Own
<1> QED
  BY <1>1, <1>2, <1>3, <1>4, <1>5 DEF Next

THEOREM Inductive == Spec => []IInv
<1>1. Init => IInv
  BY InitHolds
<1>2. IInv /\ [Next]_vars => IInv'
  BY StepKeeps
<1> QED
  BY <1>1, <1>2, PTL DEF Spec

-----------------------------------------------------------------------------
(* What follows *)

(* Every variable keeps its type. *)
THEOREM DeploymentTypeCorrect == Spec => []TypeOK
<1>1. IInv => TypeOK
  BY DEF IInv
<1> QED
  BY <1>1, Inductive, PTL

(* One process at most sweeps and serves on a data directory. *)
THEOREM SweepsAlone == Spec => []OneSweep
<1>1. IInv => OneSweep
  BY DEF IInv, LockInv, OneSweep, Working, Opened, Label
<1> QED
  BY <1>1, Inductive, PTL

(* Who sweeps or serves owns its pool, with whatever settings and keystore *)
(* it was started.                                                         *)
THEOREM PoolOwned == Spec => []OwnsPool
<1>1. IInv => OwnsPool
  BY DEF IInv, OwnerInv, OwnsPool, Working, Checked
<1> QED
  BY <1>1, Inductive, PTL

(* Every token handed out is signed by the owner of its pool, where the    *)
(* chain id is the chain's.                                                *)
THEOREM TokensRecover == Spec => []RepliesRecover
<1>1. IInv => RepliesRecover
  BY DEF IInv, ReplyInv, Sound, Recovers, RepliesRecover
<1> QED
  BY <1>1, Inductive, PTL

(* A clock that is off by Skew extends a token's life by twice that.       *)
THEOREM LifeBounded == Spec => []NotLongExpired
<1>1. ASSUME IInv PROVE NotLongExpired
  <2>1. SUFFICES ASSUME reply # None, reply.grant.born < time
                 PROVE  time < reply.grant.born + reply.grant.cfg.ttl + 2 * Skew
    BY DEF NotLongExpired
  <2>2. reply.grant.born \in Nat /\ time \in Nat
    BY <1>1, <2>1 DEF IInv, TypeOK, Grant
  <2>3. reply.grant.born # time
    BY <2>1, <2>2
  <2> QED
    BY <1>1, <2>1, <2>3 DEF IInv, ReplyInv
<1> QED
  BY <1>1, Inductive, PTL

(* Tokens with earlier terms end one lifetime, and twice the error of the  *)
(* clock, after the restart.                                               *)
THEOREM TermsEnd == Spec => []OldTermsEnd
<1>1. IInv => OldTermsEnd
  BY DEF IInv, ReplyInv, Own, OldTermsEnd
<1> QED
  BY <1>1, Inductive, PTL
=============================================================================
