----------------------------- MODULE Deployment -----------------------------
(***************************************************************************)
(* sponsord across boots: what main.rs, config.rs and state.rs do from     *)
(* reading the environment to serving, with an operator who restarts the   *)
(* server with other settings and replaces the wallet's keystore, an old   *)
(* process that is still there when the new one starts, and a store that   *)
(* outlives them all.                                                      *)
(*                                                                         *)
(* A process goes through                                                  *)
(*                                                                         *)
(*   down -> config -> store -> signer -> treasury -> built -> watch       *)
(*        -> serving                                                       *)
(*                                                                         *)
(* one step for each thing that may fail or that others may come between.  *)
(* Requests are one step each here: their interleavings are Gateway's      *)
(* subject, what the settings and the clock do to them is this module's.   *)
(*                                                                         *)
(* now_unix reads the wall clock, which may step back: a reading is        *)
(* anything within Skew of the true time.                                  *)
(*                                                                         *)
(* The operators named Faulty... are no part of the specification: each is *)
(* the operator below it with a plausible mistake.                         *)
(***************************************************************************)
EXTENDS Integers, FiniteSets

CONSTANTS
  Proc,    \* server processes on one data directory
  Client,  \* signer addresses
  Chain,   \* chains with the payment contract: what an RPC URL leads to
  Pool,    \* pool ids
  Wallet,  \* keys a keystore may hold
  Owner,   \* on each chain, the owner of each pool
  Config,  \* environments the operator may start the server with
  Skew,    \* how far the wall clock may be off
  MaxTime, \* bound: time stops here
  None     \* Rust's None

(* The part of ServerConfig that boot and requests depend on.  Nothing     *)
(* relates chain_id, SPONSOR_CHAIN_ID or its default, to the chain behind  *)
(* SPONSOR_RPC_URL, and a ttl of 0 is accepted.                            *)
ServerConfig == [rpc : Chain, chain_id : Chain, pool : Pool, cap : Nat, ttl : Nat]

ASSUME DeploymentAssumption ==
  /\ Owner \in [Chain -> [Pool -> Wallet]]
  /\ Config \subseteq ServerConfig
  /\ Skew \in Nat /\ MaxTime \in Nat
  /\ None \notin ServerConfig
  /\ None \notin Wallet
  /\ None \notin [cfg : ServerConfig, signer : Wallet, expiry : Nat, born : Nat]
  /\ None \notin [proc : Proc, grant : [cfg : ServerConfig, signer : Wallet,
                                        expiry : Nat, born : Nat]]

VARIABLES
  time,     \* true time
  keystore, \* the wallet in the file SPONSOR_TREASURY_KEYSTORE
  proc,     \* the processes
  store,    \* the grants table of the data directory
  reply     \* the 200 being sent, if any

vars == <<time, keystore, proc, store, reply>>

(***************************************************************************)
(* A grant stands for its token: signer, cap, pool and chain id are signed *)
(* in it with the expiry.  That it holds the whole configuration it was    *)
(* issued under, and the true time, is history.                            *)
(***************************************************************************)
Grant == [cfg : ServerConfig, signer : Wallet, expiry : Nat, born : Nat]

Label == {"down", "config", "store", "signer", "treasury", "built", "watch",
          "serving"}

Opened    == Label \ {"down", "config"}        \* Store::open has returned
HasSigner == Opened \ {"store"}                \* the wallet is loaded
Working   == {"watch", "serving"}              \* the sweep runs

Down == [pc |-> "down", cfg |-> None, wallet |-> None, since |-> 0]

ProcState ==
  [pc : Label, cfg : ServerConfig \cup {None}, wallet : Wallet \cup {None},
   since : Nat]  \* history: when it opened the store

TypeOK ==
  /\ time \in Nat
  /\ keystore \in Wallet
  /\ proc \in [Proc -> ProcState]
  /\ \A p \in Proc : proc[p].pc # "down" => proc[p].cfg \in ServerConfig
  /\ \A p \in Proc : proc[p].pc \in HasSigner => proc[p].wallet \in Wallet
  /\ store \in [Client -> Grant \cup {None}]
  /\ reply \in [proc : Proc, grant : Grant] \cup {None}

Init ==
  /\ time = 0
  /\ keystore \in Wallet
  /\ proc = [p \in Proc |-> Down]
  /\ store = [c \in Client |-> None]
  /\ reply = None

At(p, label) == proc[p].pc = label

Goto(p, label) ==
  /\ proc' = [proc EXCEPT ![p] = [@ EXCEPT !.pc = label]]
  /\ reply' = None
  /\ UNCHANGED <<time, keystore, store>>

-----------------------------------------------------------------------------
(* main, from its first line to its last *)

(* The supervisor starts a process, in the operator's environment.         *)
FromEnv(p) ==
  /\ At(p, "down")
  /\ \E cfg \in Config :
       proc' = [proc EXCEPT ![p] = [Down EXCEPT !.pc = "config", !.cfg = cfg]]
  /\ reply' = None
  /\ UNCHANGED <<time, keystore, store>>

(* redb locks its file for as long as the Database lives. *)
Unlocked == \A q \in Proc : proc[q].pc \notin Opened

(* Faulty variant: a store that is shared with whoever has it open. *)
FaultyOpenStore(p) ==
  /\ At(p, "config")
  /\ proc' = [proc EXCEPT ![p] = [@ EXCEPT !.pc = "store", !.since = time]]
  /\ reply' = None
  /\ UNCHANGED <<time, keystore, store>>

OpenStore(p) ==
  /\ At(p, "config")
  /\ Unlocked
  /\ proc' = [proc EXCEPT ![p] = [@ EXCEPT !.pc = "store", !.since = time]]
  /\ reply' = None
  /\ UNCHANGED <<time, keystore, store>>

(* Faulty variant: a missing password is noticed only when signing. *)
FaultyLoadSigner(p) ==
  /\ At(p, "store")
  /\ \E w \in {keystore, None} :
       proc' = [proc EXCEPT ![p] = [@ EXCEPT !.pc = "signer", !.wallet = w]]
  /\ reply' = None
  /\ UNCHANGED <<time, keystore, store>>

(* The keystore is read once, for the issuer and the treasury alike. *)
LoadSigner(p) ==
  /\ At(p, "store")
  /\ proc' = [proc EXCEPT ![p] = [@ EXCEPT !.pc = "signer", !.wallet = keystore]]
  /\ reply' = None
  /\ UNCHANGED <<time, keystore, store>>

(* usdc() answers *)
Connect(p) == At(p, "signer") /\ Goto(p, "treasury")

PoolOwner(cfg) == Owner[cfg.rpc][cfg.pool]

(* Faulty variant: the owner is compared with the keystore, read again. *)
FaultyCheckOwner(p) ==
  /\ At(p, "treasury")
  /\ PoolOwner(proc[p].cfg) = keystore
  /\ Goto(p, "built")

(* The boot check: the pool is owned by the wallet that signs. *)
CheckOwner(p) ==
  /\ At(p, "treasury")
  /\ PoolOwner(proc[p].cfg) = proc[p].wallet
  /\ Goto(p, "built")

(* The sweep is spawned before the port is bound. *)
SpawnWatch(p) == At(p, "built") /\ Goto(p, "watch")

Bind(p) == At(p, "watch") /\ Goto(p, "serving")

(* Any step fails (an environment variable that is missing or malformed, a *)
(* locked store, no password, an RPC error, a failed check, a port that is *)
(* taken), or the process is stopped or dies.                              *)
Exit(p) ==
  /\ ~At(p, "down")
  /\ proc' = [proc EXCEPT ![p] = Down]
  /\ reply' = None
  /\ UNCHANGED <<time, keystore, store>>

-----------------------------------------------------------------------------
(* Requests *)

(* now_unix() *)
Reading == {n \in time - Skew..time + Skew : n >= 0}

(* Faulty variants: a grant counts in the second of its expiry, or for ever. *)
FaultyStoredLate(c, now) == store[c] # None /\ now <= store[c].expiry
FaultyStored(c, now)     == store[c] # None

(* A grant that is stored and has not expired is handed out, whatever the  *)
(* settings it was issued under.                                           *)
Stored(c, now) == store[c] # None /\ now < store[c].expiry

(* Faulty variant: the keystore is read again for each signature. *)
FaultyIssue(p, now) ==
  [cfg |-> proc[p].cfg, signer |-> keystore, expiry |-> now + proc[p].cfg.ttl,
   born |-> time]

(* Issuer::issue, with what Issuer::new was given *)
Issue(p, now) ==
  [cfg |-> proc[p].cfg, signer |-> proc[p].wallet,
   expiry |-> now + proc[p].cfg.ttl, born |-> time]

Answer(p, g) == reply' = [proc |-> p, grant |-> g]

(* POST /fund, or GET /capability, for a client that holds a grant *)
Return(p, c, now) ==
  /\ At(p, "serving")
  /\ Stored(c, now)
  /\ Answer(p, store[c])
  /\ UNCHANGED <<time, keystore, proc, store>>

(* POST /fund for one that does not *)
Sign(p, c, now) ==
  /\ At(p, "serving")
  /\ ~Stored(c, now)
  /\ store' = [store EXCEPT ![c] = Issue(p, now)]
  /\ Answer(p, Issue(p, now))
  /\ UNCHANGED <<time, keystore, proc>>

-----------------------------------------------------------------------------
(* The operator, and time *)

(* Another wallet is put in the keystore's place. *)
Rotate ==
  /\ keystore' \in Wallet \ {keystore}
  /\ reply' = None
  /\ UNCHANGED <<time, proc, store>>

Tick ==
  /\ time < MaxTime
  /\ time' = time + 1
  /\ reply' = None
  /\ UNCHANGED <<keystore, proc, store>>

Boot(p) ==
  \/ FromEnv(p) \/ OpenStore(p) \/ LoadSigner(p) \/ Connect(p)
  \/ CheckOwner(p) \/ SpawnWatch(p) \/ Bind(p)

Next ==
  \/ \E p \in Proc : Boot(p) \/ Exit(p)
  \/ \E p \in Proc, c \in Client :
       \E now \in Reading : Return(p, c, now) \/ Sign(p, c, now)
  \/ Rotate
  \/ Tick

Spec == Init /\ [][Next]_vars

-----------------------------------------------------------------------------
(* Properties *)

(* Two processes never sweep, or answer requests, at once on one data      *)
(* directory, although a new one may be started before the old one is gone *)
(* and the sweep is spawned before the port is bound: the store is opened  *)
(* first, and its lock is held to the end.  (Two sweeps would each top the *)
(* pool up.)                                                               *)
OneSweep ==
  \A p, q \in Proc : proc[p].pc \in Working /\ proc[q].pc \in Working => p = q

(* A process that sweeps or serves signs with the wallet that owns its     *)
(* pool, whatever became of the keystore and of the settings since it read *)
(* them: "confirm this wallet owns the configured pool before serving"     *)
(* (state.rs).                                                             *)
OwnsPool ==
  \A p \in Proc : proc[p].pc \in Working => PoolOwner(proc[p].cfg) = proc[p].wallet

(* The signature of every token that is handed out, also of one signed     *)
(* under earlier settings, is the pool owner's for the chain that the pool *)
(* is on, if SPONSOR_CHAIN_ID was that chain's when it was signed.  (The   *)
(* boot check says nothing of the chain id: with another one it passes all *)
(* the same, and the tokens are worthless.)                                *)
RepliesRecover ==
  reply # None /\ reply.grant.cfg.chain_id = reply.grant.cfg.rpc =>
    reply.grant.signer = Owner[reply.grant.cfg.chain_id][reply.grant.cfg.pool]

(* However the wall clock is set forward and back, no token is handed out  *)
(* later than its lifetime, and twice the error of the clock, after it was *)
(* signed.                                                                 *)
NotLongExpired ==
  reply # None /\ reply.grant.born < time =>
    time < reply.grant.born + reply.grant.cfg.ttl + 2 * Skew

(* A token with other terms than the server's own (an earlier pool, cap or *)
(* chain id, an earlier wallet) was signed before the server opened the    *)
(* store, so that the operator's change is complete one lifetime, and      *)
(* twice the error of the clock, after the restart.                        *)
OldTermsEnd ==
  reply # None =>
    LET p == reply.proc
        g == reply.grant IN
    \/ g.cfg = proc[p].cfg /\ g.signer = proc[p].wallet
    \/ time < proc[p].since + g.cfg.ttl + 2 * Skew
=============================================================================
