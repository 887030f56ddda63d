------------------------------- MODULE Gateway -------------------------------
(***************************************************************************)
(* sponsord's capability service: POST /fund and GET /capability           *)
(* (crates/server/src/http/fund.rs, http/capability.rs) over the grant     *)
(* store (store.rs), the issuer (issuer.rs) and Cloudflare's Turnstile     *)
(* (captcha.rs), with requests in progress concurrently, clients that hang *)
(* up, and a process that may crash and be restarted at any moment.        *)
(*                                                                         *)
(* A handler runs through the states of its pc:                            *)
(*                                                                         *)
(*   POST /fund        idle -> verify -> lookup -> commit -> respond       *)
(*   GET /capability   idle -> read -> judge -> respond                    *)
(*                                                                         *)
(* and an early return goes to respond with the error's status.  The steps *)
(* are cut where another handler, or the clock, can come between: at the   *)
(* captcha await, between the clock and the store, between one store       *)
(* transaction and the next, and before the reply is on the wire.          *)
(*                                                                         *)
(* The clock never runs backwards: the model is of a host whose clock is   *)
(* slewed, not stepped.                                                    *)
(*                                                                         *)
(* The operators named Faulty... are no part of the specification: each is *)
(* the operator below it with a plausible mistake, kept to show that the   *)
(* properties notice it.                                                   *)
(***************************************************************************)
EXTENDS Naturals, FiniteSets

CONSTANTS
  Client,   \* signer addresses
  Task,     \* requests that may be in progress at once
  Solution, \* captcha tokens the widget hands out
  Ttl,      \* CAPABILITY_TTL_SECS; config.rs accepts 0
  MaxTime,  \* bound: the clock stops here
  U64Max,   \* largest value of a u64
  None      \* Rust's None

ASSUME GatewayAssumption ==
  /\ Ttl \in Nat
  /\ MaxTime \in Nat
  /\ U64Max \in Nat
  /\ MaxTime < U64Max
  /\ None \notin Client
  /\ None \notin Solution
  /\ None \notin [signer : Client, expiry : 0..U64Max]

VARIABLES
  clock,  \* now_unix()
  up,     \* is the process running?
  store,  \* the grants table: signer -> GrantRecord or None
  task,   \* the handlers
  spent,  \* captcha tokens siteverify has accepted (it accepts each once)
  \* History, read by no action's guard:
  signed,   \* <<captcha token, grant>> for each capability signed
  recorded, \* grants that ever entered the store
  told,     \* grants delivered to a client in a 200
  raced     \* grants overwritten by a handler that had not seen them

vars == <<clock, up, store, task, spent, signed, recorded, told, raced>>

history == <<signed, recorded, told, raced>>

(***************************************************************************)
(* A GrantRecord.  The token is a deterministic signature over signer,     *)
(* cap, pool and expiry, and cap and pool are fixed for a server, so signer*)
(* and expiry stand for it; issued_unix is written and never read.         *)
(***************************************************************************)
Grant == [signer : Client, expiry : 0..U64Max]

(* Faulty variant: the sum leaves the range of a u64. *)
FaultySatAdd(a, b) == a + b

(* u64::saturating_add *)
SatAdd(a, b) == IF a + b > U64Max THEN U64Max ELSE a + b

(* Issuer::issue *)
Issue(c, now) == [signer |-> c, expiry |-> SatAdd(now, Ttl)]

Idle == [pc |-> "idle", client |-> None, captcha |-> None, now |-> 0,
         seen |-> None, grant |-> None, status |-> 0, since |-> 0,
         owed |-> {}]

Label == {"idle", "verify", "lookup", "commit", "read", "judge", "respond"}

Status == {0, 200, 204, 400, 403, 500}  \* 0: no reply yet

TaskState ==
  [pc : Label,
   client : Client \cup {None},
   captcha : Solution \cup {None},
   now : 0..MaxTime,          \* the handler's sample of the clock
   seen : Grant \cup {None},  \* what its lookup returned
   grant : Grant \cup {None}, \* the token it signed or answers with
   status : Status,
   since : 0..MaxTime,        \* history: when the request arrived
   owed : SUBSET Grant]       \* history: what its client had been told then

TypeOK ==
  /\ clock \in 0..MaxTime
  /\ up \in BOOLEAN
  /\ store \in [Client -> Grant \cup {None}]
  /\ task \in [Task -> TaskState]
  /\ spent \subseteq Solution
  /\ signed \subseteq Solution \X Grant
  /\ recorded \subseteq Grant
  /\ told \subseteq Grant
  /\ raced \subseteq Grant

Init ==
  /\ clock = 0
  /\ up = TRUE
  /\ store = [c \in Client |-> None]
  /\ task = [t \in Task |-> Idle]
  /\ spent = {}
  /\ signed = {}
  /\ recorded = {}
  /\ told = {}
  /\ raced = {}

At(t, label) == task[t].pc = label

Reply(t, code, g) ==
  task' = [task EXCEPT ![t] =
             [@ EXCEPT !.pc = "respond", !.status = code, !.grant = g]]

Arrive(t, label, c, s) ==
  /\ up
  /\ At(t, "idle")
  /\ task' = [task EXCEPT ![t] =
       [Idle EXCEPT !.pc = label, !.client = c, !.captcha = s,
                    !.since = clock,
                    !.owed = {g \in told : g.signer = c}]]
  /\ UNCHANGED <<clock, up, store, spent, history>>

-----------------------------------------------------------------------------
(* POST /fund *)

(* The captcha token is sent to siteverify, and the handler awaits. *)
FundSubmit(t, c, s) == Arrive(t, "verify", c, s)

(* A request whose client is no address: parse_client answers 400. *)
Malformed(t) ==
  /\ up
  /\ At(t, "idle")
  /\ task' = [task EXCEPT ![t] = [Idle EXCEPT !.pc = "respond", !.status = 400,
                                              !.since = clock]]
  /\ UNCHANGED <<clock, up, store, spent, history>>

(* success: true; the handler resumes and samples the clock. *)
VerifyPass(t) ==
  /\ At(t, "verify")
  /\ task[t].captcha \notin spent
  /\ spent' = spent \cup {task[t].captcha}
  /\ task' = [task EXCEPT ![t] = [@ EXCEPT !.pc = "lookup", !.now = clock]]
  /\ UNCHANGED <<clock, up, store, history>>

(* Faulty variant: the handler awaits the call but ignores `false`. *)
FaultyVerifyReject(t) ==
  /\ At(t, "verify")
  /\ task' = [task EXCEPT ![t] = [@ EXCEPT !.pc = "lookup", !.now = clock]]
  /\ UNCHANGED <<clock, up, store, spent, history>>

(* success: false: a token already used, or refused for another reason. *)
VerifyReject(t) ==
  /\ At(t, "verify")
  /\ Reply(t, 403, None)
  /\ UNCHANGED <<clock, up, store, spent, history>>

(* The call fails; siteverify may have accepted the token all the same. *)
VerifyError(t) ==
  /\ At(t, "verify")
  /\ spent' \in {spent, spent \cup {task[t].captcha}}
  /\ Reply(t, 500, None)
  /\ UNCHANGED <<clock, up, store, history>>

(* Faulty variants: a grant still counts in the second it expires, or no   *)
(* longer counts in the second before.                                     *)
FaultyFreshLate(rec, now)  == rec # None /\ now <= rec.expiry
FaultyFreshEarly(rec, now) == rec # None /\ now + 1 < rec.expiry

(* rec is a grant that is still valid at now. *)
Fresh(rec, now) == rec # None /\ now < rec.expiry

(* The signer already holds a valid capability: the same token again. *)
FundFound(t) ==
  LET rec == store[task[t].client] IN
  /\ At(t, "lookup")
  /\ Fresh(rec, task[t].now)
  /\ Reply(t, 200, rec)
  /\ UNCHANGED <<clock, up, store, spent, history>>

(* Faulty variant: a new capability is signed for every captcha. *)
FaultyFundMiss(t) ==
  LET rec == store[task[t].client]
      g   == Issue(task[t].client, task[t].now) IN
  /\ At(t, "lookup")
  /\ task' = [task EXCEPT ![t] =
                [@ EXCEPT !.pc = "commit", !.seen = rec, !.grant = g]]
  /\ signed' = signed \cup {<<task[t].captcha, g>>}
  /\ UNCHANGED <<clock, up, store, spent, recorded, told, raced>>

(* No grant, or an expired one: a new capability is signed. *)
FundMiss(t) ==
  LET rec == store[task[t].client]
      g   == Issue(task[t].client, task[t].now) IN
  /\ At(t, "lookup")
  /\ ~Fresh(rec, task[t].now)
  /\ task' = [task EXCEPT ![t] =
                [@ EXCEPT !.pc = "commit", !.seen = rec, !.grant = g]]
  /\ signed' = signed \cup {<<task[t].captcha, g>>}
  /\ UNCHANGED <<clock, up, store, spent, recorded, told, raced>>

(* The lookup or the signing fails. *)
FundFails(t) ==
  /\ At(t, "lookup")
  /\ Reply(t, 500, None)
  /\ UNCHANGED <<clock, up, store, spent, history>>

(* put_grant: one redb write transaction, the last writer wins. *)
PutGrant(t) ==
  LET c == task[t].client IN
  /\ store' = [store EXCEPT ![c] = task[t].grant]
  /\ recorded' = recorded \cup {task[t].grant}
  /\ raced' = IF store[c] \in {None, task[t].seen} THEN raced
                                                   ELSE raced \cup {store[c]}

Commit(t) ==
  /\ At(t, "commit")
  /\ PutGrant(t)
  /\ Reply(t, 200, task[t].grant)
  /\ UNCHANGED <<clock, up, spent, signed, told>>

(* Faulty variant: the error of put_grant is ignored. *)
FaultyCommitFails(t) ==
  /\ At(t, "commit")
  /\ PutGrant(t) \/ UNCHANGED <<store, recorded, raced>>
  /\ Reply(t, 200, task[t].grant)
  /\ UNCHANGED <<clock, up, spent, signed, told>>

(* put_grant returns an error: the transaction may be durable or not. *)
CommitFails(t) ==
  /\ At(t, "commit")
  /\ PutGrant(t) \/ UNCHANGED <<store, recorded, raced>>
  /\ Reply(t, 500, None)
  /\ UNCHANGED <<clock, up, spent, signed, told>>

-----------------------------------------------------------------------------
(* GET /capability *)

CapabilityAsk(t, c) == Arrive(t, "read", c, None)

CapabilityRead(t) ==
  /\ At(t, "read")
  /\ task' = [task EXCEPT ![t] =
                [@ EXCEPT !.pc = "judge", !.seen = store[task[t].client]]]
  /\ UNCHANGED <<clock, up, store, spent, history>>

CapabilityReadFails(t) ==
  /\ At(t, "read")
  /\ Reply(t, 500, None)
  /\ UNCHANGED <<clock, up, store, spent, history>>

(* The clock is read after the store; an expired grant counts as absent. *)
CapabilityJudge(t) ==
  LET rec == task[t].seen IN
  /\ At(t, "judge")
  /\ IF Fresh(rec, clock) THEN Reply(t, 200, rec) ELSE Reply(t, 204, None)
  /\ UNCHANGED <<clock, up, store, spent, history>>

-----------------------------------------------------------------------------
(* The connection, the process and the clock *)

(* The reply reaches the client. *)
Respond(t) ==
  /\ At(t, "respond")
  /\ told' = IF task[t].status = 200 THEN told \cup {task[t].grant} ELSE told
  /\ task' = [task EXCEPT ![t] = Idle]
  /\ UNCHANGED <<clock, up, store, spent, signed, recorded, raced>>

(* The client hangs up: the handler is dropped at its only await, where    *)
(* siteverify may have accepted the token, or its reply is lost.           *)
HangUp(t) ==
  /\ \/ /\ At(t, "verify")
        /\ spent' \in {spent, spent \cup {task[t].captcha}}
     \/ /\ At(t, "respond")
        /\ spent' = spent
  /\ task' = [task EXCEPT ![t] = Idle]
  /\ UNCHANGED <<clock, up, store, history>>

(* Only what was committed survives. *)
Crash ==
  /\ up
  /\ up' = FALSE
  /\ task' = [t \in Task |-> Idle]
  /\ UNCHANGED <<clock, store, spent, history>>

(* Store::open keeps the table that is there. *)
Boot ==
  /\ ~up
  /\ up' = TRUE
  /\ UNCHANGED <<clock, store, task, spent, history>>

Tick ==
  /\ clock < MaxTime
  /\ clock' = clock + 1
  /\ UNCHANGED <<up, store, task, spent, history>>

Fund(t) ==
  \/ \E c \in Client, s \in Solution : FundSubmit(t, c, s)
  \/ Malformed(t)
  \/ VerifyPass(t) \/ VerifyReject(t) \/ VerifyError(t)
  \/ FundFound(t) \/ FundMiss(t) \/ FundFails(t)
  \/ Commit(t) \/ CommitFails(t)

Capability(t) ==
  \/ \E c \in Client : CapabilityAsk(t, c)
  \/ CapabilityRead(t) \/ CapabilityReadFails(t) \/ CapabilityJudge(t)

Next ==
  \/ \E t \in Task : Fund(t) \/ Capability(t) \/ Respond(t) \/ HangUp(t)
  \/ Crash \/ Boot \/ Tick

Spec == Init /\ [][Next]_vars

-----------------------------------------------------------------------------
(* Properties *)

Expired(g) == g.expiry <= clock

Kept(g) == store[g.signer] = g \/ Expired(g) \/ g \in raced

(* A solved captcha yields at most one capability, however requests that   *)
(* carry the same captcha token interleave, fail and are retried: the      *)
(* verify call comes before Issuer::issue on every path of fund::submit,   *)
(* and only its `true` leads on.                                           *)
OneCaptchaOneCapability ==
  /\ \A x, y \in signed : x[1] = y[1] => x = y
  /\ \A x \in signed : x[1] \in spent

(* A 200 of POST /fund or GET /capability never carries a token that had   *)
(* already expired when the request arrived, although fund::submit samples *)
(* the clock before its lookup and capability::get after it.  (With a      *)
(* lifetime of 0, which config.rs accepts, every token is born expired.)   *)
NoStaleReply ==
  \A t \in Task :
    At(t, "respond") /\ task[t].status = 200 /\ Ttl > 0 =>
      task[t].grant.expiry > task[t].since

(* What a client was told is in the store: a token delivered in a 200 is   *)
(* what the store holds for its signer until it expires, through crashes,  *)
(* lost replies and failed commits, unless a concurrent POST /fund that    *)
(* had missed it in its lookup overwrote it (the race that the comment in  *)
(* fund::submit calls benign).                                             *)
KeepsPromise == \A g \in told : Kept(g)

(* POST /fund is idempotent per signer and GET /capability returns the     *)
(* exact token the client was given: a client that had been told g when it *)
(* asked gets g again, not 204 and not another token, until g expires or a *)
(* concurrent POST /fund overwrites it.                                    *)
SameTokenReply ==
  \A t \in Task :
    At(t, "respond") /\ task[t].status \in {200, 204} =>
      \A g \in task[t].owed :
        task[t].grant = g \/ Expired(g) \/ g \in raced

(* The service implements GrantBook: a handler holds the licence to issue  *)
(* from its missed lookup to its commit, and what clients were given had   *)
(* entered the book.                                                       *)
Licence == [t \in Task |-> IF At(t, "commit") THEN task[t].client ELSE None]

Book == INSTANCE GrantBook
          WITH book <- store, licence <- Licence, given <- told

ImplementsGrantBook == Book!Spec
=============================================================================
