----------------------------- MODULE PullSession -----------------------------
(***************************************************************************)
(* decdn-sponsored pull <hash>: the wrapper's runs for one bundle hash     *)
(* (crates/wrapper/src/flow.rs), the state directory they keep on disk     *)
(* (session.rs), their calls of GET /capability (api.rs), and what these   *)
(* runs see of the rest of the world: the sponsor's grants, the user who   *)
(* solves a captcha, the decdn client that is spawned, and the chain, on   *)
(* which a key's expiry is frozen at its first redemption.                 *)
(*                                                                         *)
(* A run dies where CrashPoints allows it: killed, or ended by the error   *)
(* of the call it is about to make.  The next run finds the files as they  *)
(* are.  Files are created, truncated, filled and removed one at a time.   *)
(*                                                                         *)
(*   idle -> check -> [wipe -> reopen ->] ensure                           *)
(*     ensure -> [dropcap ->] [newpass -> fillpass -> genkey ->] cap       *)
(*     cap -> [get -> [poll <-> sleep] -> save -> savefill ->] decdn       *)
(*     decdn -> idle (failed) or wipe -> idle (succeeded)                  *)
(***************************************************************************)
EXTENDS Integers, FiniteSets

CONSTANTS
  Proc,         \* runs of the command that may be in progress at once
  Ttl,          \* lifetime of a capability
  Margin,       \* EXPIRY_MARGIN_SECS
  PollTimeout,  \* CAPABILITY_POLL_TIMEOUT
  MaxTime,      \* bound: the wall clock stops here
  MaxKeys,      \* bound: attempts to make a key
  CrashPoints,  \* the steps before which a run may die
  None,         \* no such file
  Torn          \* a file that was truncated and not yet written

Labels == {"idle", "check", "wipe", "reopen", "ensure", "dropcap", "newpass",
           "fillpass", "genkey", "cap", "get", "poll", "sleep", "save",
           "savefill", "decdn"}

(***************************************************************************)
(* The n-th attempt draws password n and makes key n, which only password  *)
(* n opens: a keystore, a password file and an address are that number.    *)
(***************************************************************************)
Key == 1..MaxKeys

Expiry == 0..(MaxTime + Ttl)

Capability == [key : Key, expiry : Expiry]

ASSUME PullSessionAssumption ==
  /\ Ttl \in Nat /\ Margin \in Nat /\ PollTimeout \in Nat
  /\ MaxTime \in Nat /\ MaxKeys \in Nat
  /\ CrashPoints \subseteq Labels \ {"idle"}
  /\ {None, Torn} \cap (Key \cup Expiry \cup Capability) = {}
  /\ None # Torn

VARIABLES
  clock,  \* wall clock, in units of Margin
  disk,   \* <data_dir>/downloads/<hash>: is it there, and its files
  made,   \* attempts to make a key so far
  proc,   \* the runs
  asked,  \* keys whose captcha link was printed
  book,   \* the sponsor's grant for each key: its expiry, or None
  chain   \* the expiry frozen on-chain for each key, or None

vars == <<clock, disk, made, proc, asked, book, chain>>
world == <<asked, book, chain>>

Gone == [pc |-> "idle", key |-> None, cap |-> None, left |-> 0, then |-> "idle",
         asof |-> 0, saw |-> None, won |-> FALSE]

Files ==
  [dir : BOOLEAN, key : Key \cup {None}, pass : Key \cup {None, Torn},
   cap : Capability \cup {None, Torn}]

RunState ==
  [pc : Labels,
   key : Key \cup {None},         \* its client address
   cap : Capability \cup {None},  \* what the sponsor sent
   left : 0..PollTimeout,         \* until its deadline
   then : {"idle", "reopen"},     \* after discard()
   asof : 0..MaxTime,             \* history: when it last judged a capability
   saw : Capability \cup {None},  \* history: what it found saved at its start
   won : BOOLEAN]                 \* history: its pull has succeeded

TypeOK ==
  /\ clock \in 0..MaxTime
  /\ disk \in Files
  /\ made \in 0..MaxKeys
  /\ proc \in [Proc -> RunState]
  /\ asked \subseteq Key
  /\ book \in [Key -> Expiry \cup {None}]
  /\ chain \in [Key -> Expiry \cup {None}]

Init ==
  /\ clock = 0
  /\ disk = [dir |-> FALSE, key |-> None, pass |-> None, cap |-> None]
  /\ made = 0
  /\ proc = [p \in Proc |-> Gone]
  /\ asked = {}
  /\ book = [k \in Key |-> None]
  /\ chain = [k \in Key |-> None]

At(p, label) == proc[p].pc = label

Goto(p, label) == proc' = [proc EXCEPT ![p].pc = label]

(* The run ends; its process is gone. *)
End(p) == proc' = [proc EXCEPT ![p] = Gone]

(* Session::capability: a torn file is no dcap1: token. *)
SavedCapability == IF disk.cap = Torn THEN None ELSE disk.cap

(* Faulty variant: off by one. *)
FaultyNearExpiry(c) == c.expiry < clock + Margin

NearExpiry(c) == c.expiry <= clock + Margin

-----------------------------------------------------------------------------
(* Opening the state directory *)

(* Session::open creates the directory, or finds it. *)
Start(p) ==
  /\ At(p, "idle")
  /\ made < MaxKeys  \* bound
  /\ disk' = [disk EXCEPT !.dir = TRUE]
  /\ Goto(p, "check")
  /\ UNCHANGED <<clock, made, world>>

(* Faulty variant: only the capability is replaced, the key stays. *)
FaultyCheck(p) ==
  /\ At(p, "check")
  /\ disk' = IF SavedCapability # None /\ NearExpiry(SavedCapability)
               THEN [disk EXCEPT !.cap = None] ELSE disk
  /\ proc' = [proc EXCEPT ![p].pc = "ensure", ![p].asof = clock,
                          ![p].saw = SavedCapability]
  /\ UNCHANGED <<clock, made, world>>

(* A saved capability that is expired, or about to, costs the directory. *)
Check(p) ==
  /\ At(p, "check")
  /\ proc' = IF SavedCapability # None /\ NearExpiry(SavedCapability)
               THEN [proc EXCEPT ![p].pc = "wipe", ![p].then = "reopen",
                                 ![p].asof = clock, ![p].saw = SavedCapability]
               ELSE [proc EXCEPT ![p].pc = "ensure", ![p].asof = clock,
                                 ![p].saw = SavedCapability]
  /\ UNCHANGED <<clock, disk, made, world>>

(* Session::discard is remove_dir_all: the files, in any order, ...  *)
RemoveFile(p) ==
  /\ At(p, "wipe")
  /\ \/ disk.key # None  /\ disk' = [disk EXCEPT !.key = None]
     \/ disk.pass # None /\ disk' = [disk EXCEPT !.pass = None]
     \/ disk.cap # None  /\ disk' = [disk EXCEPT !.cap = None]
  /\ UNCHANGED <<clock, made, proc, world>>

(* ... then the directory. *)
RemoveDir(p) ==
  /\ At(p, "wipe")
  /\ disk.dir
  /\ disk.key = None /\ disk.pass = None /\ disk.cap = None
  /\ disk' = [disk EXCEPT !.dir = FALSE]
  /\ IF proc[p].then = "idle" THEN End(p) ELSE Goto(p, "reopen")
  /\ UNCHANGED <<clock, made, world>>

Reopen(p) ==
  /\ At(p, "reopen")
  /\ disk' = [disk EXCEPT !.dir = TRUE]
  /\ Goto(p, "ensure")
  /\ UNCHANGED <<clock, made, world>>

-----------------------------------------------------------------------------
(* Session::ensure_key *)

(* is_file is true of a torn password file, too. *)
KeyFound(p) ==
  /\ At(p, "ensure")
  /\ disk.key # None /\ disk.pass # None
  /\ proc' = [proc EXCEPT ![p].key = disk.key, ![p].pc = "cap"]
  /\ UNCHANGED <<clock, disk, made, world>>

KeyAbsent(p) ==
  /\ At(p, "ensure")
  /\ disk.key = None
  /\ Goto(p, "newpass")
  /\ UNCHANGED <<clock, disk, made, world>>

(* Faulty variant: a new password for the old keystore. *)
FaultyKeyLocked(p) ==
  /\ At(p, "ensure")
  /\ disk.key # None /\ disk.pass = None
  /\ Goto(p, "dropcap")
  /\ UNCHANGED <<clock, disk, made, world>>

(* The key cannot sign without its password: the keystore goes, ... *)
KeyLocked(p) ==
  /\ At(p, "ensure")
  /\ disk.key # None /\ disk.pass = None
  /\ disk' = [disk EXCEPT !.key = None]
  /\ Goto(p, "dropcap")
  /\ UNCHANGED <<clock, made, world>>

(* Faulty variant: the capability of the old key stays. *)
FaultyDropCapability(p) ==
  /\ At(p, "dropcap")
  /\ Goto(p, "newpass")
  /\ UNCHANGED <<clock, disk, made, world>>

(* ... and the capability bound to it. *)
DropCapability(p) ==
  /\ At(p, "dropcap")
  /\ disk' = [disk EXCEPT !.cap = None]
  /\ Goto(p, "newpass")
  /\ UNCHANGED <<clock, made, world>>

(* A fresh password; write_private truncates the file, then writes it. *)
NewPassword(p) ==
  /\ At(p, "newpass")
  /\ disk.dir
  /\ made < MaxKeys  \* bound
  /\ made' = made + 1
  /\ disk' = [disk EXCEPT !.pass = Torn]
  /\ proc' = [proc EXCEPT ![p].key = made + 1, ![p].pc = "fillpass"]
  /\ UNCHANGED <<clock, world>>

FillPassword(p) ==
  /\ At(p, "fillpass")
  /\ disk' = [disk EXCEPT !.pass = proc[p].key]
  /\ Goto(p, "genkey")
  /\ UNCHANGED <<clock, made, world>>

(* generate_and_persist (of decdn-incentive, taken as one step), not       *)
(* forced: an error if there is a keystore.                                *)
GenerateKey(p) ==
  /\ At(p, "genkey")
  /\ disk.key = None
  /\ disk' = [disk EXCEPT !.key = proc[p].key]
  /\ Goto(p, "cap")
  /\ UNCHANGED <<clock, made, world>>

-----------------------------------------------------------------------------
(* The capability: saved, or asked for *)

CapabilitySaved(p) ==
  /\ At(p, "cap")
  /\ SavedCapability # None
  /\ Goto(p, "decdn")
  /\ UNCHANGED <<clock, disk, made, world>>

CapabilityMissing(p) ==
  /\ At(p, "cap")
  /\ SavedCapability = None
  /\ Goto(p, "get")
  /\ UNCHANGED <<clock, disk, made, world>>

Granted(k) == book[k] # None /\ clock < book[k]

(* 200, to the first GET or to a poll. *)
GotToken(p) ==
  /\ At(p, "get") \/ At(p, "poll")
  /\ Granted(proc[p].key)
  /\ proc' = [proc EXCEPT ![p].pc = "save", ![p].asof = clock,
                          ![p].cap = [key |-> proc[p].key,
                                      expiry |-> book[proc[p].key]]]
  /\ UNCHANGED <<clock, disk, made, world>>

(* 204 to the first GET: the captcha link is printed and polling starts. *)
AskCaptcha(p) ==
  /\ At(p, "get")
  /\ ~Granted(proc[p].key)
  /\ asked' = asked \cup {proc[p].key}
  /\ proc' = [proc EXCEPT ![p].pc = "poll", ![p].left = PollTimeout]
  /\ UNCHANGED <<clock, disk, made, book, chain>>

(* Faulty variants: the deadline is never looked at, or each empty poll is *)
(* charged to the time left as well.                                       *)
FaultyPollEmpty(p) ==
  /\ At(p, "poll")
  /\ ~Granted(proc[p].key)
  /\ Goto(p, "sleep")
  /\ UNCHANGED <<clock, disk, made, world>>

FaultyPollCharged(p) ==
  /\ At(p, "poll")
  /\ ~Granted(proc[p].key)
  /\ proc' = [proc EXCEPT ![p].pc = "sleep", ![p].left = @ - 1]
  /\ UNCHANGED <<clock, disk, made, world>>

(* Faulty variant: a run that gives up cleans up, too. *)
FaultyPollGivesUp(p) ==
  /\ At(p, "poll")
  /\ ~Granted(proc[p].key)
  /\ IF proc[p].left = 0
       THEN proc' = [proc EXCEPT ![p].pc = "wipe", ![p].then = "idle"]
       ELSE Goto(p, "sleep")
  /\ UNCHANGED <<clock, disk, made, world>>

(* 204 to a poll: the deadline is looked at only now. *)
PollEmpty(p) ==
  /\ At(p, "poll")
  /\ ~Granted(proc[p].key)
  /\ IF proc[p].left = 0 THEN End(p) ELSE Goto(p, "sleep")
  /\ UNCHANGED <<clock, disk, made, world>>

Wake(p) ==
  /\ At(p, "sleep")
  /\ Goto(p, "poll")
  /\ UNCHANGED <<clock, disk, made, world>>

SaveCapability(p) ==
  /\ At(p, "save")
  /\ disk.dir
  /\ disk' = [disk EXCEPT !.cap = Torn]
  /\ Goto(p, "savefill")
  /\ UNCHANGED <<clock, made, world>>

FillCapability(p) ==
  /\ At(p, "savefill")
  /\ disk' = [disk EXCEPT !.cap = proc[p].cap]
  /\ Goto(p, "decdn")
  /\ UNCHANGED <<clock, made, world>>

-----------------------------------------------------------------------------
(* The pull: decdn runs on the directory's files *)

PullSucceeds(p) ==
  /\ At(p, "decdn")
  /\ proc' = [proc EXCEPT ![p].pc = "wipe", ![p].then = "idle", ![p].won = TRUE]
  /\ UNCHANGED <<clock, disk, made, world>>

(* Faulty variant: a failed pull cleans up, too. *)
FaultyPullFails(p) ==
  /\ At(p, "decdn")
  /\ proc' = [proc EXCEPT ![p].pc = "wipe", ![p].then = "idle"]
  /\ UNCHANGED <<clock, disk, made, world>>

(* The state stays for the next run. *)
PullFails(p) ==
  /\ At(p, "decdn")
  /\ End(p)
  /\ UNCHANGED <<clock, disk, made, world>>

(* Killed, or ended by an error: a call to the sponsor that fails, a file  *)
(* that cannot be written or removed, a directory that is no longer there. *)
Die(p) ==
  /\ proc[p].pc \in CrashPoints
  /\ End(p)
  /\ UNCHANGED <<clock, disk, made, world>>

-----------------------------------------------------------------------------
(* The world outside the wrapper *)

CanSign == disk.key # None /\ disk.pass = disk.key

(* decdn redeems a voucher with the capability it was given; the first     *)
(* redemption freezes the key's expiry.                                    *)
Redeem(p) ==
  /\ At(p, "decdn")
  /\ CanSign
  /\ disk.cap \in Capability /\ disk.cap.key = disk.key
  /\ clock < disk.cap.expiry
  /\ chain[disk.key] = None
  /\ chain' = [chain EXCEPT ![disk.key] = disk.cap.expiry]
  /\ UNCHANGED <<clock, disk, made, proc, asked, book>>

(* The user solves a captcha and the sponsor issues a grant.  A valid one  *)
(* is found by the lookup and stays, unless it was stored after that: in   *)
(* the race of fund.rs (GrantBook's second licence), which is over at most *)
(* a unit of time later, since nothing is awaited from the lookup on.      *)
Solve(k) ==
  /\ k \in asked
  /\ Granted(k) => clock + Ttl <= book[k] + 1
  /\ book' = [book EXCEPT ![k] = clock + Ttl]
  /\ UNCHANGED <<clock, disk, made, proc, asked, chain>>

(* The password file is deleted between two runs, the case for which       *)
(* ensure_key looks.                                                       *)
LosePassword ==
  /\ \A p \in Proc : At(p, "idle")
  /\ disk.pass # None
  /\ disk' = [disk EXCEPT !.pass = None]
  /\ UNCHANGED <<clock, made, proc, world>>

(* A second of wall clock and of the monotonic clock of the deadlines.     *)
Tick ==
  /\ clock < MaxTime \/ \E p \in Proc : proc[p].left > 0
  /\ clock' = IF clock < MaxTime THEN clock + 1 ELSE clock
  /\ proc' = [p \in Proc |-> [proc[p] EXCEPT !.left = IF @ > 0 THEN @ - 1 ELSE 0]]
  /\ UNCHANGED <<disk, made, world>>

(* Nobody runs the command any more. *)
Rest ==
  /\ \A p \in Proc : At(p, "idle")
  /\ UNCHANGED vars

Answer(p) == GotToken(p) \/ AskCaptcha(p) \/ PollEmpty(p)

EnsureKey(p) ==
  \/ KeyFound(p) \/ KeyAbsent(p) \/ KeyLocked(p) \/ DropCapability(p)
  \/ NewPassword(p) \/ FillPassword(p) \/ GenerateKey(p)

(* The run's own steps: those that wait for nobody else. *)
Advance(p) ==
  \/ Check(p) \/ RemoveFile(p) \/ RemoveDir(p) \/ Reopen(p)
  \/ EnsureKey(p)
  \/ CapabilitySaved(p) \/ CapabilityMissing(p)
  \/ Wake(p) \/ SaveCapability(p) \/ FillCapability(p)

PullEnds(p) == PullSucceeds(p) \/ PullFails(p)

Next ==
  \/ \E p \in Proc :
       \/ Start(p) \/ Advance(p) \/ Answer(p) \/ PullEnds(p)
       \/ Die(p) \/ Redeem(p)
  \/ \E k \in Key : Solve(k)
  \/ LosePassword \/ Tick \/ Rest

Spec == Init /\ [][Next]_vars

(* The wrapper is scheduled, its child ends, and time passes. *)
Scheduled ==
  /\ \A p \in Proc : WF_vars(Advance(p)) /\ WF_vars(PullEnds(p))
  /\ WF_vars(Tick)

(* The sponsor answers every GET. *)
ServerAnswers == \A p \in Proc : WF_vars(Answer(p))

LiveSpec == Spec /\ Scheduled /\ ServerAnswers

(* reqwest::Client::new() has no timeout, so a GET may wait for ever. *)
SilentSpec == Spec /\ Scheduled

-----------------------------------------------------------------------------
(* Properties *)

MakingKey(p) == proc[p].pc \in {"fillpass", "genkey"}

(* A keystore that has a password file beside it is opened by it, whatever *)
(* step the runs before died at: ensure_key writes the password before the *)
(* key and never touches the password of a key that it keeps.  (For one    *)
(* run at a time.)                                                         *)
PasswordOpensKey ==
  disk.key # None /\ disk.pass # None /\ (\A p \in Proc : ~MakingKey(p))
    => disk.pass = disk.key

Usable ==
  /\ CanSign
  /\ disk.cap \in Capability
  /\ disk.cap.key = disk.key
  /\ ~NearExpiry(disk.cap)

(* discard() after a pull that succeeded, and at the start of a run that   *)
(* found a capability at its end.                                          *)
Cleaning(p) == At(p, "wipe") /\ proc[p].won

Renewing(p) ==
  At(p, "wipe") /\ proc[p].saw # None /\ proc[p].saw.expiry <= proc[p].asof + Margin

(* A directory with a matching key, password and capability survives       *)
(* failed and dying runs until the capability nears its expiry: only a run *)
(* whose pull succeeded takes it apart, and no run asks for a new captcha  *)
(* meanwhile ("downloaded bytes are kept, and no new captcha is needed     *)
(* while the capability is valid", flow.rs).                               *)
KeepsUsable ==
  [][ Usable /\ <<disk, asked>>' # <<disk, asked>> =>
        /\ asked' = asked
        /\ (\E p \in Proc : Cleaning(p)) \/ (\A p \in Proc : At(p, "idle"))
    ]_vars

Awaited == CanSign /\ disk.key \in asked /\ disk.cap \notin Capability

(* A key for which a captcha was asked waits for its capability: a run     *)
(* that gives up at its deadline, fails or dies leaves it and its password,*)
(* and no later run asks a captcha for another key, so that a grant which  *)
(* comes late serves the next run.  Only a run that succeeded, or had found*)
(* an expired capability of that key, takes it away.                       *)
KeepsAsked ==
  [][ Awaited /\ <<disk.key, disk.pass, asked>>' # <<disk.key, disk.pass, asked>> =>
        /\ asked' = asked
        /\ \/ \E p \in Proc : Cleaning(p) \/ Renewing(p)
           \/ \A p \in Proc : At(p, "idle")
    ]_vars

(* decdn is never handed a capability that was issued to another key than  *)
(* the one in the keystore beside it.                                      *)
CapabilityMatchesKey ==
  \A p \in Proc : At(p, "decdn") =>
    disk.cap \in Capability /\ disk.cap.key = disk.key

(* decdn is never started with a key that the chain has frozen at another  *)
(* expiry than its capability's: an expired capability means a fresh key.  *)
FrozenKeyNotReused ==
  \A p \in Proc :
    At(p, "decdn") /\ disk.key # None /\ disk.cap \in Capability =>
      chain[disk.key] \in {None, disk.cap.expiry}

Waiting(p) == proc[p].pc \in {"get", "poll", "sleep"}

(* A run does not wait for its capability for ever.                        *)
PollEnds == \A p \in Proc : Waiting(p) ~> ~Waiting(p)

(* decdn is started with a capability that had its margin left when this   *)
(* run looked at the clock, if an earlier run saved it, and that had not   *)
(* expired when the sponsor answered, if this one fetched it: whatever dies*)
(* and is taken up again in between, no older judgement is relied on.      *)
(* (The fetched one is not asked for the margin.)                          *)
PullsFresh ==
  \A p \in Proc :
    At(p, "decdn") /\ disk.cap \in Capability =>
      disk.cap.expiry > proc[p].asof + (IF proc[p].cap = None THEN Margin ELSE 0)

(* What the directory stands for, for one run at a time: a key that can    *)
(* sign, or that is being made, and the capability saved for it, or about  *)
(* to be; nothing from the moment on at which it is to be discarded.       *)
theRun == CHOOSE p \in Proc : TRUE
run == proc[theRun]

HeldKey ==
  IF MakingKey(theRun) THEN run.key
  ELSE IF run.pc # "wipe" /\ CanSign THEN disk.key ELSE None

HeldCapability ==
  IF HeldKey = None THEN None
  ELSE IF run.pc \in {"save", "savefill"} THEN run.cap.expiry
  ELSE IF disk.cap \in Capability /\ disk.cap.key = HeldKey THEN disk.cap.expiry
  ELSE None

Held == INSTANCE Identity WITH
          key <- HeldKey, cap <- HeldCapability, pulling <- At(theRun, "decdn")

(* The runs implement Identity: behind all the steps and deaths there is   *)
(* one key, drawn once, with one capability that is replaced only together *)
(* with it.  (For one run at a time that does not die between two removals;*)
(* pull_stale and pull_frozen show what a directory is left as otherwise.) *)
ImplementsIdentity == Held!Spec
=============================================================================
