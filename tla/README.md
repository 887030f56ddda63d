# A TLA+ model of the deCDN sponsor

This directory holds TLA+ specifications of the sponsor server (`sponsord`,
`crates/server`) and of the wrapper that users run (`decdn-sponsored`,
`crates/wrapper`), the TLC configurations that check them on small instances,
and proofs, checked by TLAPS, of every safety property that holds and of both
refinements, for every value of the constants.

## 1. The system

A sponsor pays for other people's downloads. It owns a payment pool on a chain
and signs *capabilities*: tokens (`dcap1:...`) that let a client's key spend from
the pool up to a cap until an expiry. A client gets one by solving a captcha.

| Component | State | Operations | Modelled in |
|---|---|---|---|
| Capability service (`http/fund.rs`, `http/capability.rs`, `store.rs`, `issuer.rs`, `captcha.rs`) | redb table signer -> grant; the handlers in progress | `POST /fund`, `GET /capability`; `Store::open`, `put_grant`, `get_grant`; `Issuer::issue`; siteverify | `Gateway`, promise in `GrantBook` |
| Pool watch and treasury (`pool_watch.rs`, `treasury.rs`, `main.rs`) | the sweep's place in its loop; the pool and the wallet on-chain; transactions in flight | tick, `remaining`, `top_up` | `PoolWatch` |
| Pull session of the wrapper (`flow.rs`, `session.rs`, `api.rs`, `runner.rs`) | `downloads/<hash>/`: keystore, password, capability | `pull`: open, discard, `ensure_key`, get and poll the capability, save, run `decdn` | `PullSession`, promise in `Identity` |
| Installers (`assets/decdn.sh`, `decdn.ps1`, `http/installer.rs`) | two binaries and `sponsor.toml` on the user's machine; the pins rendered into the script | fetch, verify, install, write the profile | `Installer` |
| Server boot and configuration (`main.rs`, `config.rs`, `state.rs`) | the settings and the wallet of each process; the data directory's lock | `from_env`, `build`, the boot check of the pool's owner, spawn, bind | `Deployment`, `ReleasePin` in `Texts` |
| Wrapper configuration and command line (`config.rs`, `main.rs`, `runner.rs`) | the profile and binaries that it finds | load the profile, start `decdn` with it | `Installer`; `normalize_hash` in `Texts` |
| Captcha page (`assets/fund.html`) | none | its guard, one request | `Texts`, `Gateway` |
| Release pipeline | none | CI steps | not modelled |

How they interact. The wrapper makes a key, asks `GET /capability` for it and is
answered 204; it prints the link of the captcha page and polls. The page posts
the solved captcha to `POST /fund`; the server has Cloudflare verify it, signs a
capability for the key, and stores it. The next poll returns it, the wrapper
saves it beside the key and starts `decdn`, which redeems vouchers from the pool;
the first redemption freezes the key's expiry on-chain. In the background the
server's sweep keeps the pool above a low-water mark.

What is hard, and what each component must guarantee:

- *Capability service.* Handlers of one signer interleave around an await, two
  store transactions and two readings of the clock; replies get lost, commits
  fail with an unknown outcome, the process restarts. Yet a captcha must yield at
  most one capability, `POST /fund` must be idempotent, what a client was told
  must be what `GET /capability` returns, and no reply may carry a token
  that had expired when the request arrived.
- *Pull session.* A run is killed, or fails, between any two file operations, and
  the next one starts from what it finds; two runs may share the directory. Key,
  password and capability must stay a set that works together, a usable set, and a
  key that a captcha was asked for, must not be thrown away, and a key that the chain
  has frozen must not be reused.
- *Boot.* The operator restarts the server with other settings, replaces the
  wallet's keystore, starts the new process while the old one still runs, and the
  wall clock may step. The store outlives all that: its grants were signed under
  settings that are gone. Two processes must never sweep at once, a process must
  own the pool it signs for, and the old terms must end.
- *Installers.* Downloads bring anything, a run ends anywhere, `mv` may be a copy,
  two runs may overlap with different pins. Nothing unverified may be installed,
  and binaries and settings must end up belonging together.
- *Texts.* Tags, digests, clients and hashes come from outside and are rendered into
  scripts, into HTML and into file names.
- *Pool watch.* Every call may fail, and the outcome of a top-up may be unknown.
  The pool must come back above the mark and must not be overfilled.

## 2. The modules

### `GrantBook`

What the service promises, without captchas, HTTP, errors and crashes. The right
to issue (a `licence`) is obtained only while the book holds no valid grant for
the client; a licence yields at most one grant, of at most `Ttl` from the moment
it is booked; entries are replaced, never removed; only what was booked is handed
out. Two licences for one client may be outstanding at once: the race of two
`POST /fund` that the comment in `fund.rs` calls benign is allowed, and nothing
beyond it.

### `Identity`

What the state directory of a bundle stands for, without files, steps and crashes in
between: at most one key, drawn once and never again, and at most one capability,
obtained for that key while there is none. `decdn` runs on both, and they stay as
they are until it ends. The capability is given up without the key
(`LoseCapability`: a run died before it had saved it) only if the key has never
redeemed; in every other case both go in one step (`Discard`). The clock, the
sponsor's grants and the chain are those of `PullSession`.

### `Gateway`

The service. `task[t]` is a request slot with the handler's place and locals:

    POST /fund        idle -> verify -> lookup -> commit -> respond
    GET /capability   idle -> read -> judge -> respond

| Action | Code |
|---|---|
| `FundSubmit`, `Malformed` | `fund.rs` 46-50, `parse_client` (a malformed address is answered 400 by both routes) |
| `VerifyPass`, `VerifyReject`, `VerifyError` | `Turnstile::verify` and `fund.rs` 52-58: siteverify accepts each token once; on an error it may or may not have accepted it |
| `FundFound`, `FundMiss`, `FundFails` | `fund.rs` 72-83, with `Issuer::issue` (saturating) |
| `Commit`, `CommitFails` | `fund.rs` 84-93, `Store::put_grant`: one transaction; a failed commit may be durable |
| `CapabilityAsk`, `CapabilityRead`, `CapabilityReadFails`, `CapabilityJudge` | `capability.rs` 21-35: the store is read before the clock |
| `Respond`, `HangUp` | the reply arrives, or is lost; a handler is dropped only at its await |
| `Crash`, `Boot`, `Tick` | the store survives, the handlers do not; `now_unix` |

`signed`, `recorded`, `told`, `raced` and the fields `since` and `owed` are
history: no guard reads them. `raced` collects the grants overwritten by a
handler that had not seen them in its lookup, the one way in which a client may
lose what it was told.

A grant is its signer and its expiry: the token is a signature over these and over
the pool and cap that are fixed for a server, and `issued_unix` is written and
never read. The encoding of a record is left out here.

### `PullSession`

The wrapper's runs (`Proc`) for one bundle hash over the files of one directory
(`disk`), with what they see of the world: the sponsor's grants (`book`), the keys
whose captcha link was printed (`asked`), the expiry frozen on-chain (`chain`). The
n-th attempt to make a key draws password n and makes key n, so a password opens a
keystore iff the numbers are equal. The writing of the keystore itself is
`decdn-incentive`'s and taken as one step. Every other file operation is a step:
`write_private` truncates (the file is `Torn`) and then writes, `remove_dir_all` takes
the files in any order, `ensure_key` removes the keystore and then the capability.
`Die` stands for a kill and for every `?`: the run ends before the step it is at,
where `CrashPoints` allows. `Solve` books a grant where there is none or an expired
one, and may replace one that was booked at most a unit of time ago: two `POST /fund`
of one client that both find nothing store one after the other, with nothing awaited
between a lookup and its commit. `saw` and `won` in a run's state are history: what
the run judged expired, if anything, and that its pull succeeded, so that
`KeepsUsable` and `KeepsAsked` can tell why a directory is being removed. The diagram
in the module's header gives the steps; `flow.rs` 24-76 and `session.rs` 91-142 are
the code.

`HeldKey` and `HeldCapability`, at the end, map a run and its files to `Identity`. A
key is held from the moment its password is drawn, then as long as it is on disk
with its own password; a capability is held from the sponsor's answer on; and
neither is any more once a run has begun to remove the directory.

### `PoolWatch`

The sweep: `wait -> read -> allow -> send -> confirm -> wait`, `backlog` for the
ticks of tokio's interval (missed ones come in a burst), the pool, the wallet, and
`adrift`, the transactions that were sent and whose receipt was lost (to an RPC
error or a restart) and that may still be mined. `MineAdrift`, `DropAdrift` and
`Redeem` are the chain's.

### `Deployment`

`sponsord` across boots: `proc[p]` goes through the steps of `main` and `build`
(`FromEnv`, `OpenStore`, `LoadSigner`, `Connect`, `CheckOwner`, `SpawnWatch`,
`Bind`), and may end before each (`Exit`: a missing variable, a locked store, an RPC
error, a failed check, a port that is taken, a signal). `Config` is the set of
environments that the operator may start it with; nothing relates `chain_id` to
the chain that the RPC URL leads to, because nothing in the code does. `Rotate`
replaces the keystore at any moment. A request is one step here (`Return`,
`Sign`), since its interleavings are `Gateway`'s subject. Here a grant keeps the
whole settings it was signed under, and a reading of the clock (`Reading`) is off by
up to `Skew` either way, so that it may step back between two requests. The
saturation of the expiry is `Gateway`'s, and time is far from its limit here.

### `Installer`

Runs of `decdn.sh` on one machine and a `decdn-sponsored` process. A run takes, for
each of the two binaries, `FetchSums`, `CheckSums`, `FetchArchive`, `CheckArchive` and
a move into `BINDIR`, then truncates and writes the profile. The move is a `Rename`;
where the work directory is on another file system, `mv` first removes what is there
(`Unlink`), then creates the file (`CopyBegins`; `CopyRefused` if another run has
created one meanwhile) and writes it (`CopyEnds`). An unfinished copy is represented
by the run that writes it, and nothing executes it. A signal or a full disk
(`Interrupt`) ends a run at any of these points, so a binary that was there may be
gone: `cut` remembers such binaries. The other history variables are `alone` (the runs
that saw no other change `BINDIR` or the profile), `whole` (the script of the last run
to change them, if it ended alone) and `calm` (the pull began on a `whole` that has
not changed since). A torn profile is refused by `Load` or taken, since one that is
cut inside its last value may still parse. `decdn.ps1` takes the same steps in the
same order. Contents are compared, not digests: a SHA256SUMS file and an archive stand
for the release that they belong to. The pull looks up its own binary, the profile and
`decdn` at three different moments (`Launch`, `Load`, `Spawn`). `Redeploy` changes the
script that the gateway renders; the run that was started has the old one.

### `Texts`

Pure functions, translated as operators over sequences of characters:
`is_release_tag` and the digest of `ReleasePin::new`, `is_hex_of_len`,
`normalize_hash`. The state is a text being typed, so that TLC
visits every text up to a length, and the invariants compare the code's decision
with a grammar written without its splitting and stripping.

The definitions named `Faulty...` in these modules are no part of the specifications.
Each repeats the definition below it with a plausible mistake (a dropped guard, an
ignored error, a comparison off by one, a missing removal); substituting it makes the
property named for it in `PROJECT.json` fail, which shows that the property depends on
that code.

## 3. The runs

| Run (cfg) | Properties | What it shows |
|---|---|---|
| `MCGateway` | `TypeOK`, `OneCaptchaOneCapability`, `NoStaleReply`, `KeepsPromise`, `SameTokenReply`, `ImplementsGrantBook` | 1 client, 2 requests, 2 captchas, `Ttl` 2, clock to 4: grants are issued, expire, are replaced and raced for; the last expiries saturate at `U64Max` 5 |
| `MCPullSession` | `TypeOK`, `PasswordOpensKey`, `PullsFresh`, `KeepsUsable`, `KeepsAsked` | successive runs that die before any step |
| `MCPullSessionClean` | `CapabilityMatchesKey`, `FrozenKeyNotReused`, `PollEnds`, `ImplementsIdentity` | as above, but no death between two removals (see section 4), and a sponsor that answers |
| `MCPoolWatch` | `TypeOK`, `BoundedOvershoot`, `Replenished` | overshoot is bounded by the lost receipts, and the pool gets back above the mark |
| `MCTexts` | `TagIsSemver`, `NothingToEscape`, `OneDirectoryPerHash` | every text up to 8 (tags) and 6 (hashes) characters |
| `MCDeployment` | `TypeOK`, `OneSweep`, `OwnsPool`, `RepliesRecover`, `NotLongExpired`, `OldTermsEnd` | 2 processes, 1 client, 4 environments, 2 wallets, time to 5, a clock off by 1 |
| `MCInstaller` | `TypeOK`, `OnlyPinned`, `BinariesBehindProfile`, `OneScript`, `RunningAgainRepairs` | 2 overlapping runs, 2 scripts, a redeployment, a wrong download or a kill, a pull |

Bounds. `MaxTime` stops the clock late enough for two lifetimes to pass, so that every
kind of succession of grants occurs. Two tasks are enough for each pair of handlers to
interleave, and slots are reused, so that a third request follows a race; one client
is enough since handlers of different signers share nothing but captchas. The theorems
of section 5 hold for any number of each. `MaxKeys` bounds the attempts to make a key:
three allow a key that is replaced and replaced again. Time in `PullSession` is
counted in units of the five-minute margin. In `PoolWatch` amounts are a few units,
such that the pool crosses the mark several times and the wallet runs dry; `MaxLost`
and `MaxBacklog` bound the lost receipts and the missed ticks. The four environments
of `MCDeployment` are the usual one, one with a lower cap and a lifetime of 0, one
with another pool, and one with another chain and `SPONSOR_CHAIN_ID` left at its
default; five units of time are more than the longest lifetime and twice `Skew`, so a
grant of old settings is seen to end. `MaxFaults` 1 is one wrong download or one kill;
together with a redeployment (`Later`), which is no fault, it lets `MCInstaller`
combine an overlap of two scripts with a run that is cut off anywhere, over an earlier
installation or none. Two such faults in one behaviour are left to the proofs, which
cover any number for the four invariants. `HashLen` 2 stands for 64 in `MCTexts` (a
bare hash may still begin with one of its prefixes); the alphabets hold one character
or more for each class that the functions tell apart (`v` and `0` stand for the
letters and digits of a tag's suffix), and a tag of eight characters is long enough
for a suffix, and for separators in it. Symmetry is used only in runs without liveness
properties, over sets of model values. Deadlock is checked in every run: a stopped
clock never blocks a system, since a process can always crash or boot, an installation
be started again, or (`Rest`) nobody runs the command; `Done` ends the typing of a
text.

Fairness. `PullSession`: the run's own steps are scheduled, the child process ends,
time passes (`Scheduled`), and, only in `LiveSpec`, the sponsor answers each GET
(`ServerAnswers`), by whatever status: nothing in the code makes it answer, which is
what the run `pull_silent` is about. `PoolWatch`: the process is restarted after a
crash; intervals elapse; and the RPC calls succeed again and again if tried again and
again (strong fairness of each call). Weak fairness would be too weak, for a call that
may fail is not continuously enabled, and nothing stronger is needed. `Installer`:
somebody's script gets on, a run that has begun or one that a user starts again
(`LiveSpec`). `RunningAgainRepairs` is claimed of behaviours in which faults end
(`MaxFaults`) and installations no longer overlap at some point, for two that overlap
for ever may leave each other's binaries. `Gateway`, `Deployment` and `Texts` have no
liveness properties: nothing obliges anyone to make a request.

Assumption on the clock. `now_unix` is the wall clock. `Gateway` takes it never to
run backwards (a slewed, not a stepped, clock); `KeepsPromise` and the others are
claims under that assumption. `Deployment` drops it: its readings are off by up to
`Skew`, and `NotLongExpired` and `OldTermsEnd` say what remains, with a margin of
`2 * Skew`.

## 4. Where the code and its comments differ

Five runs check a statement that a comment makes and that TLC finds violated by
what the code does. `PROJECT.json` quotes the lines.

- `pull_stale`: `ensure_key` removes the locked keystore before its capability; a
  run that dies between the two leaves the old capability for the next key.
- `pull_frozen`: a `discard()` that stops half-way may leave key and password
  without the capability; the next run gets a new capability for the frozen key.
- `pull_two`: two runs for one hash that make a key at once leave a keystore beside
  the other run's password, and every later run takes them for a pair.
- `pull_silent`: the poll's deadline is looked at only after an answer, and a GET
  has no timeout of its own.
- `pool_watch_zero`: an interval of 0 is accepted and panics the sweep.

One more difference has no run, since no step or state is involved in it. The comment
on `expand_home` (`crates/wrapper/src/config.rs:52`) says that a leading `~/...` is
expanded to the home directory. The code strips one slash after the `~` and joins the
rest to the home directory, and a join with an absolute path is that path: a
`data_dir` of `~//x` is `/x`.

`MCPullSessionClean` shows the complement: exclude the deaths between two removals,
and the key, its capability and the chain always agree. Not a violation, but worth
knowing: the five-minute margin is applied to the capability of an earlier run, not to
the one just fetched, and `PullsFresh` states it so; and `RepliesRecover` needs its
premise, since the boot check does not notice a wrong `SPONSOR_CHAIN_ID`; and
`BinariesBehindProfile` has an exception, since a run that is killed inside a `mv`
between file systems has removed the earlier binary already, so that a profile of an
earlier installation may be there without it until the script is run again.

## 5. The proofs

`GatewayProofs` holds, for every `Client`, `Task`, `Solution`, `Ttl` and `U64Max`
(assumption `GatewayAssumption`: naturals, a clock that ends below `U64Max`, and a
`None` that is no client, captcha or grant):

| Theorem | Statement |
|---|---|
| `TypeCorrect` | `Spec => []TypeOK` |
| `CaptchaSafe` | `Spec => []OneCaptchaOneCapability` |
| `PromiseKept` | `Spec => []KeepsPromise` |
| `SameToken` | `Spec => []SameTokenReply` |
| `NeverStale` | `Spec => []NoStaleReply` |
| `Refines` | `Spec => ImplementsGrantBook` |

None of the invariants is inductive alone, because a handler acts on what it read
some steps ago. The strengthenings say what it carries:

- `TypeInv`: a request in progress has a client, a fund request a captcha, a
  handler at its commit, or answering 200, a grant.
- `CaptchaInv`: a handler at its lookup, verified and not yet signing, has a spent
  captcha that no capability was signed for and that no other handler at its
  lookup carries.
- `PromiseInv`: each grant of the store is its own signer's; a handler about to
  commit has seen only an expired grant, and everything its client had been told
  is *settled* (expired or raced); a handler about to judge holds a grant that is
  kept, and it is the one its client had been told, unless that is settled; and a
  reply inherits this. The key lemma is `PutGrantStable`: a commit overwrites what
  had expired when its handler looked, or a grant that it had not seen, so *kept*
  and *settled* grants stay so. From `PromiseInv` follow `KeepsPromise`,
  `SameTokenReply` and `NoStaleReply` together.
- `BookInv`, for the refinement: what a handler is going to answer with 200 has
  been in the store.

`Refines` maps the place `commit` to the licence of `GrantBook`. `FundMiss` takes
it (what had expired at the handler's sample of the clock has expired now),
`PutGrant` uses it, a failed commit or a crash forfeits it, a 200 hands out, and
every other step stutters.

`PoolWatchProofs` holds, for every mark, refill, deposit and wallet:

| Theorem | Statement |
|---|---|
| `PoolTypeCorrect` | `Spec => []TypeOK` |
| `Overshoot` | `Spec => []BoundedOvershoot` |

What remains in the pool is not bounded by an inductive invariant of its own,
because a transaction adrift may be mined at any time. The invariant bounds the
*potential*: what remains plus a refill for each top-up in flight. Mining moves a
refill from flight into the pool, a lost receipt raises the bound, and only `Send`
adds to the potential, at a moment when all but the lost top-ups are accounted for
and the mark was not reached (`PotentialBound`).

`PullSessionProofs` holds for every margin, lifetime, timeout and bound. `OneRun`
says that `Proc` is one process (runs of the command follow each other), and
`CleanDeaths` that no run dies at `wipe` or `dropcap`, the two places where files
are removed one after another; `pull_two`, `pull_stale` and `pull_frozen` show that
neither can be left out.

| Theorem | Statement |
|---|---|
| `SessionTypeCorrect` | `Spec => []TypeOK`, for any `Proc` |
| `KeyAndPassword` | `OneRun`: `Spec => []PasswordOpensKey` |
| `FreshPulls` | `OneRun`: `Spec => []PullsFresh` |
| `UsableKept` | `OneRun`: `Spec => KeepsUsable` |
| `AskedKept` | `OneRun`: `Spec => KeepsAsked` |
| `CapabilityOfKey` | `OneRun`, `CleanDeaths`: `Spec => []CapabilityMatchesKey` |
| `FrozenKeyOnce` | `OneRun`, `CleanDeaths`: `Spec => []FrozenKeyNotReused` |

The files alone do not tell whether they belong together, so the invariant says it
together with the run's place: which numbers a run carries, and that one which removes
the directory has a reason, a pull that succeeded or a capability it found expired
(`Carries`), that key and
password are a pair except while a key is made (`Paired`), that a capability that a
run is about to use was judged by that run (`Fresh`), that a saved capability is the
key's (`Matched`), and that a key which the chain knows has the capability it was
frozen with (`Frozen`). Each step has one lemma, and a theorem picks its part.

`IdentityProofs` holds under the same two conditions:

| Theorem | Statement |
|---|---|
| `OneIdentity` | `OneRun`, `CleanDeaths`: `Spec => ImplementsIdentity` |

To the invariant above it adds `SInv`, that a run which asks for a capability, saves
one or runs `decdn` has a key on disk with its password; without it a capability could
be obtained while no key is held. `NewPassword` maps to `Draw`, the sponsor's 200 to
`Obtain`, the link of the captcha to `Ask`, the start of `decdn` from a saved or a
fetched capability to `Pull`; the first step of every removal, the death of a run that
makes a key, and the loss of the password to `Discard`; a death at `save` or
`savefill` to `LoseCapability`, which needs `Frozen`: what was never saved was never
redeemed. The later removals, and the steps that fill a file or move the run, stutter.
The conditions are needed: with a death at `wipe`, what is left of the directory can
be a key without its capability (`pull_frozen`), or, at `dropcap`, a capability
without its key (`pull_stale`); with two runs the password is not the key's
(`pull_two`).

`DeploymentProofs` holds for every set of processes, clients and settings, every
assignment of owners, and every `Skew`:

| Theorem | Statement |
|---|---|
| `DeploymentTypeCorrect` | `Spec => []TypeOK` |
| `SweepsAlone` | `Spec => []OneSweep` |
| `PoolOwned` | `Spec => []OwnsPool` |
| `TokensRecover` | `Spec => []RepliesRecover` |
| `LifeBounded` | `Spec => []NotLongExpired` |
| `TermsEnd` | `Spec => []OldTermsEnd` |

Their inductive invariant says that at most one process has the store open from
`OpenStore` on, that a process past the boot check owns its pool, and of every
stored grant (`Sound`) that its signer owns its pool if its chain id is right and that
it expires at most its lifetime and `Skew` after it was signed, and (`OwnOrOld`) that
it has the terms of the process that has the store open or was signed before that
process opened it.

`InstallerProofs` holds for every set of runs and scripts, every pinning, and every
number of faults:

| Theorem | Statement |
|---|---|
| `InstallerTypeCorrect` | `Spec => []TypeOK` |
| `PinnedOnly` | `Spec => []OnlyPinned` |
| `BinariesComeFirst` | `Spec => []BinariesBehindProfile` |
| `PullsOneScript` | `Spec => []OneScript` |

What a run carries past a check is what its script pins (`Verified`); a binary that a
run has been past is there, is being replaced or was cut (`Placed`), and a run that is
alone finds what it placed itself (`Own`); `whole` names a script whose two binaries
and settings are in place (`WholeInv`); and a calm pull has read only these
(`CalmInv`).

`TextsProofs` holds for every set of characters that are typed, every length of a
digest and every text; digits, hex digits and letters are ASCII's:

| Theorem | Statement |
|---|---|
| `TextIsTyped` | `Spec => []TypeOK`: a text is a sequence over `Alphabet` |
| `TagsAreSemver` | `Spec => []TagIsSemver` |
| `NothingIsEscaped` | `Spec => []NothingToEscape` |
| `HashesHaveOneDirectory` | `Spec => []OneDirectoryPerHash` |

No induction over a text is needed, because the functions cut a text at places that a
quantifier names. The proofs turn each operation into a statement about positions
(`SubSeqFacts`, `DropFacts`, `PrefixFacts`), and each direction of an equivalence into
the choice of the places: `TwoCuts` says that splitting at every dot yields three
pieces exactly if there are two dots, `ThreePieces` which pieces they are, and
`TrimCuts`, `AfterPrefix` and `SplitAt` follow the blanks, the prefix and the case of
a hash. The first dash, and the first and last character that is no blank, exist by
the least-element principle (`Least`, `Greatest`), which follows from the
well-foundedness of `<` on the naturals.

Only model-checked: liveness under fairness (`PollEnds`, `Replenished`,
`RunningAgainRepairs`), which the prover does not reach, with `ENABLED`.

## 6. Not modelled

- *The composition of the server and the wrapper.* `PullSession` takes the sponsor as
  a grant per key that it hands out until it expires or replaces it. That is what
  `GrantBook` promises, and `Gateway` is proved to implement it, so a module with both would
  repeat the two state spaces and interleave what shares nothing but the token.
- *The clock stepping back inside a request.* `Gateway` has interleavings and a clock
  that does not run back, `Deployment` a clock that does and requests of one step.
- *Encodings*: `GrantRecord::encode` and `decode` (fixed offsets, one writer), JSON,
  TOML, the `dcap1:` token, the keystore's format (`read_address` returns the key's
  address). A store that was written by another program is out of scope.
- *`expand_home`*: three calls of the standard library; section 4 says where they and
  the comment on them differ.
- *Wording and layout*: logging, error texts, HTML, the argument vector of `decdn`,
  file modes, PATH, opening the browser.
- *`fund.html` and the CI workflows*: a static page and build steps, with no state.
- *The inside of `decdn`, redb, Cloudflare and the contracts*, which appear only as
  what this code relies on.
