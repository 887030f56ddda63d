--------------------------- MODULE PullSessionProofs ---------------------------
(***************************************************************************)
(* PullSession's invariants, for every lifetime, margin and number of      *)
(* attempts: the types for any number of runs, the others for one run at a *)
(* time, and those that the deaths between two removals break, without     *)
(* these deaths.                                                           *)
(***************************************************************************)
EXTENDS PullSession, TLAPS

(* One run of the command at a time. *)
OneRun == \E p : Proc = {p}

(* No run dies between the removal of one file of a key and of the next.   *)
CleanDeaths == CrashPoints \cap {"wipe", "dropcap"} = {}

Judging == {"ensure", "dropcap", "newpass", "fillpass", "genkey", "cap"}
Making  == {"dropcap", "newpass", "fillpass", "genkey"}
Drawn   == {"fillpass", "genkey"}
Asking  == {"get", "poll", "sleep"}
Saving  == {"save", "savefill"}
Ready   == {"cap", "decdn"} \cup Asking \cup Saving
Keyed   == Drawn \cup Ready

-----------------------------------------------------------------------------
(* The invariant: of a run's record l and the files d. *)

(* What a run carries, if m keys have been made, and why it cleans up. *)
Carries(l, m) ==
  /\ l.pc \in Keyed => l.key \in Key /\ l.key <= m
  /\ l.pc \in Saving => l.cap \in Capability
  /\ l.pc = "wipe" /\ l.then = "idle" => l.won
  /\ l.pc = "wipe" /\ l.then = "reopen" =>
       l.saw # None /\ l.saw.expiry <= l.asof + Margin

(* A key and a password beside it are a pair, since a key is made only     *)
(* where there is none; the run goes on with that key.                     *)
Paired(l, d) ==
  /\ d.key # None /\ d.pass # None => d.pass = d.key
  /\ l.pc \in Making => d.key = None
  /\ l.pc = "genkey" => d.pass = l.key
  /\ l.pc \in Ready => l.key = d.key

(* A capability that a run relies on, it has judged itself; it removes one *)
(* that it has judged to be near its expiry, and asks only if it has none. *)
Fresh(l, d) ==
  /\ l.pc \in {"idle", "check", "reopen"} \cup Judging => l.cap = None
  /\ l.pc = "wipe" /\ l.then = "reopen" =>
       /\ l.cap = None
       /\ d.cap \in Capability => d.cap.expiry <= l.asof + Margin
  /\ l.pc = "reopen" => d.cap = None
  /\ l.pc \in Judging /\ d.cap \in Capability => d.cap.expiry > l.asof + Margin
  /\ l.pc \in Asking \cup Saving => d.cap \notin Capability
  /\ l.pc \in Saving => l.cap.expiry > l.asof
  /\ l.pc = "decdn" /\ d.cap \in Capability =>
       d.cap.expiry > l.asof + (IF l.cap = None THEN Margin ELSE 0)

(* A capability is its key's, but while files are being removed. *)
Matched(l, d) ==
  /\ l.pc \notin {"wipe", "dropcap"} /\ d.cap \in Capability => d.cap.key = d.key
  /\ l.pc \in Saving => l.cap.key = l.key
  /\ l.pc = "decdn" => d.cap \in Capability

(* A key that the chain ch knows has the capability it was frozen with. *)
Frozen(l, d, ch) ==
  /\ l.pc # "wipe" /\ d.key # None /\ ch[d.key] # None =>
       d.cap \in Capability /\ d.cap.expiry = ch[d.key]
  /\ l.pc \in Drawn \cup Asking \cup Saving => ch[l.key] = None

Sound(l, d, ch) ==
  /\ Paired(l, d) /\ Fresh(l, d)
  /\ CleanDeaths => Matched(l, d) /\ Frozen(l, d, ch)

UsedInv ==
  /\ disk.key # None => disk.key <= made
  /\ \A k \in Key : chain[k] # None => k <= made

IInv ==
  /\ TypeOK /\ UsedInv
  /\ \A p \in Proc : Carries(proc[p], made) /\ proc[p].asof <= clock
  /\ OneRun => \A p \in Proc : Sound(proc[p], disk, chain)

-----------------------------------------------------------------------------
(* A step of a run, from proc[p] to n, with what it does to the files.     *)

RunStep(p, n) ==
  /\ proc' = [proc EXCEPT ![p] = n]
  /\ UNCHANGED <<clock, book, chain>>

Fits(n, d, m) ==
  /\ n \in RunState /\ d \in Files
  /\ Carries(n, m) /\ n.asof <= clock
  /\ d.key # None => d.key <= m
  /\ OneRun => Sound(n, d, chain)

LEMMA Facts ==
  ASSUME IInv, NEW p \in Proc
  PROVE  /\ proc[p] \in RunState /\ disk \in Files
         /\ Carries(proc[p], made) /\ proc[p].asof <= clock
         /\ OneRun => Sound(proc[p], disk, chain)
         /\ disk.key # None => disk.key <= made
         /\ clock \in 0..MaxTime /\ made \in 0..MaxKeys
         /\ clock \in Nat /\ made \in Nat
  BY PullSessionAssumption DEF IInv, TypeOK, UsedInv

LEMMA Nothing ==
  /\ None \notin Key /\ None \notin Capability /\ None \notin Expiry
  /\ Torn \notin Key /\ Torn \notin Capability /\ None # Torn
  BY PullSessionAssumption

LEMMA Saved ==
  ASSUME IInv
  PROVE  /\ SavedCapability \in Capability \cup {None}
         /\ SavedCapability # None => SavedCapability = disk.cap /\ disk.cap \in Capability
         /\ SavedCapability = None => disk.cap \notin Capability
  BY Nothing DEF SavedCapability, IInv, TypeOK, Files

LEMMA LessIsLess ==
  ASSUME NEW a \in Nat, NEW b \in Nat, NEW c \in Nat, a <= b, b <= c
  PROVE  a <= c
  OBVIOUS

LEMMA RunStepKeeps ==
  ASSUME IInv, NEW p \in Proc, NEW n, RunStep(p, n), Fits(n, disk', made'),
         made' \in 0..MaxKeys, made <= made', asked' \subseteq Key
  PROVE  IInv'
<1>1. /\ \A q \in Proc : proc'[q] = IF q = p THEN n ELSE proc[q]
      /\ proc' \in [Proc -> RunState]
  BY DEF IInv, TypeOK, RunStep, Fits
<1>2. UNCHANGED <<clock, book, chain>>
  BY DEF RunStep
<1>3. TypeOK'
  BY <1>1, <1>2 DEF IInv, TypeOK, Fits
<1>4. made \in Nat /\ made' \in Nat
  BY Facts, PullSessionAssumption
<1>5. \A k \in Key : k <= made => k <= made'
  BY <1>4, LessIsLess DEF Key
<1>6. UsedInv'
  BY <1>2, <1>5 DEF IInv, UsedInv, Fits
<1>7. \A q \in Proc : Carries(proc'[q], made') /\ proc'[q].asof <= clock'
  BY <1>1, <1>2, <1>5 DEF IInv, Carries, Fits
<1>8. ASSUME OneRun
      PROVE  \A q \in Proc : Sound(proc'[q], disk', chain')
  <2>1. \A q \in Proc : q = p
    BY <1>8 DEF OneRun
  <2>2. Sound(n, disk', chain)
    BY <1>8 DEF Fits
  <2> QED
    BY <1>1, <1>2, <2>1, <2>2
<1> QED
  BY <1>3, <1>6, <1>7, <1>8 DEF IInv

(* A step that leaves the files alone. *)
LEMMA QuietStepKeeps ==
  ASSUME IInv, NEW p \in Proc, NEW n \in RunState, RunStep(p, n),
         UNCHANGED <<disk, made>>, asked' \subseteq Key,
         n.asof \in {0, clock, proc[p].asof}, Carries(n, made),
         OneRun => Sound(n, disk, chain)
  PROVE  IInv'
<1>1. n.asof <= clock
  BY Facts
<1>2. Fits(n, disk', made')
  BY <1>1, Facts DEF Fits
<1>3. made' \in 0..MaxKeys /\ made <= made'
  BY Facts
<1> QED
  BY <1>2, <1>3, RunStepKeeps

(* n is the record l, but for its place. *)
Moved(n, l, label) ==
  /\ n.pc = label /\ n.key = l.key /\ n.cap = l.cap
  /\ n.asof = l.asof /\ n.then = l.then /\ n.saw = l.saw /\ n.won = l.won

LEMMA Goes ==
  ASSUME IInv, NEW p \in Proc, NEW label \in Labels, Goto(p, label),
         UNCHANGED <<clock, world>>
  PROVE  \E n \in RunState : /\ Moved(n, proc[p], label)
                             /\ RunStep(p, n) /\ asked' \subseteq Key
<1> DEFINE n == [proc[p] EXCEPT !.pc = label]
<1>1. n \in RunState /\ Moved(n, proc[p], label)
  BY Facts DEF RunState, Moved
<1>2. RunStep(p, n) /\ asked' \subseteq Key
  BY DEF Goto, RunStep, world, IInv, TypeOK
<1> QED
  BY <1>1, <1>2

LEMMA EndKeeps ==
  ASSUME IInv, NEW p \in Proc, End(p), UNCHANGED <<clock, disk, made, world>>,
         CleanDeaths => proc[p].pc \notin {"wipe", "dropcap"}
  PROVE  IInv'
<1>1. /\ Gone \in RunState /\ Gone.pc = "idle" /\ Gone.cap = None /\ Gone.asof = 0
  BY PullSessionAssumption DEF Gone, RunState, Labels
<1>2. RunStep(p, Gone) /\ asked' \subseteq Key
  BY DEF End, RunStep, world, IInv, TypeOK
<1>3. Carries(Gone, made)
  BY <1>1 DEF Carries, Keyed, Drawn, Ready, Asking, Saving
<1>4. ASSUME OneRun
      PROVE  Sound(Gone, disk, chain)
  BY <1>1, <1>4, Facts DEF Sound, Paired, Fresh, Matched, Frozen, Judging,
     Making, Keyed, Drawn, Ready, Asking, Saving
<1> QED
  BY <1>1, <1>2, <1>3, <1>4, QuietStepKeeps

-----------------------------------------------------------------------------
(* Steps of a run that only move it *)

LEMMA KeyAbsentKeeps ==
  ASSUME IInv, NEW p \in Proc, KeyAbsent(p)
  PROVE  IInv'
<1>1. PICK n \in RunState : /\ Moved(n, proc[p], "newpass")
                           /\ RunStep(p, n) /\ asked' \subseteq Key
  BY Goes DEF KeyAbsent, Labels
<1>2. Carries(n, made)
  BY <1>1, Facts DEF KeyAbsent, At, Moved, Carries, Keyed, Drawn, Ready, Asking, Saving
<1>3. ASSUME OneRun
      PROVE  Sound(n, disk, chain)
  BY <1>1, <1>3, Facts, Nothing, Saved DEF KeyAbsent, At, Moved, Sound, Paired, Fresh, Matched,
     Frozen, Judging, Making, Keyed, Drawn, Ready, Asking, Saving
<1> QED
  BY <1>1, <1>2, <1>3, QuietStepKeeps DEF KeyAbsent, Moved

LEMMA CapabilitySavedKeeps ==
  ASSUME IInv, NEW p \in Proc, CapabilitySaved(p)
  PROVE  IInv'
<1>1. PICK n \in RunState : /\ Moved(n, proc[p], "decdn")
                           /\ RunStep(p, n) /\ asked' \subseteq Key
  BY Goes DEF CapabilitySaved, Labels
<1>2. Carries(n, made)
  BY <1>1, Facts DEF CapabilitySaved, At, Moved, Carries, Keyed, Drawn, Ready, Asking, Saving
<1>3. ASSUME OneRun
      PROVE  Sound(n, disk, chain)
  BY <1>1, <1>3, Facts, Nothing, Saved DEF CapabilitySaved, At, Moved, Sound, Paired, Fresh, Matched,
     Frozen, Judging, Making, Keyed, Drawn, Ready, Asking, Saving
<1> QED
  BY <1>1, <1>2, <1>3, QuietStepKeeps DEF CapabilitySaved, Moved

LEMMA CapabilityMissingKeeps ==
  ASSUME IInv, NEW p \in Proc, CapabilityMissing(p)
  PROVE  IInv'
<1>1. PICK n \in RunState : /\ Moved(n, proc[p], "get")
                           /\ RunStep(p, n) /\ asked' \subseteq Key
  BY Goes DEF CapabilityMissing, Labels
<1>2. Carries(n, made)
  BY <1>1, Facts DEF CapabilityMissing, At, Moved, Carries, Keyed, Drawn, Ready, Asking, Saving
<1>3. ASSUME OneRun
      PROVE  Sound(n, disk, chain)
  <2>1. /\ proc[p].pc = "cap" /\ proc[p].key # None
        /\ disk.cap \notin Capability
    BY Facts, Nothing, Saved DEF CapabilityMissing, At, Carries, Keyed, Ready
  <2> QED
    BY <1>1, <1>3, <2>1, Facts DEF Moved, Sound, Paired, Fresh, Matched,
       Frozen, Judging, Making, Drawn, Ready, Asking, Saving
<1> QED
  BY <1>1, <1>2, <1>3, QuietStepKeeps DEF CapabilityMissing, Moved

LEMMA WakeKeeps ==
  ASSUME IInv, NEW p \in Proc, Wake(p)
  PROVE  IInv'
<1>1. PICK n \in RunState : /\ Moved(n, proc[p], "poll")
                           /\ RunStep(p, n) /\ asked' \subseteq Key
  BY Goes DEF Wake, Labels
<1>2. Carries(n, made)
  BY <1>1, Facts DEF Wake, At, Moved, Carries, Keyed, Drawn, Ready, Asking, Saving
<1>3. ASSUME OneRun
      PROVE  Sound(n, disk, chain)
  BY <1>1, <1>3, Facts, Nothing, Saved DEF Wake, At, Moved, Sound, Paired, Fresh, Matched,
     Frozen, Judging, Making, Keyed, Drawn, Ready, Asking, Saving
<1> QED
  BY <1>1, <1>2, <1>3, QuietStepKeeps DEF Wake, Moved

-----------------------------------------------------------------------------
(* Steps that change what a run carries *)

LEMMA CheckKeeps ==
  ASSUME IInv, NEW p \in Proc, Check(p)
  PROVE  IInv'
<1>1. /\ proc[p].pc = "check" /\ asked' \subseteq Key
      /\ UNCHANGED <<clock, disk, made, asked, book, chain>>
  BY DEF Check, At, world, IInv, TypeOK
<1>2. CASE SavedCapability # None /\ NearExpiry(SavedCapability)
  <2> DEFINE n == [proc[p] EXCEPT !.pc = "wipe", !.then = "reopen", !.asof = clock,
                            !.saw = SavedCapability]
  <2>1. RunStep(p, n)
    BY <1>1, <1>2 DEF Check, RunStep
  <2>2. /\ n \in RunState /\ n.pc = "wipe" /\ n.cap = proc[p].cap /\ n.asof = clock
        /\ n.then = "reopen" /\ n.saw = SavedCapability
    BY Facts, Saved DEF RunState, Labels
  <2>3. Carries(n, made)
    BY <1>2, <2>2 DEF NearExpiry, Carries, Keyed, Drawn, Ready, Asking, Saving
  <2>4. ASSUME OneRun
        PROVE  Sound(n, disk, chain)
    BY <1>1, <1>2, <2>2, <2>4, Facts, Saved DEF NearExpiry, Sound, Paired, Fresh,
       Matched, Frozen, Judging, Making, Drawn, Ready, Asking, Saving
  <2> QED
    BY <1>1, <2>1, <2>2, <2>3, <2>4, QuietStepKeeps
<1>3. CASE ~(SavedCapability # None /\ NearExpiry(SavedCapability))
  <2> DEFINE n == [proc[p] EXCEPT !.pc = "ensure", !.asof = clock,
                                  !.saw = SavedCapability]
  <2>1. RunStep(p, n)
    BY <1>1, <1>3 DEF Check, RunStep
  <2>2. n \in RunState /\ n.pc = "ensure" /\ n.cap = proc[p].cap /\ n.asof = clock
    BY Facts, Saved DEF RunState, Labels
  <2>3. Carries(n, made)
    BY <2>2 DEF Carries, Keyed, Drawn, Ready, Asking, Saving
  <2>4. ASSUME disk.cap \in Capability
        PROVE  disk.cap.expiry > clock + Margin
    <3>1. disk.cap.expiry \in Nat
      BY <2>4, PullSessionAssumption DEF Capability, Expiry
    <3>2. ~(disk.cap.expiry <= clock + Margin)
      BY <1>3, <2>4, Saved DEF NearExpiry
    <3> QED
      BY <3>1, <3>2, Facts, PullSessionAssumption
  <2>5. ASSUME OneRun
        PROVE  Sound(n, disk, chain)
    BY <1>1, <2>2, <2>4, <2>5, Facts DEF Sound, Paired, Fresh, Matched, Frozen,
       Judging, Making, Drawn, Ready, Asking, Saving
  <2> QED
    BY <1>1, <2>1, <2>2, <2>3, <2>5, QuietStepKeeps
<1> QED
  BY <1>2, <1>3

LEMMA KeyFoundKeeps ==
  ASSUME IInv, NEW p \in Proc, KeyFound(p)
  PROVE  IInv'
<1> DEFINE n == [proc[p] EXCEPT !.key = disk.key, !.pc = "cap"]
<1>1. /\ proc[p].pc = "ensure" /\ disk.key \in Key /\ asked' \subseteq Key
      /\ UNCHANGED <<disk, made>>
  BY Facts DEF KeyFound, At, Files, world, IInv, TypeOK
<1>2. RunStep(p, n)
  BY DEF KeyFound, RunStep, world
<1>3. /\ n \in RunState /\ n.pc = "cap" /\ n.key = disk.key
      /\ n.cap = proc[p].cap /\ n.asof = proc[p].asof
  BY <1>1, Facts DEF RunState, Labels
<1>4. Carries(n, made)
  BY <1>1, <1>3, Facts, Nothing DEF Carries, Saving
<1>5. ASSUME OneRun
      PROVE  Sound(n, disk, chain)
  BY <1>1, <1>3, <1>5, Facts DEF Sound, Paired, Fresh, Matched, Frozen,
     Judging, Making, Drawn, Ready, Asking, Saving
<1> QED
  BY <1>1, <1>2, <1>3, <1>4, <1>5, QuietStepKeeps

LEMMA GotTokenKeeps ==
  ASSUME IInv, NEW p \in Proc, GotToken(p)
  PROVE  IInv'
<1> DEFINE k == proc[p].key
           c == [key |-> k, expiry |-> book[k]]
           n == [proc[p] EXCEPT !.pc = "save", !.asof = clock, !.cap = c]
<1>1. /\ proc[p].pc \in Asking /\ asked' \subseteq Key
      /\ UNCHANGED <<disk, made>>
  BY DEF GotToken, At, Asking, world, IInv, TypeOK
<1>2. k \in Key /\ k <= made
  BY <1>1, Facts DEF Carries, Keyed, Ready
<1>3. book[k] \in Expiry /\ clock < book[k]
  BY <1>2 DEF GotToken, Granted, IInv, TypeOK
<1>4. c \in Capability /\ c.key = k /\ c.expiry = book[k] /\ c.expiry > clock
  <2>1. book[k] \in Nat
    BY <1>3, PullSessionAssumption DEF Expiry
  <2> QED
    BY <1>2, <1>3, <2>1, Facts DEF Capability
<1>5. RunStep(p, n)
  BY DEF GotToken, RunStep, world
<1>6. /\ n \in RunState /\ n.pc = "save" /\ n.key = k /\ n.cap = c /\ n.asof = clock
  BY <1>4, Facts DEF RunState, Labels
<1>7. Carries(n, made)
  BY <1>2, <1>4, <1>6 DEF Carries
<1>8. ASSUME OneRun
      PROVE  Sound(n, disk, chain)
  <2>1. Sound(proc[p], disk, chain)
    BY <1>8, Facts
  <2>2. Paired(n, disk) /\ Fresh(n, disk)
    BY <1>1, <1>4, <1>6, <2>1 DEF Sound, Paired, Fresh, Judging, Making, Ready, Asking, Saving
  <2>3. CleanDeaths => Matched(n, disk) /\ Frozen(n, disk, chain)
    BY <1>1, <1>4, <1>6, <2>1 DEF Sound, Matched, Frozen, Drawn, Ready, Asking, Saving
  <2> QED
    BY <2>2, <2>3 DEF Sound
<1> QED
  BY <1>1, <1>5, <1>6, <1>7, <1>8, QuietStepKeeps

LEMMA AskCaptchaKeeps ==
  ASSUME IInv, NEW p \in Proc, AskCaptcha(p)
  PROVE  IInv'
<1> DEFINE n == [proc[p] EXCEPT !.pc = "poll", !.left = PollTimeout]
<1>1. proc[p].pc = "get" /\ UNCHANGED <<disk, made>>
  BY DEF AskCaptcha, At
<1>2. proc[p].key \in Key /\ proc[p].key <= made
  BY <1>1, Facts DEF Carries, Keyed, Ready, Asking
<1>3. RunStep(p, n) /\ asked' \subseteq Key
  BY <1>2 DEF AskCaptcha, RunStep, IInv, TypeOK
<1>4. PollTimeout \in 0..PollTimeout
  BY PullSessionAssumption
<1>5. n \in RunState /\ Moved(n, proc[p], "poll") /\ n.asof = proc[p].asof
  BY <1>4, Facts DEF RunState, Labels, Moved
<1>6. Carries(n, made)
  BY <1>2, <1>5 DEF Carries, Moved, Saving
<1>7. ASSUME OneRun
      PROVE  Sound(n, disk, chain)
  BY <1>1, <1>5, <1>7, Facts DEF Moved, Sound, Paired, Fresh, Matched,
     Frozen, Judging, Making, Drawn, Ready, Asking, Saving
<1> QED
  BY <1>1, <1>3, <1>5, <1>6, <1>7, QuietStepKeeps

LEMMA PollEmptyKeeps ==
  ASSUME IInv, NEW p \in Proc, PollEmpty(p)
  PROVE  IInv'
<1>1. proc[p].pc = "poll" /\ UNCHANGED <<clock, disk, made, world>>
  BY DEF PollEmpty, At
<1>2. CASE proc[p].left = 0
  BY <1>1, <1>2, EndKeeps DEF PollEmpty
<1>3. CASE proc[p].left # 0
  <2>1. PICK n \in RunState : /\ Moved(n, proc[p], "sleep")
                             /\ RunStep(p, n) /\ asked' \subseteq Key
    BY <1>1, <1>3, Goes DEF PollEmpty, Labels
  <2>2. Carries(n, made)
    BY <1>1, <2>1, Facts DEF Moved, Carries, Keyed, Ready, Asking, Saving
  <2>3. ASSUME OneRun
        PROVE  Sound(n, disk, chain)
    BY <1>1, <2>1, <2>3, Facts DEF Moved, Sound, Paired, Fresh, Matched,
       Frozen, Judging, Making, Drawn, Ready, Asking, Saving
  <2> QED
    BY <1>1, <2>1, <2>2, <2>3, QuietStepKeeps DEF Moved
<1> QED
  BY <1>2, <1>3

LEMMA PullSucceedsKeeps ==
  ASSUME IInv, NEW p \in Proc, PullSucceeds(p)
  PROVE  IInv'
<1> DEFINE n == [proc[p] EXCEPT !.pc = "wipe", !.then = "idle", !.won = TRUE]
<1>1. proc[p].pc = "decdn" /\ UNCHANGED <<disk, made>> /\ asked' \subseteq Key
  BY DEF PullSucceeds, At, world, IInv, TypeOK
<1>2. RunStep(p, n)
  BY DEF PullSucceeds, RunStep, world
<1>3. /\ n \in RunState /\ n.pc = "wipe" /\ n.then = "idle" /\ n.won
      /\ n.asof = proc[p].asof
  BY Facts DEF RunState, Labels
<1>4. Carries(n, made)
  BY <1>3 DEF Carries, Keyed, Drawn, Ready, Asking, Saving
<1>5. ASSUME OneRun
      PROVE  Sound(n, disk, chain)
  BY <1>1, <1>3, <1>5, Facts DEF Sound, Paired, Fresh, Matched, Frozen,
     Judging, Making, Drawn, Ready, Asking, Saving
<1> QED
  BY <1>1, <1>2, <1>3, <1>4, <1>5, QuietStepKeeps

LEMMA DieKeeps ==
  ASSUME IInv, NEW p \in Proc, PullFails(p) \/ Die(p)
  PROVE  IInv'
<1>1. End(p) /\ UNCHANGED <<clock, disk, made, world>>
  BY DEF PullFails, Die
<1>2. CleanDeaths => proc[p].pc \notin {"wipe", "dropcap"}
  BY DEF PullFails, At, Die, CleanDeaths
<1> QED
  BY <1>1, <1>2, EndKeeps

-----------------------------------------------------------------------------
(* Steps that change the files *)

(* n is the record l at its new place; the key of d is of an attempt made. *)
LEMMA FileStepKeeps ==
  ASSUME IInv, NEW p \in Proc, NEW label \in Labels, Goto(p, label),
         UNCHANGED <<clock, made, world>>, disk' \in Files,
         disk'.key # None => disk'.key <= made,
         \A n \in RunState : Moved(n, proc[p], label) =>
           /\ Carries(n, made)
           /\ OneRun => Sound(n, disk', chain)
  PROVE  IInv'
<1>1. PICK n \in RunState : /\ Moved(n, proc[p], label)
                           /\ RunStep(p, n) /\ asked' \subseteq Key
  BY Goes
<1>2. made' = made /\ made' \in 0..MaxKeys /\ made <= made'
  BY Facts
<1>3. Fits(n, disk', made')
  BY <1>1, <1>2, Facts DEF Fits, Moved
<1> QED
  BY <1>1, <1>2, <1>3, RunStepKeeps

(* Files after a change of one of them. *)
LEMMA FileType ==
  ASSUME NEW d \in Files
  PROVE  /\ \A b \in BOOLEAN : LET e == [d EXCEPT !.dir = b] IN
              e \in Files /\ e.key = d.key /\ e.pass = d.pass /\ e.cap = d.cap
         /\ \A k \in Key \cup {None} : LET e == [d EXCEPT !.key = k] IN
              e \in Files /\ e.key = k /\ e.pass = d.pass /\ e.cap = d.cap
         /\ \A k \in Key \cup {None, Torn} : LET e == [d EXCEPT !.pass = k] IN
              e \in Files /\ e.key = d.key /\ e.pass = k /\ e.cap = d.cap
         /\ \A c \in Capability \cup {None, Torn} : LET e == [d EXCEPT !.cap = c] IN
              e \in Files /\ e.key = d.key /\ e.pass = d.pass /\ e.cap = c
  BY DEF Files

LEMMA StartKeeps ==
  ASSUME IInv, NEW p \in Proc, Start(p)
  PROVE  IInv'
<1>1. proc[p].pc = "idle"
  BY DEF Start, At
<1>2. /\ disk' \in Files /\ disk'.key = disk.key /\ disk'.pass = disk.pass
      /\ disk'.cap = disk.cap
  BY Facts, FileType DEF Start
<1>3. ASSUME NEW n \in RunState, Moved(n, proc[p], "check")
      PROVE  /\ Carries(n, made)
             /\ OneRun => Sound(n, disk', chain)
  <2>1. Carries(n, made)
    BY <1>1, <1>3, Facts DEF Moved, Carries, Keyed, Drawn, Ready, Asking, Saving
  <2>2. ASSUME OneRun
        PROVE  Sound(n, disk', chain)
    BY <1>1, <1>2, <1>3, <2>2, Facts, Nothing DEF Moved, Sound, Paired, Fresh,
       Matched, Frozen, Judging, Making, Drawn, Ready, Asking, Saving
  <2> QED
    BY <2>1, <2>2
<1>4. Goto(p, "check") /\ UNCHANGED <<clock, made, world>>
  BY DEF Start
<1> QED
  BY <1>1, <1>2, <1>3, <1>4, Facts, FileStepKeeps DEF Labels

LEMMA ReopenKeeps ==
  ASSUME IInv, NEW p \in Proc, Reopen(p)
  PROVE  IInv'
<1>1. proc[p].pc = "reopen"
  BY DEF Reopen, At
<1>2. /\ disk' \in Files /\ disk'.key = disk.key /\ disk'.pass = disk.pass
      /\ disk'.cap = disk.cap
  BY Facts, FileType DEF Reopen
<1>3. ASSUME NEW n \in RunState, Moved(n, proc[p], "ensure")
      PROVE  /\ Carries(n, made)
             /\ OneRun => Sound(n, disk', chain)
  <2>1. Carries(n, made)
    BY <1>1, <1>3, Facts DEF Moved, Carries, Keyed, Drawn, Ready, Asking, Saving
  <2>2. ASSUME OneRun
        PROVE  Sound(n, disk', chain)
    BY <1>1, <1>2, <1>3, <2>2, Facts, Nothing DEF Moved, Sound, Paired, Fresh,
       Matched, Frozen, Judging, Making, Drawn, Ready, Asking, Saving
  <2> QED
    BY <2>1, <2>2
<1>4. Goto(p, "ensure") /\ UNCHANGED <<clock, made, world>>
  BY DEF Reopen
<1> QED
  BY <1>1, <1>2, <1>3, <1>4, Facts, FileStepKeeps DEF Labels

LEMMA KeyLockedKeeps ==
  ASSUME IInv, NEW p \in Proc, KeyLocked(p)
  PROVE  IInv'
<1>1. proc[p].pc = "ensure"
  BY DEF KeyLocked, At
<1>2. /\ disk' \in Files /\ disk'.key = None /\ disk'.pass = disk.pass
      /\ disk'.cap = disk.cap
  BY Facts, FileType DEF KeyLocked
<1>3. ASSUME NEW n \in RunState, Moved(n, proc[p], "dropcap")
      PROVE  /\ Carries(n, made)
             /\ OneRun => Sound(n, disk', chain)
  <2>1. Carries(n, made)
    BY <1>1, <1>3, Facts DEF Moved, Carries, Keyed, Drawn, Ready, Asking, Saving
  <2>2. ASSUME OneRun
        PROVE  Sound(n, disk', chain)
    BY <1>1, <1>2, <1>3, <2>2, Facts, Nothing DEF Moved, Sound, Paired, Fresh,
       Matched, Frozen, Judging, Making, Drawn, Ready, Asking, Saving
  <2> QED
    BY <2>1, <2>2
<1>4. Goto(p, "dropcap") /\ UNCHANGED <<clock, made, world>>
  BY DEF KeyLocked
<1> QED
  BY <1>1, <1>2, <1>3, <1>4, Facts, FileStepKeeps DEF Labels

LEMMA DropCapabilityKeeps ==
  ASSUME IInv, NEW p \in Proc, DropCapability(p)
  PROVE  IInv'
<1>1. proc[p].pc = "dropcap"
  BY DEF DropCapability, At
<1>2. /\ disk' \in Files /\ disk'.key = disk.key /\ disk'.pass = disk.pass
      /\ disk'.cap = None
  BY Facts, FileType DEF DropCapability
<1>3. ASSUME NEW n \in RunState, Moved(n, proc[p], "newpass")
      PROVE  /\ Carries(n, made)
             /\ OneRun => Sound(n, disk', chain)
  <2>1. Carries(n, made)
    BY <1>1, <1>3, Facts DEF Moved, Carries, Keyed, Drawn, Ready, Asking, Saving
  <2>2. ASSUME OneRun
        PROVE  Sound(n, disk', chain)
    BY <1>1, <1>2, <1>3, <2>2, Facts, Nothing DEF Moved, Sound, Paired, Fresh,
       Matched, Frozen, Judging, Making, Drawn, Ready, Asking, Saving
  <2> QED
    BY <2>1, <2>2
<1>4. Goto(p, "newpass") /\ UNCHANGED <<clock, made, world>>
  BY DEF DropCapability
<1> QED
  BY <1>1, <1>2, <1>3, <1>4, Facts, FileStepKeeps DEF Labels

LEMMA FillPasswordKeeps ==
  ASSUME IInv, NEW p \in Proc, FillPassword(p)
  PROVE  IInv'
<1>1. proc[p].pc = "fillpass" /\ proc[p].key \in Key
  BY Facts DEF FillPassword, At, Carries, Keyed, Drawn
<1>2. /\ disk' \in Files /\ disk'.key = disk.key /\ disk'.pass = proc[p].key
      /\ disk'.cap = disk.cap
  BY <1>1, Facts, FileType DEF FillPassword
<1>3. ASSUME NEW n \in RunState, Moved(n, proc[p], "genkey")
      PROVE  /\ Carries(n, made)
             /\ OneRun => Sound(n, disk', chain)
  <2>1. Carries(n, made)
    BY <1>1, <1>3, Facts DEF Moved, Carries, Keyed, Drawn, Ready, Asking, Saving
  <2>2. ASSUME OneRun
        PROVE  Sound(n, disk', chain)
    BY <1>1, <1>2, <1>3, <2>2, Facts, Nothing DEF Moved, Sound, Paired, Fresh,
       Matched, Frozen, Judging, Making, Drawn, Ready, Asking, Saving
  <2> QED
    BY <2>1, <2>2
<1>4. Goto(p, "genkey") /\ UNCHANGED <<clock, made, world>>
  BY DEF FillPassword
<1> QED
  BY <1>1, <1>2, <1>3, <1>4, Facts, FileStepKeeps DEF Labels

LEMMA GenerateKeyKeeps ==
  ASSUME IInv, NEW p \in Proc, GenerateKey(p)
  PROVE  IInv'
<1>1. /\ proc[p].pc = "genkey" /\ disk.key = None
      /\ proc[p].key \in Key /\ proc[p].key <= made
  BY Facts DEF GenerateKey, At, Carries, Keyed, Drawn
<1>2. /\ disk' \in Files /\ disk'.key = proc[p].key /\ disk'.pass = disk.pass
      /\ disk'.cap = disk.cap
  BY <1>1, Facts, FileType DEF GenerateKey
<1>3. ASSUME NEW n \in RunState, Moved(n, proc[p], "cap")
      PROVE  /\ Carries(n, made)
             /\ OneRun => Sound(n, disk', chain)
  <2>1. Carries(n, made)
    BY <1>1, <1>3, Facts DEF Moved, Carries, Keyed, Drawn, Ready, Asking, Saving
  <2>2. ASSUME OneRun
        PROVE  Sound(n, disk', chain)
    <3>1. disk.cap \in Capability => disk.cap.key # None
      BY Nothing DEF Capability
    <3> QED
      BY <3>1, <1>1, <1>2, <1>3, <2>2, Facts, Nothing DEF Moved, Sound, Paired, Fresh,
         Matched, Frozen, Judging, Making, Drawn, Ready, Asking, Saving
  <2> QED
    BY <2>1, <2>2
<1>4. Goto(p, "cap") /\ UNCHANGED <<clock, made, world>>
  BY DEF GenerateKey
<1> QED
  BY <1>1, <1>2, <1>3, <1>4, Facts, FileStepKeeps DEF Labels

LEMMA SaveCapabilityKeeps ==
  ASSUME IInv, NEW p \in Proc, SaveCapability(p)
  PROVE  IInv'
<1>1. proc[p].pc = "save" /\ proc[p].key \in Key
  BY Facts DEF SaveCapability, At, Carries, Keyed, Ready, Saving
<1>2. /\ disk' \in Files /\ disk'.key = disk.key /\ disk'.pass = disk.pass
      /\ disk'.cap = Torn
  BY Facts, FileType DEF SaveCapability
<1>3. ASSUME NEW n \in RunState, Moved(n, proc[p], "savefill")
      PROVE  /\ Carries(n, made)
             /\ OneRun => Sound(n, disk', chain)
  <2>1. Carries(n, made)
    BY <1>1, <1>3, Facts DEF Moved, Carries, Keyed, Drawn, Ready, Asking, Saving
  <2>2. ASSUME OneRun
        PROVE  Sound(n, disk', chain)
    BY <1>1, <1>2, <1>3, <2>2, Facts, Nothing DEF Moved, Sound, Paired, Fresh,
       Matched, Frozen, Judging, Making, Drawn, Ready, Asking, Saving
  <2> QED
    BY <2>1, <2>2
<1>4. Goto(p, "savefill") /\ UNCHANGED <<clock, made, world>>
  BY DEF SaveCapability
<1> QED
  BY <1>1, <1>2, <1>3, <1>4, Facts, FileStepKeeps DEF Labels

LEMMA FillCapabilityKeeps ==
  ASSUME IInv, NEW p \in Proc, FillCapability(p)
  PROVE  IInv'
<1>1. /\ proc[p].pc = "savefill" /\ proc[p].key \in Key
      /\ proc[p].cap \in Capability
  BY Facts DEF FillCapability, At, Carries, Keyed, Ready, Saving
<1>2. /\ disk' \in Files /\ disk'.key = disk.key /\ disk'.pass = disk.pass
      /\ disk'.cap = proc[p].cap
  BY <1>1, Facts, FileType DEF FillCapability
<1>3. ASSUME NEW n \in RunState, Moved(n, proc[p], "decdn")
      PROVE  /\ Carries(n, made)
             /\ OneRun => Sound(n, disk', chain)
  <2>1. Carries(n, made)
    BY <1>1, <1>3, Facts DEF Moved, Carries, Keyed, Drawn, Ready, Asking, Saving
  <2>2. ASSUME OneRun
        PROVE  Sound(n, disk', chain)
    <3>1. /\ proc[p].asof \in Nat /\ proc[p].cap.expiry \in Nat
          /\ proc[p].cap # None
      BY <1>1, Facts, Nothing, PullSessionAssumption DEF RunState, Capability, Expiry
    <3>2. proc[p].cap.expiry > proc[p].asof => proc[p].cap.expiry > proc[p].asof + 0
      BY <3>1
    <3> QED
      BY <3>1, <3>2, <1>1, <1>2, <1>3, <2>2, Facts, Nothing DEF Moved, Sound, Paired, Fresh,
         Matched, Frozen, Judging, Making, Drawn, Ready, Asking, Saving
  <2> QED
    BY <2>1, <2>2
<1>4. Goto(p, "decdn") /\ UNCHANGED <<clock, made, world>>
  BY DEF FillCapability
<1> QED
  BY <1>1, <1>2, <1>3, <1>4, Facts, FileStepKeeps DEF Labels

LEMMA RemoveFileKeeps ==
  ASSUME IInv, NEW p \in Proc, RemoveFile(p)
  PROVE  IInv'
<1>1. /\ proc[p].pc = "wipe" /\ UNCHANGED <<clock, made, proc, world>>
      /\ proc[p] \in RunState
  BY Facts DEF RemoveFile, At
<1>2. /\ disk' \in Files
      /\ disk'.key \in {disk.key, None} /\ disk'.pass \in {disk.pass, None}
      /\ disk'.cap \in {disk.cap, None}
  <2>1. CASE disk' = [disk EXCEPT !.key = None]
    BY <2>1, Facts, FileType
  <2>2. CASE disk' = [disk EXCEPT !.pass = None]
    BY <2>2, Facts, FileType
  <2>3. CASE disk' = [disk EXCEPT !.cap = None]
    BY <2>3, Facts, FileType
  <2> QED
    BY <2>1, <2>2, <2>3 DEF RemoveFile
<1>3. RunStep(p, proc[p]) /\ asked' \subseteq Key
  BY <1>1 DEF RunStep, world, IInv, TypeOK
<1>4. Carries(proc[p], made)
  BY Facts
<1>5. ASSUME OneRun
      PROVE  Sound(proc[p], disk', chain)
  BY <1>1, <1>2, <1>5, Facts, Nothing DEF Sound, Paired, Fresh, Matched, Frozen,
     Judging, Making, Drawn, Ready, Asking, Saving
<1>6. Fits(proc[p], disk', made')
  BY <1>1, <1>2, <1>4, <1>5, Facts DEF Fits
<1> QED
  BY <1>1, <1>3, <1>6, Facts, RunStepKeeps

LEMMA RemoveDirKeeps ==
  ASSUME IInv, NEW p \in Proc, RemoveDir(p)
  PROVE  IInv'
<1>1. /\ proc[p].pc = "wipe" /\ UNCHANGED <<clock, made, world>>
      /\ disk.key = None /\ disk.pass = None /\ disk.cap = None
  BY DEF RemoveDir, At
<1>2. /\ disk' \in Files /\ disk'.key = None /\ disk'.pass = None
      /\ disk'.cap = None
  BY <1>1, Facts, FileType DEF RemoveDir
<1>3. made' \in 0..MaxKeys /\ made <= made' /\ asked' \subseteq Key
  BY <1>1, Facts DEF world, IInv, TypeOK
<1>4. CASE proc[p].then = "idle"
  <2>1. Gone \in RunState /\ Gone.pc = "idle" /\ Gone.cap = None /\ Gone.asof = 0
    BY PullSessionAssumption DEF Gone, RunState, Labels
  <2>2. RunStep(p, Gone)
    BY <1>1, <1>4 DEF RemoveDir, End, RunStep, world
  <2>3. Carries(Gone, made')
    BY <2>1 DEF Carries, Keyed, Drawn, Ready, Asking, Saving
  <2>4. Sound(Gone, disk', chain)
    BY <1>2, <2>1, Nothing DEF Sound, Paired, Fresh, Matched, Frozen,
       Judging, Making, Drawn, Ready, Asking, Saving
  <2>5. Fits(Gone, disk', made')
    BY <1>2, <2>1, <2>3, <2>4, Facts DEF Fits
  <2> QED
    BY <1>3, <2>2, <2>5, RunStepKeeps
<1>5. CASE proc[p].then # "idle"
  <2>1. Goto(p, "reopen")
    BY <1>5 DEF RemoveDir
  <2>2. proc[p].then = "reopen"
    BY <1>5, Facts DEF RunState
  <2>3. ASSUME NEW n \in RunState, Moved(n, proc[p], "reopen")
        PROVE  /\ Carries(n, made)
               /\ OneRun => Sound(n, disk', chain)
    <3>1. Carries(n, made)
      BY <2>3 DEF Moved, Carries, Keyed, Drawn, Ready, Asking, Saving
    <3>2. ASSUME OneRun
          PROVE  Sound(n, disk', chain)
      BY <1>1, <1>2, <2>2, <2>3, <3>2, Facts, Nothing DEF Moved, Sound, Paired,
         Fresh, Matched, Frozen, Judging, Making, Drawn, Ready, Asking, Saving
    <3> QED
      BY <3>1, <3>2
  <2> QED
    BY <1>1, <1>2, <2>1, <2>3, FileStepKeeps DEF Labels
<1> QED
  BY <1>4, <1>5

LEMMA OneMore ==
  ASSUME NEW m \in 0..MaxKeys, m < MaxKeys
  PROVE  /\ m + 1 \in Key /\ m + 1 \in 0..MaxKeys /\ m <= m + 1 /\ m + 1 <= m + 1
         /\ ~(m + 1 <= m)
         /\ \A k \in Key : k <= m => k <= m + 1
  BY PullSessionAssumption DEF Key

LEMMA NewPasswordKeeps ==
  ASSUME IInv, NEW p \in Proc, NewPassword(p)
  PROVE  IInv'
<1> DEFINE n == [proc[p] EXCEPT !.key = made + 1, !.pc = "fillpass"]
<1>1. /\ proc[p].pc = "newpass" /\ made < MaxKeys /\ made' = made + 1
      /\ made + 1 \in Key
  BY Facts, OneMore DEF NewPassword, At
<1>2. disk' \in Files /\ disk'.key = disk.key /\ disk'.pass = Torn /\ disk'.cap = disk.cap
  BY Facts, FileType DEF NewPassword
<1>3. RunStep(p, n) /\ asked' \subseteq Key
  BY DEF NewPassword, RunStep, world, IInv, TypeOK
<1>4. n \in RunState /\ n.pc = "fillpass" /\ n.key = made + 1
      /\ n.cap = proc[p].cap /\ n.asof = proc[p].asof
  BY <1>1, Facts DEF RunState, Labels
<1>5. Carries(n, made')
  BY <1>1, <1>4, Facts, OneMore DEF Carries, Saving
<1>6. chain[made + 1] = None
  BY <1>1, Facts, OneMore DEF IInv, UsedInv
<1>7. ASSUME OneRun
      PROVE  Sound(n, disk', chain)
  BY <1>1, <1>2, <1>4, <1>6, <1>7, Facts DEF Sound, Paired, Fresh, Matched, Frozen,
     Judging, Making, Drawn, Ready, Asking, Saving
<1>8. disk'.key # None => disk'.key <= made'
  <2>1. disk.key # None => disk.key \in Key /\ disk.key <= made
    BY Facts DEF Files
  <2> QED
    BY <1>1, <1>2, <2>1, Facts, OneMore
<1>9. Fits(n, disk', made')
  BY <1>2, <1>4, <1>5, <1>7, <1>8, Facts DEF Fits
<1> QED
  BY <1>1, <1>3, <1>9, Facts, OneMore, RunStepKeeps

-----------------------------------------------------------------------------
(* The world *)

LEMMA RedeemKeeps ==
  ASSUME IInv, NEW p \in Proc, Redeem(p)
  PROVE  IInv'
<1> DEFINE k == disk.key
<1>1. /\ proc[p].pc = "decdn" /\ k # None /\ disk.cap \in Capability
      /\ chain' = [chain EXCEPT ![k] = disk.cap.expiry]
      /\ UNCHANGED <<clock, disk, made, proc, asked, book>>
  BY DEF Redeem, At, CanSign
<1>2. k \in Key /\ k <= made
  BY <1>1, Facts DEF Files
<1>3. /\ chain' \in [Key -> Expiry \cup {None}]
      /\ \A i \in Key : chain'[i] = IF i = k THEN disk.cap.expiry ELSE chain[i]
  BY <1>1, <1>2 DEF IInv, TypeOK, Capability
<1>4. TypeOK' /\ UsedInv'
  BY <1>1, <1>2, <1>3 DEF IInv, TypeOK, UsedInv
<1>5. ASSUME OneRun
      PROVE  \A q \in Proc : Sound(proc[q], disk, chain')
  <2>1. \A q \in Proc : q = p
    BY <1>5 DEF OneRun
  <2>2. Sound(proc[p], disk, chain')
    BY <1>1, <1>2, <1>3, <1>5, Facts DEF Sound, Frozen, Drawn, Asking, Saving
  <2> QED
    BY <2>1, <2>2
<1> QED
  BY <1>1, <1>4, <1>5 DEF IInv

LEMMA SolveKeeps ==
  ASSUME IInv, NEW k \in Key, Solve(k)
  PROVE  IInv'
<1>1. clock + Ttl \in Expiry
  BY PullSessionAssumption DEF IInv, TypeOK, Expiry
<1>2. TypeOK' /\ UsedInv'
  BY <1>1 DEF Solve, IInv, TypeOK, UsedInv
<1> QED
  BY <1>2 DEF Solve, IInv

LEMMA LosePasswordKeeps ==
  ASSUME IInv, LosePassword
  PROVE  IInv'
<1>1. /\ UNCHANGED <<clock, made, proc, asked, book, chain>>
      /\ \A p \in Proc : proc[p].pc = "idle"
  BY DEF LosePassword, At, world
<1>2. /\ disk' \in Files /\ disk'.key = disk.key /\ disk'.pass = None
      /\ disk'.cap = disk.cap
  <2>1. disk \in Files
    BY DEF IInv, TypeOK
  <2> QED
    BY <2>1, FileType DEF LosePassword
<1>3. TypeOK' /\ UsedInv'
  BY <1>1, <1>2 DEF IInv, TypeOK, UsedInv
<1>4. ASSUME OneRun, NEW p \in Proc
      PROVE  Sound(proc[p], disk', chain)
  BY <1>1, <1>2, <1>4, Facts DEF Sound, Paired, Fresh, Matched, Frozen,
     Judging, Making, Drawn, Ready, Asking, Saving
<1> QED
  BY <1>1, <1>3, <1>4 DEF IInv

LEMMA TickKeeps ==
  ASSUME IInv, Tick
  PROVE  IInv'
<1> DEFINE n(p) == [proc[p] EXCEPT !.left = IF @ > 0 THEN @ - 1 ELSE 0]
<1>1. /\ UNCHANGED <<disk, made, asked, book, chain>>
      /\ clock' = IF clock < MaxTime THEN clock + 1 ELSE clock
      /\ proc' = [p \in Proc |-> n(p)]
  BY DEF Tick, world
<1>2. clock' \in 0..MaxTime
  BY <1>1, PullSessionAssumption DEF IInv, TypeOK
<1>3. ASSUME NEW p \in Proc
      PROVE  n(p) \in RunState /\ Moved(n(p), proc[p], proc[p].pc)
  <2>1. proc[p] \in RunState /\ proc[p].left \in 0..PollTimeout
    BY Facts DEF RunState
  <2>2. (IF proc[p].left > 0 THEN proc[p].left - 1 ELSE 0) \in 0..PollTimeout
    BY <2>1, PullSessionAssumption
  <2> QED
    BY <2>1, <2>2 DEF RunState, Moved
<1>4. proc' \in [Proc -> RunState] /\ \A p \in Proc : proc'[p] = n(p)
  BY <1>1, <1>3
<1>5. TypeOK' /\ UsedInv'
  BY <1>1, <1>2, <1>4 DEF IInv, TypeOK, UsedInv
<1>6. ASSUME NEW p \in Proc
      PROVE  Carries(n(p), made) /\ n(p).asof <= clock'
  <2>1. clock \in Nat /\ clock <= clock' /\ clock' \in Nat /\ proc[p].asof \in Nat
    BY <1>1, <1>2, Facts, PullSessionAssumption DEF RunState
  <2>2. proc[p].asof <= clock'
    BY <2>1, Facts, LessIsLess
  <2> QED
    BY <1>3, <2>2, Facts DEF Moved, Carries
<1>7. ASSUME OneRun, NEW p \in Proc
      PROVE  Sound(n(p), disk, chain)
  BY <1>3, <1>7, Facts DEF Moved, Sound, Paired, Fresh, Matched, Frozen
<1> QED
  BY <1>1, <1>4, <1>5, <1>6, <1>7 DEF IInv

-----------------------------------------------------------------------------
(* The invariant *)

LEMMA InitHolds ==
  ASSUME Init
  PROVE  IInv
<1>1. Gone \in RunState /\ Gone.pc = "idle" /\ Gone.cap = None /\ Gone.asof = 0
  BY PullSessionAssumption DEF Gone, RunState, Labels
<1>2. TypeOK /\ UsedInv
  BY <1>1, PullSessionAssumption DEF Init, TypeOK, UsedInv, Files
<1>3. \A p \in Proc : proc[p] = Gone
  BY DEF Init
<1>4. Carries(Gone, made)
  BY <1>1 DEF Carries, Keyed, Drawn, Ready, Asking, Saving
<1>5. disk.key = None /\ disk.pass = None /\ disk.cap = None
  BY DEF Init
<1>6. Sound(Gone, disk, chain)
  BY <1>1, <1>5, Nothing DEF Sound, Paired, Fresh, Matched, Frozen,
     Judging, Making, Drawn, Ready, Asking, Saving
<1>7. Gone.asof <= clock
  BY <1>1 DEF Init
<1> QED
  BY <1>2, <1>3, <1>4, <1>6, <1>7 DEF IInv

LEMMA OwnStepKeeps ==
  ASSUME IInv, NEW p \in Proc, Advance(p) \/ Answer(p) \/ PullEnds(p)
  PROVE  IInv'
<1>1. CASE EnsureKey(p)
  BY <1>1, KeyFoundKeeps, KeyAbsentKeeps, KeyLockedKeeps, DropCapabilityKeeps,
     NewPasswordKeeps, FillPasswordKeeps, GenerateKeyKeeps DEF EnsureKey
<1>2. CASE Answer(p) \/ PullEnds(p)
  BY <1>2, GotTokenKeeps, AskCaptchaKeeps, PollEmptyKeeps, PullSucceedsKeeps,
     DieKeeps DEF Answer, PullEnds
<1> QED
  BY <1>1, <1>2, CheckKeeps, RemoveFileKeeps, RemoveDirKeeps, ReopenKeeps,
     CapabilitySavedKeeps, CapabilityMissingKeeps, WakeKeeps,
     SaveCapabilityKeeps, FillCapabilityKeeps DEF Advance

LEMMA StepKeeps ==
  ASSUME IInv, [Next]_vars
  PROVE  IInv'
<1>1. CASE UNCHANGED vars \/ Rest
  BY <1>1 DEF Rest, vars, IInv, TypeOK, UsedInv
<1> QED
  BY <1>1, StartKeeps, OwnStepKeeps, DieKeeps, RedeemKeeps, SolveKeeps,
     LosePasswordKeeps, TickKeeps DEF Next

THEOREM Inductive == Spec => []IInv
<1>1. Init => IInv
  BY InitHolds
<1>2. IInv /\ [Next]_vars => IInv'
  BY StepKeeps
<1> QED
  BY <1>1, <1>2, PTL DEF Spec

-----------------------------------------------------------------------------
(* What follows *)

(* Every variable keeps its type, for any number of runs at once. *)
THEOREM SessionTypeCorrect == Spec => []TypeOK
<1>1. IInv => TypeOK
  BY DEF IInv
<1> QED
  BY <1>1, Inductive, PTL

(* One run at a time, dying anywhere: a keystore and a password beside it  *)
(* are a pair.                                                             *)
THEOREM KeyAndPassword ==
  ASSUME OneRun
  PROVE  Spec => []PasswordOpensKey
<1>1. IInv => PasswordOpensKey
  BY OneRun DEF IInv, OneRun, Sound, Paired, PasswordOpensKey
<1> QED
  BY <1>1, Inductive, PTL

(* One run at a time, dying anywhere: decdn is started on a judgement of   *)
(* this very run.                                                          *)
THEOREM FreshPulls ==
  ASSUME OneRun
  PROVE  Spec => []PullsFresh
<1>1. IInv => PullsFresh
  BY OneRun DEF IInv, Sound, Fresh, PullsFresh, At
<1> QED
  BY <1>1, Inductive, PTL

(* One run at a time that does not die between two removals: decdn gets a  *)
(* capability of the key beside it.                                        *)
THEOREM CapabilityOfKey ==
  ASSUME OneRun, CleanDeaths
  PROVE  Spec => []CapabilityMatchesKey
<1>1. IInv => CapabilityMatchesKey
  BY OneRun, CleanDeaths DEF IInv, Sound, Matched, CapabilityMatchesKey, At
<1> QED
  BY <1>1, Inductive, PTL

(* One run at a time that does not die between two removals: a key that is *)
(* frozen on-chain is used with no other capability.                       *)
THEOREM FrozenKeyOnce ==
  ASSUME OneRun, CleanDeaths
  PROVE  Spec => []FrozenKeyNotReused
<1>1. IInv => FrozenKeyNotReused
  BY OneRun, CleanDeaths DEF IInv, Sound, Frozen, FrozenKeyNotReused, At
<1> QED
  BY <1>1, Inductive, PTL

-----------------------------------------------------------------------------
(* What a step may do to a usable directory *)

LEMMA Later ==
  ASSUME NEW e \in Nat, NEW t \in Nat, NEW now \in Nat, t <= now, e <= t + Margin
  PROVE  e <= now + Margin
  BY PullSessionAssumption

LEMMA WipesForAReason ==
  ASSUME IInv, OneRun, Usable, NEW p \in Proc, proc[p].pc = "wipe"
  PROVE  Cleaning(p)
<1>1. SUFFICES ASSUME proc[p].then = "reopen"
               PROVE  FALSE
  BY Facts DEF Carries, Cleaning, At, RunState
<1>2. disk.cap \in Capability /\ ~(disk.cap.expiry <= clock + Margin)
  BY DEF Usable, NearExpiry
<1>3. disk.cap.expiry <= proc[p].asof + Margin
  BY <1>1, <1>2, Facts DEF Sound, Fresh
<1>4. /\ disk.cap.expiry \in Nat /\ proc[p].asof \in Nat /\ clock \in Nat
      /\ proc[p].asof <= clock
  BY <1>2, Facts, PullSessionAssumption DEF Capability, Expiry, RunState
<1> QED
  BY <1>2, <1>3, <1>4, Later

LEMMA UsableStays ==
  ASSUME IInv, OneRun, [Next]_vars, Usable, <<disk, asked>>' # <<disk, asked>>
  PROVE  /\ asked' = asked
         /\ (\E p \in Proc : Cleaning(p)) \/ (\A p \in Proc : At(p, "idle"))
<1>1. /\ disk.key # None /\ disk.pass # None /\ disk.cap \in Capability
      /\ disk.cap # None
  BY Nothing DEF Usable, CanSign
<1>2. ASSUME NEW p \in Proc, Start(p)
      PROVE  asked' = asked /\ \A q \in Proc : At(q, "idle")
  BY <1>2, OneRun DEF OneRun, Start, world
<1>3. ASSUME NEW p \in Proc, RemoveFile(p) \/ RemoveDir(p)
      PROVE  asked' = asked /\ Cleaning(p)
  BY <1>3, WipesForAReason DEF RemoveFile, RemoveDir, At, world
<1>4. ASSUME NEW p \in Proc
      PROVE  /\ ~Reopen(p) /\ ~KeyLocked(p) /\ ~DropCapability(p)
             /\ ~NewPassword(p) /\ ~FillPassword(p) /\ ~GenerateKey(p)
             /\ ~AskCaptcha(p) /\ ~SaveCapability(p) /\ ~FillCapability(p)
  <2>1. /\ proc[p].pc \notin Making /\ proc[p].pc # "reopen"
        /\ proc[p].pc \notin Asking \cup Saving
    BY <1>1, Facts DEF Sound, Paired, Fresh
  <2> QED
    BY <1>1, <2>1 DEF Reopen, KeyLocked, DropCapability, NewPassword,
       FillPassword, GenerateKey, AskCaptcha, SaveCapability, FillCapability,
       At, Making, Asking, Saving
<1>5. ASSUME NEW p \in Proc,
             \/ Check(p) \/ KeyFound(p) \/ KeyAbsent(p) \/ CapabilitySaved(p)
             \/ CapabilityMissing(p) \/ Wake(p) \/ GotToken(p) \/ PollEmpty(p)
             \/ PullEnds(p) \/ Die(p) \/ Redeem(p)
      PROVE  UNCHANGED <<disk, asked>>
  BY <1>5 DEF Check, KeyFound, KeyAbsent, CapabilitySaved, CapabilityMissing,
     Wake, GotToken, PollEmpty, PullEnds, PullSucceeds, PullFails, Die, Redeem, world
<1>6. ASSUME \/ \E k \in Key : Solve(k)
             \/ Tick \/ Rest \/ UNCHANGED vars
      PROVE  UNCHANGED <<disk, asked>>
  BY <1>6 DEF Solve, Tick, Rest, vars, world
<1>7. CASE LosePassword
  BY <1>7 DEF LosePassword, world
<1>8. CASE \E p \in Proc : Advance(p) \/ Answer(p)
  BY <1>3, <1>4, <1>5, <1>8 DEF Advance, EnsureKey, Answer
<1> QED
  BY <1>2, <1>5, <1>6, <1>7, <1>8 DEF Next

(* One run at a time, dying anywhere: a usable directory is taken apart by *)
(* a run whose pull succeeded only, and costs no further captcha.          *)
THEOREM UsableKept ==
  ASSUME OneRun
  PROVE  Spec => KeepsUsable
<1>1. IInv /\ [Next]_vars =>
        [ Usable /\ <<disk, asked>>' # <<disk, asked>> =>
            /\ asked' = asked
            /\ (\E p \in Proc : Cleaning(p)) \/ (\A p \in Proc : At(p, "idle"))
        ]_vars
  BY OneRun, UsableStays
<1> QED
  BY <1>1, Inductive, PTL DEF Spec, KeepsUsable

-----------------------------------------------------------------------------
(* What a step may do to a key that a captcha was asked for *)

LEMMA WipesWithCause ==
  ASSUME IInv, NEW p \in Proc, proc[p].pc = "wipe"
  PROVE  Cleaning(p) \/ Renewing(p)
  BY Facts DEF Carries, Cleaning, Renewing, At, RunState

LEMMA AwaitedStays ==
  ASSUME IInv, OneRun, [Next]_vars, Awaited,
         <<disk.key, disk.pass, asked>>' # <<disk.key, disk.pass, asked>>
  PROVE  /\ asked' = asked
         /\ \/ \E p \in Proc : Cleaning(p) \/ Renewing(p)
            \/ \A p \in Proc : At(p, "idle")
<1>1. /\ disk.key # None /\ disk.pass # None /\ disk.key \in asked
      /\ disk \in Files /\ disk.cap \notin Capability
  BY Nothing DEF Awaited, CanSign, IInv, TypeOK
<1>2. ASSUME NEW p \in Proc, RemoveFile(p) \/ RemoveDir(p)
      PROVE  asked' = asked /\ (Cleaning(p) \/ Renewing(p))
  BY <1>2, WipesWithCause DEF RemoveFile, RemoveDir, At, world
<1>3. ASSUME NEW p \in Proc
      PROVE  /\ ~KeyLocked(p) /\ ~DropCapability(p)
             /\ ~NewPassword(p) /\ ~FillPassword(p) /\ ~GenerateKey(p)
  <2>1. proc[p].pc \notin Making
    BY <1>1, Facts DEF Sound, Paired
  <2> QED
    BY <1>1, <2>1 DEF KeyLocked, DropCapability, NewPassword, FillPassword,
       GenerateKey, At, Making
<1>4. ASSUME NEW p \in Proc, Start(p) \/ Reopen(p) \/ SaveCapability(p) \/ FillCapability(p)
      PROVE  UNCHANGED <<disk.key, disk.pass, asked>>
  <2>1. CASE Start(p) \/ Reopen(p)
    BY <1>1, <2>1, FileType DEF Start, Reopen, world
  <2>2. CASE SaveCapability(p)
    BY <1>1, <2>2, FileType DEF SaveCapability, world
  <2>3. CASE FillCapability(p)
    <3>1. proc[p].cap \in Capability
      BY <2>3, Facts DEF FillCapability, At, Carries, Saving
    <3> QED
      BY <1>1, <2>3, <3>1, FileType DEF FillCapability, world
  <2> QED
    BY <1>4, <2>1, <2>2, <2>3
<1>5. ASSUME NEW p \in Proc, AskCaptcha(p)
      PROVE  UNCHANGED <<disk, asked>>
  <2>1. proc[p].key = disk.key
    BY <1>5, Facts DEF AskCaptcha, At, Sound, Paired, Ready, Asking
  <2> QED
    BY <1>1, <1>5, <2>1 DEF AskCaptcha
<1>6. ASSUME NEW p \in Proc,
             \/ Check(p) \/ KeyFound(p) \/ KeyAbsent(p) \/ CapabilitySaved(p)
             \/ CapabilityMissing(p) \/ Wake(p) \/ GotToken(p) \/ PollEmpty(p)
             \/ PullEnds(p) \/ Die(p) \/ Redeem(p)
      PROVE  UNCHANGED <<disk, asked>>
  BY <1>6 DEF Check, KeyFound, KeyAbsent, CapabilitySaved, CapabilityMissing,
     Wake, GotToken, PollEmpty, PullEnds, PullSucceeds, PullFails, Die, Redeem, world
<1>7. ASSUME \/ \E k \in Key : Solve(k)
             \/ Tick \/ Rest \/ UNCHANGED vars
      PROVE  UNCHANGED <<disk, asked>>
  BY <1>7 DEF Solve, Tick, Rest, vars, world
<1>8. CASE LosePassword
  BY <1>8 DEF LosePassword, world
<1>9. CASE \E p \in Proc : Advance(p) \/ Answer(p)
  BY <1>2, <1>3, <1>4, <1>5, <1>6, <1>9 DEF Advance, EnsureKey, Answer
<1> QED
  BY <1>4, <1>6, <1>7, <1>8, <1>9 DEF Next

(* One run at a time, dying anywhere: a key that a captcha was asked for,  *)
(* and its password, stay until the capability is saved, and no captcha is *)
(* asked for another key.                                                  *)
THEOREM AskedKept ==
  ASSUME OneRun
  PROVE  Spec => KeepsAsked
<1>1. IInv /\ [Next]_vars =>
        [ Awaited /\ <<disk.key, disk.pass, asked>>' # <<disk.key, disk.pass, asked>> =>
            /\ asked' = asked
            /\ \/ \E p \in Proc : Cleaning(p) \/ Renewing(p)
               \/ \A p \in Proc : At(p, "idle")
        ]_vars
  BY OneRun, AwaitedStays
<1> QED
  BY <1>1, Inductive, PTL DEF Spec, KeepsAsked
=============================================================================
