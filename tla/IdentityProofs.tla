---------------------------- MODULE IdentityProofs ----------------------------
(***************************************************************************)
(* PullSession implements Identity, for one run at a time that does not die*)
(* between two removals, whatever the lifetime, the margin and the bounds. *)
(*                                                                         *)
(* The invariant of PullSessionProofs says which files go together; what is*)
(* missing is that a run which has got as far as asking for a capability   *)
(* has a key that can sign. Then every step of a run is one step of        *)
(* Identity or none: most move the run or a file that nothing depends on.  *)
(***************************************************************************)
EXTENDS PullSessionProofs

-----------------------------------------------------------------------------
(* A run that is past ensure_key can sign *)

SInv == \A p \in Proc : proc[p].pc \in Ready => CanSign

LEMMA SignsKept ==
  ASSUME OneRun, IInv, SInv, [Next]_vars
  PROVE  SInv'
<1>1. PICK p : Proc = {p}
  BY DEF OneRun
<1> p \in Proc
  BY <1>1
<1> DEFINE l == proc[p]
<1>2. SUFFICES ASSUME proc'[p].pc \in Ready PROVE CanSign'
  BY <1>1 DEF SInv
<1>3. /\ l \in RunState /\ disk \in Files /\ proc \in [Proc -> RunState]
      /\ Paired(l, disk)
  BY Facts DEF Sound, IInv, TypeOK
<1>4. l.pc \in Ready => CanSign
  BY DEF SInv
<1>5. CASE UNCHANGED vars \/ Rest \/ Redeem(p) \/ \E k \in Key : Solve(k)
  BY <1>2, <1>4, <1>5 DEF vars, Rest, Redeem, Solve, CanSign
<1>6. CASE Tick
  <2>1. proc'[p].pc = l.pc
    BY <1>3, <1>6 DEF Tick, RunState
  <2> QED BY <1>2, <1>4, <1>6, <2>1 DEF Tick, CanSign
<1>7. CASE LosePassword
  BY <1>2, <1>7 DEF LosePassword, At, Ready, Asking, Saving
<1>8. CASE End(p) \/ Goto(p, "reopen") \/ Goto(p, "newpass") \/ Goto(p, "check")
           \/ Goto(p, "dropcap") \/ Goto(p, "ensure") \/ Goto(p, "genkey")
  <2>1. proc'[p].pc \in {"idle", "reopen", "newpass", "check", "dropcap", "ensure", "genkey"}
    BY <1>3, <1>8 DEF End, Gone, Goto, RunState
  <2> QED BY <1>2, <2>1 DEF Ready, Asking, Saving
<1>9. CASE \/ Check(p) \/ NewPassword(p) \/ PullSucceeds(p) \/ RemoveFile(p)
  <2>1. proc'[p].pc \in {"wipe", "ensure", "fillpass"}
    BY <1>3, <1>9 DEF Check, NewPassword, PullSucceeds, RemoveFile, At, RunState
  <2> QED BY <1>2, <2>1 DEF Ready, Asking, Saving
<1>13. CASE \/ Start(p) \/ Die(p) \/ PullFails(p) \/ RemoveDir(p) \/ Reopen(p)
            \/ KeyAbsent(p) \/ KeyLocked(p) \/ DropCapability(p) \/ FillPassword(p)
  BY <1>8, <1>13 DEF Start, Die, PullFails, RemoveDir, Reopen, KeyAbsent, KeyLocked,
     DropCapability, FillPassword
<1>14. CASE PollEmpty(p)
  <2>1. CASE proc[p].left = 0
    BY <1>8, <1>14, <2>1 DEF PollEmpty
  <2>2. CASE proc[p].left # 0
    BY <1>4, <1>14, <2>2 DEF PollEmpty, At, Ready, Asking, CanSign
  <2> QED BY <2>1, <2>2
<1>10. CASE KeyFound(p)
  BY <1>3, <1>10 DEF KeyFound, Paired, CanSign
<1>11. CASE GenerateKey(p)
  <2>1. l.key \in Key /\ l.pc = "genkey"
    BY <1>11, Facts DEF GenerateKey, At, Carries, Keyed, Drawn
  <2> QED BY <1>3, <1>11, <2>1, Nothing DEF GenerateKey, Files, Paired, CanSign
<1>12. CASE \/ CapabilitySaved(p) \/ CapabilityMissing(p) \/ GotToken(p)
            \/ AskCaptcha(p) \/ Wake(p) \/ SaveCapability(p) \/ FillCapability(p)
  BY <1>3, <1>4, <1>12 DEF CapabilitySaved, CapabilityMissing, GotToken,
     AskCaptcha, Wake, SaveCapability, FillCapability, Goto, At, Ready, Asking,
     Saving, CanSign, Files
<1> QED
  BY <1>1, <1>5, <1>6, <1>7, <1>8, <1>9, <1>10, <1>11,
     <1>12, <1>13, <1>14
  DEF Next, Advance, EnsureKey, Answer, PullEnds

LEMMA Signs ==
  ASSUME OneRun
  PROVE  Spec => []SInv
<1>1. Init => SInv
  BY DEF Init, SInv, Gone, Ready, Asking, Saving
<1>2. IInv /\ SInv /\ [Next]_vars => SInv'
  BY SignsKept
<1> QED BY <1>1, <1>2, Inductive, PTL DEF Spec

-----------------------------------------------------------------------------
(* What is held, by the record l of a run and the files d *)

Signed(d) == d.key # None /\ d.pass = d.key

KeyOf(l, d) ==
  IF l.pc \in Drawn THEN l.key
  ELSE IF l.pc # "wipe" /\ Signed(d) THEN d.key ELSE None

CapOf(l, d) ==
  IF KeyOf(l, d) = None THEN None
  ELSE IF l.pc \in Saving THEN l.cap.expiry
  ELSE IF d.cap \in Capability /\ d.cap.key = KeyOf(l, d) THEN d.cap.expiry
  ELSE None

LEMMA Mapping ==
  ASSUME OneRun, NEW p \in Proc
  PROVE  /\ HeldKey = KeyOf(proc[p], disk)
         /\ HeldCapability = CapOf(proc[p], disk)
         /\ At(theRun, "decdn") <=> proc[p].pc = "decdn"
         /\ HeldKey' = KeyOf(proc'[p], disk')
         /\ HeldCapability' = CapOf(proc'[p], disk')
         /\ At(theRun, "decdn")' <=> proc'[p].pc = "decdn"
<1>1. theRun = p
  BY DEF OneRun, theRun
<1>2. HeldKey = KeyOf(proc[p], disk) /\ HeldKey' = KeyOf(proc'[p], disk')
  BY <1>1 DEF HeldKey, KeyOf, Signed, CanSign, MakingKey, Drawn, run
<1>3. HeldCapability = CapOf(proc[p], disk) /\ HeldCapability' = CapOf(proc'[p], disk')
  BY <1>1, <1>2 DEF HeldCapability, CapOf, Saving, run
<1> QED BY <1>1, <1>2, <1>3 DEF At

(* What is known of one run at a time with its files, before a step. *)
LEMMA Known ==
  ASSUME OneRun, CleanDeaths, IInv, SInv, NEW p \in Proc
  PROVE  /\ proc[p] \in RunState /\ disk \in Files /\ proc \in [Proc -> RunState]
         /\ Carries(proc[p], made)
         /\ Paired(proc[p], disk) /\ Fresh(proc[p], disk)
         /\ Matched(proc[p], disk) /\ Frozen(proc[p], disk, chain)
         /\ proc[p].pc \in Ready => Signed(disk)
BY Facts DEF SInv, Sound, Signed, CanSign, IInv, TypeOK

(* Nothing is held after the step. *)
LEMMA DiscardsAll ==
  ASSUME OneRun, NEW p \in Proc, UNCHANGED <<clock, made, world>>,
         KeyOf(proc'[p], disk') = None, proc'[p].pc # "decdn"
  PROVE  Held!Discard
<1>1. CapOf(proc'[p], disk') = None
  BY DEF CapOf
<1> QED BY <1>1, Mapping DEF Held!Discard, world

(* Nothing that is held has changed. *)
LEMMA Stutters ==
  ASSUME OneRun, NEW p \in Proc, UNCHANGED <<clock, made, world>>,
         KeyOf(proc'[p], disk') = KeyOf(proc[p], disk),
         CapOf(proc'[p], disk') = CapOf(proc[p], disk),
         proc'[p].pc = "decdn" <=> proc[p].pc = "decdn"
  PROVE  UNCHANGED Held!vars
<1>1. At(theRun, "decdn")' = At(theRun, "decdn")
  BY Mapping DEF At
<1> QED BY <1>1, Mapping DEF Held!vars, world

(* Places at which the files alone say what is held. *)
Plain(l) == l.pc \notin Drawn \cup Saving \cup {"wipe", "decdn"}

LEMMA PlainStutters ==
  ASSUME OneRun, NEW p \in Proc, UNCHANGED <<clock, made, world>>,
         Plain(proc[p]), Plain(proc'[p]),
         disk'.key = disk.key, disk'.pass = disk.pass, disk'.cap = disk.cap
  PROVE  UNCHANGED Held!vars
<1>1. KeyOf(proc'[p], disk') = KeyOf(proc[p], disk)
  BY DEF KeyOf, Plain, Signed
<1>2. CapOf(proc'[p], disk') = CapOf(proc[p], disk)
  BY <1>1 DEF CapOf, Plain
<1> QED BY <1>1, <1>2, Stutters DEF Plain

-----------------------------------------------------------------------------
(* Steps of a run that change nothing that is held, or give all of it up *)

LEMMA GoneFrom ==
  ASSUME NEW p \in Proc, proc \in [Proc -> RunState], End(p)
  PROVE  proc'[p] = Gone /\ Gone.pc = "idle"
BY DEF End, Gone

LEMMA QuietStep ==
  ASSUME OneRun, CleanDeaths, IInv, SInv, NEW p \in Proc,
         \/ Start(p) \/ Reopen(p) \/ KeyFound(p) \/ KeyAbsent(p)
         \/ CapabilityMissing(p) \/ Wake(p) \/ PollEmpty(p)
  PROVE  UNCHANGED Held!vars
<1>1. proc[p] \in RunState /\ disk \in Files /\ proc \in [Proc -> RunState]
  BY Known
<1>2. proc[p].pc \in {"idle", "reopen", "ensure", "cap", "sleep", "poll"}
  BY DEF Start, Reopen, KeyFound, KeyAbsent, CapabilityMissing, Wake, PollEmpty, At
<1>3. proc'[p].pc \in {"check", "ensure", "newpass", "cap", "get", "poll", "sleep", "idle"}
  <2>1. CASE PollEmpty(p)
    BY <1>1, <2>1, GoneFrom DEF PollEmpty, Goto, RunState
  <2>2. CASE ~ PollEmpty(p)
    BY <1>1, <2>2 DEF Start, Reopen, KeyFound, KeyAbsent, CapabilityMissing, Wake, Goto,
       RunState
  <2> QED BY <2>1, <2>2
<1>4. /\ disk'.key = disk.key /\ disk'.pass = disk.pass /\ disk'.cap = disk.cap
      /\ UNCHANGED <<clock, made, world>>
  BY <1>1 DEF Start, Reopen, KeyFound, KeyAbsent, CapabilityMissing, Wake, PollEmpty, Files,
     world
<1> QED BY <1>2, <1>3, <1>4, PlainStutters DEF Plain, Drawn, Saving

LEMMA WipeStep ==
  ASSUME OneRun, CleanDeaths, IInv, SInv, NEW p \in Proc,
         \/ RemoveFile(p) \/ RemoveDir(p) \/ KeyLocked(p) \/ DropCapability(p)
         \/ PullSucceeds(p)
  PROVE  Held!Discard
<1>1. proc[p] \in RunState /\ disk \in Files /\ proc \in [Proc -> RunState]
  BY Known
<1>2. UNCHANGED <<clock, made, world>>
  BY DEF RemoveFile, RemoveDir, KeyLocked, DropCapability, PullSucceeds, world
<1>3. CASE RemoveFile(p) \/ PullSucceeds(p)
  <2>1. proc'[p].pc = "wipe"
    BY <1>1, <1>3 DEF RemoveFile, PullSucceeds, At, RunState
  <2> QED BY <1>2, <2>1, DiscardsAll DEF KeyOf, Drawn
<1>4. CASE RemoveDir(p)
  <2>1. disk'.key = None
    BY <1>1, <1>4 DEF RemoveDir, Files
  <2>2. proc'[p].pc \in {"idle", "reopen"}
    BY <1>1, <1>4, GoneFrom DEF RemoveDir, Goto, RunState
  <2> QED BY <1>2, <2>1, <2>2, DiscardsAll DEF KeyOf, Drawn, Signed
<1>5. CASE KeyLocked(p)
  <2>1. disk'.key = None /\ proc'[p].pc = "dropcap"
    BY <1>1, <1>5 DEF KeyLocked, Goto, Files, RunState
  <2> QED BY <1>2, <2>1, DiscardsAll DEF KeyOf, Drawn, Signed
<1>6. CASE DropCapability(p)
  <2>1. disk.key = None
    BY <1>6, Known DEF DropCapability, At, Paired, Making
  <2>2. disk'.key = None /\ proc'[p].pc = "newpass"
    BY <1>1, <1>6, <2>1 DEF DropCapability, Goto, Files, RunState
  <2> QED BY <1>2, <2>2, DiscardsAll DEF KeyOf, Drawn, Signed
<1> QED BY <1>3, <1>4, <1>5, <1>6

LEMMA CheckStep ==
  ASSUME OneRun, CleanDeaths, IInv, SInv, NEW p \in Proc, Check(p)
  PROVE  Held!Discard \/ UNCHANGED Held!vars
<1>1. proc[p] \in RunState /\ disk \in Files /\ proc \in [Proc -> RunState]
  BY Known
<1>2. proc[p].pc = "check" /\ disk' = disk /\ UNCHANGED <<clock, made, world>>
  BY DEF Check, At, world
<1>3. proc'[p].pc \in {"wipe", "ensure"}
  BY <1>1 DEF Check, RunState
<1>4. CASE proc'[p].pc = "wipe"
  BY <1>2, <1>4, DiscardsAll DEF KeyOf, Drawn
<1>5. CASE proc'[p].pc = "ensure"
  BY <1>2, <1>5, PlainStutters DEF Plain, Drawn, Saving
<1> QED BY <1>3, <1>4, <1>5

-----------------------------------------------------------------------------
(* The key *)

LEMMA NewPasswordStep ==
  ASSUME OneRun, CleanDeaths, IInv, SInv, NEW p \in Proc, NewPassword(p)
  PROVE  Held!Draw
<1>1. /\ proc[p] \in RunState /\ disk \in Files /\ proc \in [Proc -> RunState]
      /\ proc[p].pc = "newpass" /\ disk.key = None
  BY Known DEF NewPassword, At, Paired, Making
<1>2. /\ made' = made + 1 /\ made < MaxKeys
      /\ UNCHANGED <<clock, asked, book, chain>>
  BY DEF NewPassword, world
<1>3. proc'[p].pc = "fillpass" /\ proc'[p].key = made + 1
  BY <1>1 DEF NewPassword, RunState
<1>4. disk'.cap = disk.cap
  BY <1>1 DEF NewPassword, Files
<1>5. HeldKey = None /\ HeldCapability = None
  BY <1>1, Mapping DEF KeyOf, CapOf, Signed, Drawn
<1>6. HeldKey' = made + 1
  BY <1>3, Mapping DEF KeyOf, Drawn
<1>7. HeldCapability' = None
  <2>1. ~ (disk.cap \in Capability)
    <3>1. disk.cap \in Capability => disk.cap.key = None
      BY <1>1, Known DEF Matched
    <3>2. disk.cap \in Capability => disk.cap.key \in Key
      BY DEF Capability
    <3> QED BY <3>1, <3>2, Nothing
  <2> QED BY <1>3, <1>4, <2>1, Mapping DEF CapOf, Saving
<1>8. At(theRun, "decdn")' = At(theRun, "decdn")
  BY <1>1, <1>3, Mapping DEF At
<1> QED BY <1>2, <1>5, <1>6, <1>7, <1>8 DEF Held!Draw

LEMMA MakingStep ==
  ASSUME OneRun, CleanDeaths, IInv, SInv, NEW p \in Proc, FillPassword(p) \/ GenerateKey(p)
  PROVE  UNCHANGED Held!vars
<1>1. /\ proc[p] \in RunState /\ disk \in Files /\ proc \in [Proc -> RunState]
      /\ proc[p].pc \in Drawn /\ disk.key = None /\ proc[p].key \in Key
      /\ UNCHANGED <<clock, made, world>>
  BY Known DEF FillPassword, GenerateKey, At, Paired, Making, Drawn, Carries, Keyed, world
<1>2. ~ (disk.cap \in Capability) /\ disk'.cap = disk.cap
  <2>1. disk.cap \in Capability => disk.cap.key = None
    BY <1>1, Known DEF Matched, Drawn
  <2>2. disk.cap \in Capability => disk.cap.key \in Key
    BY DEF Capability
  <2>3. disk'.cap = disk.cap
    BY <1>1 DEF FillPassword, GenerateKey, Files
  <2> QED BY <2>1, <2>2, <2>3, Nothing
<1>3. proc'[p].pc \in {"genkey", "cap"} /\ proc'[p].key = proc[p].key
  BY <1>1 DEF FillPassword, GenerateKey, Goto, RunState
<1>4. KeyOf(proc'[p], disk') = proc[p].key
  <2>1. CASE FillPassword(p)
    BY <1>1, <1>3, <2>1 DEF FillPassword, Goto, KeyOf, Drawn, RunState
  <2>2. CASE GenerateKey(p)
    <3>1. disk.pass = proc[p].key
      BY <2>2, Known DEF GenerateKey, At, Paired
    <3>2. disk'.key = proc[p].key /\ disk'.pass = proc[p].key
      BY <1>1, <2>2, <3>1 DEF GenerateKey, Files
    <3>3. proc'[p].pc = "cap"
      BY <1>1, <2>2 DEF GenerateKey, Goto, RunState
    <3> QED BY <1>1, <3>2, <3>3, Nothing DEF KeyOf, Signed, Drawn
  <2> QED BY <2>1, <2>2
<1>5. KeyOf(proc[p], disk) = proc[p].key
  BY <1>1 DEF KeyOf
<1>6. CapOf(proc[p], disk) = None /\ CapOf(proc'[p], disk') = None
  BY <1>1, <1>2, <1>3 DEF CapOf, Saving, Drawn
<1>7. proc[p].pc # "decdn" /\ proc'[p].pc # "decdn"
  BY <1>1, <1>3 DEF Drawn
<1> QED BY <1>1, <1>4, <1>5, <1>6, <1>7, Stutters

-----------------------------------------------------------------------------
(* The capability *)

LEMMA HeldWhenReady ==
  ASSUME OneRun, CleanDeaths, IInv, SInv, NEW p \in Proc, proc[p].pc \in Ready
  PROVE  /\ disk.key \in Key /\ disk.pass = disk.key
         /\ proc[p].key = disk.key /\ HeldKey = disk.key /\ HeldKey # None
         /\ proc[p].pc \in Saving => HeldCapability = proc[p].cap.expiry
         /\ proc[p].pc \notin Saving =>
              HeldCapability = IF disk.cap \in Capability THEN disk.cap.expiry ELSE None
<1>1. disk.key \in Key /\ disk.pass = disk.key /\ proc[p].key = disk.key
  BY Known DEF Signed, Files, Paired
<1>2. HeldKey = disk.key /\ KeyOf(proc[p], disk) = disk.key
  BY <1>1, Known, Mapping DEF KeyOf, Drawn, Ready, Asking, Saving
<1>3. disk.key # None
  BY <1>1, Nothing
<1>4. disk.cap \in Capability => disk.cap.key = disk.key
  BY Known DEF Matched, Ready, Asking, Saving
<1>5. proc[p].pc \in Saving => HeldCapability = proc[p].cap.expiry
  BY <1>2, <1>3, Mapping DEF CapOf
<1>6. proc[p].pc \notin Saving =>
        HeldCapability = IF disk.cap \in Capability THEN disk.cap.expiry ELSE None
  BY <1>2, <1>3, <1>4, Mapping DEF CapOf
<1> QED BY <1>1, <1>2, <1>3, <1>5, <1>6

LEMMA CapabilitySavedStep ==
  ASSUME OneRun, CleanDeaths, IInv, SInv, NEW p \in Proc, CapabilitySaved(p)
  PROVE  Held!Pull
<1>1. /\ proc[p] \in RunState /\ disk \in Files /\ proc \in [Proc -> RunState]
      /\ proc[p].pc = "cap" /\ disk' = disk
      /\ UNCHANGED <<clock, made, asked, book, chain>>
  BY Known DEF CapabilitySaved, At, world
<1>2. proc'[p].pc = "decdn"
  BY <1>1 DEF CapabilitySaved, Goto, RunState
<1>3. disk.cap \in Capability
  BY Saved DEF CapabilitySaved
<1>4. disk.cap.expiry \in Expiry /\ disk.cap.expiry # None
  BY <1>3, Nothing DEF Capability
<1>5. HeldKey # None /\ HeldCapability # None
  BY <1>1, <1>3, <1>4, HeldWhenReady DEF Ready, Saving
<1>6. KeyOf(proc'[p], disk') = KeyOf(proc[p], disk)
  BY <1>1, <1>2 DEF KeyOf, Drawn
<1>7. CapOf(proc'[p], disk') = CapOf(proc[p], disk)
  BY <1>1, <1>2, <1>6 DEF CapOf, Saving
<1>8. ~ At(theRun, "decdn") /\ At(theRun, "decdn")'
  BY <1>1, <1>2, Mapping
<1> QED BY <1>1, <1>5, <1>6, <1>7, <1>8, Mapping DEF Held!Pull

LEMMA GotTokenStep ==
  ASSUME OneRun, CleanDeaths, IInv, SInv, NEW p \in Proc, GotToken(p)
  PROVE  Held!Obtain
<1>1. /\ proc[p] \in RunState /\ disk \in Files /\ proc \in [Proc -> RunState]
      /\ proc[p].pc \in Asking /\ disk' = disk
      /\ UNCHANGED <<clock, made, asked, book, chain>>
  BY Known DEF GotToken, At, world, Asking
<1>2. /\ proc'[p].pc = "save"
      /\ proc'[p].cap.expiry = book[proc[p].key]
  BY <1>1 DEF GotToken, RunState
<1>3. /\ proc[p].key = disk.key /\ HeldKey = disk.key /\ HeldKey # None
      /\ HeldCapability = None
  <2>1. disk.cap \notin Capability
    BY <1>1, Known DEF Fresh
  <2> QED BY <1>1, <2>1, HeldWhenReady DEF Ready, Saving, Asking
<1>4. Granted(HeldKey)
  BY <1>3 DEF GotToken
<1>5. KeyOf(proc'[p], disk') = KeyOf(proc[p], disk)
  BY <1>1, <1>2 DEF KeyOf, Drawn, Asking
<1>6. HeldKey' = HeldKey
  BY <1>5, Mapping
<1>7. HeldCapability' = book[HeldKey]
  BY <1>2, <1>3, <1>5, Mapping DEF CapOf, Saving
<1>8. At(theRun, "decdn")' = At(theRun, "decdn")
  BY <1>1, <1>2, Mapping DEF At, Asking
<1> QED BY <1>1, <1>3, <1>4, <1>6, <1>7, <1>8 DEF Held!Obtain, Held!Granted, Granted

LEMMA AskCaptchaStep ==
  ASSUME OneRun, CleanDeaths, IInv, SInv, NEW p \in Proc, AskCaptcha(p)
  PROVE  Held!Ask
<1>1. /\ proc[p] \in RunState /\ disk \in Files /\ proc \in [Proc -> RunState]
      /\ proc[p].pc = "get" /\ disk' = disk
      /\ UNCHANGED <<clock, made, book, chain>>
  BY Known DEF AskCaptcha, At
<1>2. proc'[p].pc = "poll"
  BY <1>1 DEF AskCaptcha, RunState
<1>3. proc[p].key = HeldKey /\ HeldKey # None /\ HeldCapability = None
  <2>1. disk.cap \notin Capability
    BY <1>1, Known DEF Fresh, Asking
  <2> QED BY <1>1, <2>1, HeldWhenReady DEF Ready, Saving, Asking
<1>4. ~ Granted(HeldKey) /\ asked' = asked \cup {HeldKey}
  BY <1>3 DEF AskCaptcha
<1>5. KeyOf(proc'[p], disk') = KeyOf(proc[p], disk)
  BY <1>1, <1>2 DEF KeyOf, Drawn
<1>6. CapOf(proc'[p], disk') = CapOf(proc[p], disk)
  BY <1>1, <1>2, <1>5 DEF CapOf, Saving
<1>7. At(theRun, "decdn")' = At(theRun, "decdn")
  BY <1>1, <1>2, Mapping DEF At
<1> QED BY <1>1, <1>3, <1>4, <1>5, <1>6, <1>7, Mapping DEF Held!Ask, Held!Granted, Granted

LEMMA SaveCapabilityStep ==
  ASSUME OneRun, CleanDeaths, IInv, SInv, NEW p \in Proc, SaveCapability(p)
  PROVE  UNCHANGED Held!vars
<1>1. /\ proc[p] \in RunState /\ disk \in Files /\ proc \in [Proc -> RunState]
      /\ proc[p].pc = "save" /\ UNCHANGED <<clock, made, world>>
  BY Known DEF SaveCapability, At, world
<1>2. /\ proc'[p].pc = "savefill" /\ proc'[p].cap = proc[p].cap
      /\ disk'.key = disk.key /\ disk'.pass = disk.pass
  BY <1>1 DEF SaveCapability, Goto, RunState, Files
<1>3. KeyOf(proc'[p], disk') = KeyOf(proc[p], disk)
  BY <1>1, <1>2 DEF KeyOf, Drawn, Signed
<1>4. CapOf(proc'[p], disk') = CapOf(proc[p], disk)
  BY <1>1, <1>2, <1>3 DEF CapOf, Saving
<1> QED BY <1>1, <1>2, <1>3, <1>4, Stutters

LEMMA FillCapabilityStep ==
  ASSUME OneRun, CleanDeaths, IInv, SInv, NEW p \in Proc, FillCapability(p)
  PROVE  Held!Pull
<1>1. /\ proc[p] \in RunState /\ disk \in Files /\ proc \in [Proc -> RunState]
      /\ proc[p].pc = "savefill" /\ UNCHANGED <<clock, made, asked, book, chain>>
  BY Known DEF FillCapability, At, world
<1>2. /\ proc'[p].pc = "decdn"
      /\ disk'.key = disk.key /\ disk'.pass = disk.pass /\ disk'.cap = proc[p].cap
  BY <1>1 DEF FillCapability, Goto, RunState, Files
<1>3. /\ proc[p].cap \in Capability /\ proc[p].cap.key = disk.key
      /\ HeldKey = disk.key /\ HeldKey # None /\ HeldCapability = proc[p].cap.expiry
  BY <1>1, Known, HeldWhenReady DEF Carries, Matched, Ready, Saving
<1>4. HeldCapability # None
  BY <1>3, Nothing DEF Capability
<1>5. KeyOf(proc'[p], disk') = KeyOf(proc[p], disk)
  BY <1>1, <1>2 DEF KeyOf, Drawn, Signed
<1>6. HeldKey' = HeldKey
  BY <1>5, Mapping
<1>7. HeldCapability' = proc[p].cap.expiry
  BY <1>2, <1>3, <1>5, Mapping DEF CapOf, Saving
<1>8. ~ At(theRun, "decdn") /\ At(theRun, "decdn")'
  BY <1>1, <1>2, Mapping
<1> QED BY <1>1, <1>3, <1>4, <1>6, <1>7, <1>8 DEF Held!Pull

-----------------------------------------------------------------------------
(* The end of a run *)

LEMMA PullFailsStep ==
  ASSUME OneRun, CleanDeaths, IInv, SInv, NEW p \in Proc,
         proc[p].pc = "decdn", End(p), UNCHANGED <<clock, disk, made, world>>
  PROVE  Held!Stop
<1>1. proc'[p].pc = "idle"
  BY Known, GoneFrom
<1>2. KeyOf(proc'[p], disk') = KeyOf(proc[p], disk)
  BY <1>1 DEF KeyOf, Drawn
<1>3. CapOf(proc'[p], disk') = CapOf(proc[p], disk)
  BY <1>1, <1>2 DEF CapOf, Saving
<1>4. At(theRun, "decdn") /\ At(theRun, "decdn")' = FALSE
  BY <1>1, Mapping DEF At
<1> QED BY <1>2, <1>3, <1>4, Mapping DEF Held!Stop, world

LEMMA DieStep ==
  ASSUME OneRun, CleanDeaths, IInv, SInv, NEW p \in Proc, Die(p)
  PROVE  Held!Next \/ UNCHANGED Held!vars
<1>1. /\ proc[p] \in RunState /\ proc \in [Proc -> RunState]
      /\ End(p) /\ disk' = disk /\ UNCHANGED <<clock, made, world>>
  BY Known DEF Die
<1>2. proc'[p].pc = "idle"
  BY <1>1, GoneFrom
<1>3. proc[p].pc # "wipe"
  BY DEF Die, CleanDeaths
<1>4. CASE Plain(proc[p])
  BY <1>1, <1>2, <1>4, PlainStutters DEF Plain, Drawn, Saving
<1>5. CASE proc[p].pc = "decdn"
  BY <1>1, <1>5, PullFailsStep DEF Held!Next
<1>6. CASE proc[p].pc \in Drawn
  <2>1. disk.key = None
    BY <1>6, Known DEF Paired, Making, Drawn
  <2>2. KeyOf(proc'[p], disk') = None
    BY <1>1, <1>2, <2>1 DEF KeyOf, Drawn, Signed
  <2> QED BY <1>1, <1>2, <2>2, DiscardsAll DEF Held!Next
<1>7. CASE proc[p].pc \in Saving
  <2>1. /\ proc[p].cap \in Capability /\ disk.cap \notin Capability
        /\ chain[proc[p].key] = None
    BY <1>7, Known DEF Carries, Fresh, Frozen
  <2>2. /\ HeldKey = disk.key /\ HeldKey # None /\ proc[p].key = HeldKey
        /\ HeldCapability = proc[p].cap.expiry
    BY <1>7, HeldWhenReady DEF Ready
  <2>3. HeldCapability # None
    BY <2>1, <2>2, Nothing DEF Capability
  <2>4. KeyOf(proc'[p], disk') = KeyOf(proc[p], disk)
    BY <1>1, <1>2, <1>7 DEF KeyOf, Drawn, Saving
  <2>5. CapOf(proc'[p], disk') = None
    BY <1>1, <1>2, <2>1 DEF CapOf, Saving
  <2>6. ~ At(theRun, "decdn") /\ At(theRun, "decdn")' = At(theRun, "decdn")
    BY <1>2, <1>7, Mapping DEF At, Saving
  <2>7. Held!LoseCapability
    BY <1>1, <2>1, <2>2, <2>3, <2>4, <2>5, <2>6, Mapping DEF Held!LoseCapability, world
  <2> QED BY <2>7 DEF Held!Next
<1> QED BY <1>3, <1>4, <1>5, <1>6, <1>7 DEF Plain

-----------------------------------------------------------------------------
(* The world *)

LEMMA RedeemStep ==
  ASSUME OneRun, CleanDeaths, IInv, SInv, NEW p \in Proc, Redeem(p)
  PROVE  Held!Redeem
<1>1. /\ proc[p].pc = "decdn" /\ UNCHANGED <<clock, disk, made, proc, asked, book>>
      /\ disk.cap \in Capability
  BY DEF Redeem, At
<1>2. HeldKey = disk.key /\ HeldCapability = disk.cap.expiry
  BY <1>1, HeldWhenReady DEF Ready, Saving
<1>3. HeldKey' = HeldKey /\ HeldCapability' = HeldCapability
  BY <1>1, Mapping
<1>4. At(theRun, "decdn") /\ At(theRun, "decdn")' = At(theRun, "decdn")
  BY <1>1, Mapping DEF At
<1> QED BY <1>1, <1>2, <1>3, <1>4 DEF Held!Redeem, Redeem

LEMMA SameHeld ==
  ASSUME OneRun, UNCHANGED <<disk, proc>>
  PROVE  /\ HeldKey' = HeldKey /\ HeldCapability' = HeldCapability
         /\ At(theRun, "decdn")' = At(theRun, "decdn")
<1>1. PICK p : Proc = {p}
  BY DEF OneRun
<1> QED BY <1>1, Mapping DEF At

LEMMA SolveStep ==
  ASSUME OneRun, NEW k \in Key, Solve(k)
  PROVE  Held!Next
<1>1. k \in asked /\ Held!Solve(k)
  BY SameHeld DEF Solve, Held!Solve, Held!Granted, Granted
<1> QED BY <1>1 DEF Held!Next

LEMMA LosePasswordStep ==
  ASSUME OneRun, CleanDeaths, IInv, SInv, NEW p \in Proc, LosePassword
  PROVE  Held!Discard
<1>1. proc[p].pc = "idle" /\ proc' = proc /\ disk \in Files /\ UNCHANGED <<clock, made, world>>
  BY Known DEF LosePassword, At
<1>2. disk'.pass = None /\ disk'.key = disk.key
  BY <1>1 DEF LosePassword, Files
<1>3. KeyOf(proc'[p], disk') = None
  BY <1>1, <1>2 DEF KeyOf, Signed, Drawn
<1> QED BY <1>1, <1>3, DiscardsAll

LEMMA TickStep ==
  ASSUME OneRun, CleanDeaths, IInv, SInv, NEW p \in Proc, Tick
  PROVE  Held!Tick \/ UNCHANGED Held!vars
<1>1. /\ proc[p] \in RunState /\ proc \in [Proc -> RunState]
      /\ disk' = disk /\ UNCHANGED <<made, asked, book, chain>>
  BY Known DEF Tick, world
<1>2. proc'[p].pc = proc[p].pc /\ proc'[p].key = proc[p].key /\ proc'[p].cap = proc[p].cap
  BY <1>1 DEF Tick, RunState
<1>3. KeyOf(proc'[p], disk') = KeyOf(proc[p], disk)
  BY <1>1, <1>2 DEF KeyOf
<1>4. CapOf(proc'[p], disk') = CapOf(proc[p], disk)
  BY <1>1, <1>2, <1>3 DEF CapOf
<1>5. At(theRun, "decdn")' = At(theRun, "decdn")
  BY <1>2, Mapping DEF At
<1>6. CASE clock < MaxTime
  BY <1>1, <1>3, <1>4, <1>5, <1>6, Mapping DEF Held!Tick, Tick
<1>7. CASE ~ (clock < MaxTime)
  BY <1>1, <1>3, <1>4, <1>5, <1>7, Mapping DEF Held!vars, Tick
<1> QED BY <1>6, <1>7

-----------------------------------------------------------------------------
(* The refinement *)

LEMMA InitMaps ==
  ASSUME OneRun, Init
  PROVE  Held!Init
<1>1. PICK p : Proc = {p}
  BY DEF OneRun
<1>2. proc[p].pc = "idle" /\ disk.key = None
  BY <1>1 DEF Init, Gone
<1>3. HeldKey = None
  BY <1>1, <1>2, Mapping DEF KeyOf, Signed, Drawn
<1>4. HeldCapability = None
  BY <1>3 DEF HeldCapability
<1>5. ~ At(theRun, "decdn")
  BY <1>1, <1>2, Mapping
<1> QED BY <1>3, <1>4, <1>5 DEF Init, Held!Init, Key, Held!Key

LEMMA StepMaps ==
  ASSUME OneRun, CleanDeaths, IInv, SInv, [Next]_vars
  PROVE  [Held!Next]_(Held!vars)
<1>1. PICK p : Proc = {p}
  BY DEF OneRun
<1> p \in Proc
  BY <1>1
<1>2. CASE UNCHANGED vars \/ Rest
  BY <1>2, SameHeld DEF vars, Rest, Held!vars
<1>3. CASE Start(p) \/ Die(p) \/ Redeem(p)
  BY <1>3, QuietStep, DieStep, RedeemStep DEF Held!Next
<1>4. CASE Answer(p)
  BY <1>4, GotTokenStep, AskCaptchaStep, QuietStep DEF Answer, Held!Next
<1>5. CASE PullSucceeds(p)
  BY <1>5, WipeStep DEF Held!Next
<1>6. CASE PullFails(p)
  BY <1>6, PullFailsStep DEF PullFails, At, Held!Next
<1>7. CASE EnsureKey(p)
  BY <1>7, QuietStep, WipeStep, NewPasswordStep, MakingStep DEF EnsureKey, Held!Next
<1>8. CASE \/ Check(p) \/ RemoveFile(p) \/ RemoveDir(p) \/ Reopen(p)
  BY <1>8, CheckStep, WipeStep, QuietStep DEF Held!Next
<1>9. CASE \/ CapabilitySaved(p) \/ CapabilityMissing(p) \/ Wake(p)
           \/ SaveCapability(p) \/ FillCapability(p)
  BY <1>9, CapabilitySavedStep, QuietStep, SaveCapabilityStep, FillCapabilityStep
  DEF Held!Next
<1>10. CASE (\E k \in Key : Solve(k)) \/ LosePassword \/ Tick
  BY <1>10, SolveStep, LosePasswordStep, TickStep DEF Held!Next
<1> QED
  BY <1>1, <1>2, <1>3, <1>4, <1>5, <1>6, <1>7, <1>8, <1>9, <1>10
  DEF Next, Advance, PullEnds

(* One run at a time that does not die between two removals: all that the  *)
(* runs do to the files amounts to one key, drawn once, with a capability  *)
(* that is replaced only together with it.                                 *)
THEOREM OneIdentity ==
  ASSUME OneRun, CleanDeaths
  PROVE  Spec => ImplementsIdentity
<1>1. Init => Held!Init
  BY OneRun, InitMaps
<1>2. IInv /\ SInv /\ [Next]_vars => [Held!Next]_(Held!vars)
  BY OneRun, CleanDeaths, StepMaps
<1>3. Spec => []SInv
  BY OneRun, Signs
<1> QED BY <1>1, <1>2, <1>3, Inductive, PTL DEF Spec, ImplementsIdentity, Held!Spec
=============================================================================
