---------------------------- MODULE InstallerProofs ----------------------------
(***************************************************************************)
(* Installer's invariants, for any number of runs, scripts, releases and   *)
(* faults.                                                                 *)
(***************************************************************************)
EXTENDS Installer, TLAPS

Client  == "decdn"
Wrapper == "decdn-sponsored"

PinnedRelease(b) == {Pin[s][b] : s \in Script}

-----------------------------------------------------------------------------
(* The invariant *)

(* What a run n knows of its downloads.                                    *)
Verified(n) ==
  /\ n.pc # "idle" => n.script \in Script
  /\ n.pc \in {"archive", "checkarchive"} => n.sums = Pin[n.script][n.bin]
  /\ n.pc \in {"place", "create", "copy"} => n.archive = Pin[n.script][n.bin]

(* A binary is there, or a run is at it, or was killed when it was.        *)
There(b) ==
  bindir[b] \in Contents \/ b \in cut \/ \E r \in Run : b \in Replacing(r)

Placed(r) ==
  /\ run[r].bin = Wrapper => There(Client)
  /\ run[r].pc \in {"create", "copy"} => There(run[r].bin)
  /\ run[r].pc \in {"profile", "write"} => run[r].bin = Wrapper /\ There(Wrapper)

(* What a run that is alone has done is not undone.                        *)
Own(r) ==
  Active(r) /\ r \in alone =>
    /\ run[r].bin = Wrapper => bindir[Client] = Pin[run[r].script][Client]
    /\ run[r].pc = "copy" => bindir[run[r].bin] = r
    /\ run[r].pc \in {"profile", "write"} =>
         bindir[Wrapper] = Pin[run[r].script][Wrapper]
    /\ run[r].pc = "write" => profile = Torn

RunInv == \A r \in Run : Verified(run[r]) /\ Placed(r) /\ Own(r)

WholeInv ==
  whole # None => /\ profile = whole
                  /\ \A b \in Bin : bindir[b] = Pin[whole][b]

CalmInv ==
  calm =>
    /\ whole # None
    /\ pull.pc # "off" => pull.exe = Pin[whole][Wrapper]
    /\ pull.pc \in {"spawn", "decdn"} => pull.cfg = whole
    /\ pull.pc = "decdn" => pull.decdn = Pin[whole][Client]

IInv ==
  /\ TypeOK /\ OnlyPinned /\ BinariesBehindProfile
  /\ RunInv /\ WholeInv /\ CalmInv

-----------------------------------------------------------------------------
(* A step of a run, from run[r] to n *)

RunStep(r, n) ==
  /\ n \in RunState
  /\ run' = [run EXCEPT ![r] = n]
  /\ UNCHANGED <<gateway, pull>>
  /\ faults' \in 0..MaxFaults

(* It changes nothing of BINDIR and the profile ...                        *)
Quiet(r) ==
  /\ UNCHANGED <<bindir, profile, whole, calm>>
  /\ alone' \subseteq alone \cup {r}
  /\ cut' \subseteq Bin /\ cut \subseteq cut'
  /\ Replacing(r) \subseteq cut' \cup Replacing(r)'

(* ... or one binary, to the contents or the state c ...                   *)
Places(r, c) ==
  /\ bindir' = [bindir EXCEPT ![run[r].bin] = c]
  /\ c \in PinnedRelease(run[r].bin) \cup {None} \cup Run
  /\ Changes(r)
  /\ cut' \subseteq Bin
  /\ \A b \in Bin \ {run[r].bin} : b \in cut => b \in cut'
  /\ c \in Contents \/ run[r].bin \in Replacing(r)'
  /\ UNCHANGED profile

(* ... or the profile.                                                     *)
Writes(r) ==
  /\ UNCHANGED <<bindir, cut>>
  /\ Replacing(r) = {}
  /\ profile' \in Script \cup {Torn}
  /\ alone' \subseteq alone \cap {r}
  /\ calm' = FALSE

LEMMA PinsAreReleases ==
  ASSUME NEW b \in Bin
  PROVE  PinnedRelease(b) \subseteq Contents
  BY InstallerAssumption DEF PinnedRelease, Contents

LEMMA RunType ==
  ASSUME IInv, NEW r \in Run
  PROVE  /\ run[r] \in RunState
         /\ Verified(run[r]) /\ Placed(r) /\ Own(r)
         /\ run[r].bin \in Bin
         /\ Active(r) => /\ run[r].script \in Script
                         /\ Pinned(r) \in Release
                         /\ Pinned(r) \in PinnedRelease(run[r].bin)
         /\ faults \in 0..MaxFaults
<1>1. run[r] \in RunState /\ faults \in 0..MaxFaults
  BY DEF IInv, TypeOK
<1>2. Verified(run[r]) /\ Placed(r) /\ Own(r)
  BY DEF IInv, RunInv
<1>3. run[r].bin \in Bin
  BY <1>1 DEF RunState
<1>4. ASSUME Active(r)
      PROVE  /\ run[r].script \in Script
             /\ Pinned(r) \in Release
             /\ Pinned(r) \in PinnedRelease(run[r].bin)
  <2>1. run[r].script \in Script
    BY <1>2, <1>4 DEF Active, At, Verified
  <2> QED
    BY <1>3, <2>1, InstallerAssumption DEF Pinned, PinnedRelease
<1> QED
  BY <1>1, <1>2, <1>3, <1>4

(* What is there stays there, or is being replaced.                        *)
LEMMA ThereKept ==
  ASSUME IInv, NEW r \in Run, NEW n, RunStep(r, n),
         Quiet(r) \/ Writes(r) \/ (\E c : Places(r, c)),
         NEW b \in Bin, There(b)
  PROVE  There(b)'
<1>1. \A t \in Run : t # r => run'[t] = run[t]
  BY DEF RunStep, IInv, TypeOK
<1>2. ASSUME bindir'[b] = bindir[b], b \in cut => b \in cut',
             b \in Replacing(r) => b \in cut' \/ b \in Replacing(r)'
      PROVE  There(b)'
  <2>1. ASSUME NEW t \in Run, t # r, b \in Replacing(t)
        PROVE  b \in Replacing(t)'
    BY <1>1, <1>2, <2>1 DEF Replacing, At
  <2> QED
    BY <1>2, <2>1 DEF There
<1>3. CASE Quiet(r)
  BY <1>2, <1>3 DEF Quiet
<1>4. CASE Writes(r)
  BY <1>2, <1>4 DEF Writes
<1>5. ASSUME NEW c, Places(r, c)
      PROVE  There(b)'
  <2>1. \A d \in Bin : bindir'[d] = IF d = run[r].bin THEN c ELSE bindir[d]
    BY <1>5 DEF Places, IInv, TypeOK
  <2>2. CASE b = run[r].bin
    BY <1>5, <2>1, <2>2 DEF Places, There
  <2>3. CASE b # run[r].bin
    <3>1. b \notin Replacing(r)
      BY <2>3 DEF Replacing
    <3> QED
      BY <1>2, <1>5, <2>1, <2>3, <3>1 DEF Places
  <2> QED
    BY <2>2, <2>3
<1> QED
  BY <1>3, <1>4, <1>5

LEMMA RunStepKeeps ==
  ASSUME IInv, NEW r \in Run, NEW n, RunStep(r, n),
         \/ Quiet(r)
         \/ Writes(r) /\ (\A b \in Bin : There(b))
                      /\ (whole' = None \/ (whole' \in Script /\ WholeInv'))
         \/ \E c : Places(r, c),
         Verified(n), Placed(r)', Own(r)'
  PROVE  IInv'
<1>1. /\ \A t \in Run : run'[t] = IF t = r THEN n ELSE run[t]
      /\ run' \in [Run -> RunState]
  BY DEF IInv, TypeOK, RunStep
<1>2. gateway' = gateway /\ pull' = pull /\ faults' \in 0..MaxFaults
  BY DEF RunStep
<1>3. \A b \in Bin : There(b) => There(b)'
  BY ThereKept
<1>4. /\ bindir' \in [Bin -> Contents \cup {None} \cup Run]
      /\ \A b \in Bin : \/ bindir'[b] = bindir[b]
                         \/ bindir'[b] \in PinnedRelease(b) \cup {None} \cup Run
  <2>1. CASE UNCHANGED bindir
    BY <2>1 DEF IInv, TypeOK
  <2>2. ASSUME NEW c, Places(r, c)
        PROVE  /\ bindir' \in [Bin -> Contents \cup {None} \cup Run]
               /\ \A b \in Bin : \/ bindir'[b] = bindir[b]
                                  \/ bindir'[b] \in PinnedRelease(b) \cup {None} \cup Run
    <3>1. c \in Contents \cup {None} \cup Run
      BY <2>2, RunType, PinsAreReleases DEF Places
    <3> QED
      BY <2>2, <3>1 DEF Places, IInv, TypeOK
  <2> QED
    BY <2>1, <2>2 DEF Quiet, Writes
<1>5. /\ profile' \in Script \cup {None, Torn}
      /\ alone' \subseteq Run
      /\ whole' \in Script \cup {None}
      /\ calm' \in BOOLEAN
      /\ cut' \subseteq Bin
  <2>1. CASE Quiet(r)
    BY <2>1 DEF Quiet, IInv, TypeOK
  <2>2. CASE Writes(r) /\ (whole' = None \/ whole' \in Script)
    BY <2>2 DEF Writes, IInv, TypeOK
  <2>3. CASE \E c : Places(r, c)
    BY <2>3 DEF Places, Changes, IInv, TypeOK
  <2> QED
    BY <2>1, <2>2, <2>3
<1>6. TypeOK'
  BY <1>1, <1>2, <1>4, <1>5 DEF IInv, TypeOK
<1>7. OnlyPinned'
  BY <1>4 DEF IInv, OnlyPinned, PinnedRelease
<1>8. BinariesBehindProfile'
  <2>1. \A b \in Bin : profile' # None => There(b)
    BY DEF Quiet, Writes, Places, IInv, BinariesBehindProfile, There
  <2> QED
    BY <1>3, <2>1 DEF BinariesBehindProfile, There
<1>9. RunInv'
  <2>1. ASSUME NEW t \in Run, t # r
        PROVE  Verified(run[t]) /\ Placed(t)' /\ Own(t)'
    <3>1. Verified(run[t]) /\ Placed(t) /\ Own(t)
      BY DEF IInv, RunInv
    <3>2. Placed(t)'
      BY <1>1, <1>3, <2>1, <3>1, RunType DEF Placed, Bin, Client, Wrapper
    <3>3. Own(t)'
      <4>1. t \in alone' => t \in alone /\ UNCHANGED <<bindir, profile>>
        BY <2>1 DEF Quiet, Writes, Places, Changes
      <4> QED
        BY <1>1, <2>1, <3>1, <4>1 DEF Own, Active, At
    <3> QED
      BY <3>1, <3>2, <3>3
  <2> QED
    BY <1>1, <2>1 DEF RunInv, Verified
<1>10. WholeInv'
  BY DEF Quiet, Writes, Places, Changes, IInv, WholeInv
<1>11. CalmInv'
  BY <1>2 DEF Quiet, Writes, Places, Changes, IInv, CalmInv
<1> QED
  BY <1>6, <1>7, <1>8, <1>9, <1>10, <1>11 DEF IInv

(* One fault less. *)
LEMMA Fewer ==
  ASSUME NEW f \in 0..MaxFaults, f > 0
  PROVE  f - 1 \in 0..MaxFaults
  BY InstallerAssumption

LEMMA IdleFits ==
  ASSUME NEW r \in Run, run'[r] = Idle
  PROVE  /\ Idle \in RunState /\ Verified(Idle)
         /\ Placed(r)' /\ Own(r)' /\ Replacing(r)' = {}
<1>1. Idle \in RunState /\ Idle.pc = "idle" /\ Idle.bin = Client
  BY DEF Idle, RunState, Label, Bin, Client
<1> QED
  BY <1>1 DEF Verified, Placed, Own, Active, At, Replacing, Client, Wrapper

(* The run dies: a check that fails, or a signal.                          *)
LEMMA DeathKeeps ==
  ASSUME IInv, NEW r \in Run, Die(r), faults' \in 0..MaxFaults,
         cut' = cut \cup Replacing(r), UNCHANGED <<gateway, bindir, profile, pull>>
  PROVE  IInv'
<1>1. run' = [run EXCEPT ![r] = Idle] /\ run'[r] = Idle
  BY DEF Die, IInv, TypeOK
<1>2. RunStep(r, Idle)
  BY <1>1, IdleFits DEF RunStep
<1>3. Quiet(r)
  BY <1>1, IdleFits DEF Quiet, Die, Replacing, IInv, TypeOK
<1> QED
  BY <1>1, <1>2, <1>3, IdleFits, RunStepKeeps

-----------------------------------------------------------------------------
(* The steps of a run *)

(* One that only changes what the run knows.                               *)
LEMMA ThinkKeeps ==
  ASSUME IInv, NEW r \in Run, NEW n \in RunState,
         run' = [run EXCEPT ![r] = n], Active(r), faults' \in 0..MaxFaults,
         run[r].pc \in {"sums", "checksums", "archive", "checkarchive"},
         n.pc \in {"checksums", "archive", "checkarchive", "place"},
         n.script = run[r].script, n.bin = run[r].bin, Verified(n),
         UNCHANGED <<gateway, bindir, profile, pull, history>>
  PROVE  IInv'
<1>1. run'[r] = n
  BY DEF IInv, TypeOK
<1>2. RunStep(r, n) /\ Quiet(r)
  BY DEF RunStep, Quiet, history, Replacing, At, IInv, TypeOK
<1>3. Placed(r)'
  BY <1>1, <1>2, RunType, ThereKept DEF Placed, Bin, Client, Wrapper
<1>4. Own(r)'
  BY <1>1, RunType DEF Own, Active, At, history
<1> QED
  BY <1>2, <1>3, <1>4, RunStepKeeps

LEMMA FetchSumsKeeps ==
  ASSUME IInv, NEW r \in Run, FetchSums(r)
  PROVE  IInv'
<1>1. PICK c \in Contents :
        /\ Fetched(c, Pinned(r))
        /\ run' = [run EXCEPT ![r] = [@ EXCEPT !.pc = "checksums", !.sums = c]]
  BY DEF FetchSums
<1> DEFINE n == [run[r] EXCEPT !.pc = "checksums", !.sums = c]
<1>2. run[r].pc = "sums" /\ Active(r)
  BY DEF FetchSums, At, Active
<1>3. /\ n \in RunState /\ n.pc = "checksums" /\ n.script = run[r].script
      /\ n.bin = run[r].bin
  BY <1>1, RunType DEF RunState, Label
<1>4. Verified(n)
  BY <1>2, <1>3, RunType DEF Verified
<1>5. faults' \in 0..MaxFaults
  BY <1>1, RunType, Fewer DEF Fetched
<1> QED
  BY <1>1, <1>2, <1>3, <1>4, <1>5, ThinkKeeps DEF FetchSums

LEMMA CheckSumsKeeps ==
  ASSUME IInv, NEW r \in Run, CheckSums(r)
  PROVE  IInv'
<1> DEFINE n == [run[r] EXCEPT !.pc = "archive"]
<1>1. /\ run[r].pc = "checksums" /\ Active(r)
      /\ UNCHANGED <<gateway, bindir, profile, pull, faults>>
      /\ faults' \in 0..MaxFaults
  BY RunType DEF CheckSums, At, Active
<1>2. ASSUME run[r].sums = Pinned(r), Goto(r, "archive"), UNCHANGED history
      PROVE  IInv'
  <2>1. run' = [run EXCEPT ![r] = n]
    BY <1>2 DEF Goto
  <2>2. /\ n \in RunState /\ n.pc = "archive" /\ n.script = run[r].script
        /\ n.bin = run[r].bin /\ n.sums = run[r].sums
    BY RunType DEF RunState, Label
  <2>3. Verified(n)
    BY <1>1, <1>2, <2>2, RunType DEF Verified, Pinned
  <2> QED
    BY <1>1, <1>2, <2>1, <2>2, <2>3, ThinkKeeps
<1>3. ASSUME Die(r), UNCHANGED cut
      PROVE  IInv'
  <2>1. Replacing(r) = {}
    BY <1>1 DEF Replacing, At
  <2> QED
    BY <1>1, <1>3, <2>1, DeathKeeps
<1> QED
  BY <1>2, <1>3 DEF CheckSums

LEMMA FetchArchiveKeeps ==
  ASSUME IInv, NEW r \in Run, FetchArchive(r)
  PROVE  IInv'
<1>1. PICK c \in Contents :
        /\ Fetched(c, run[r].sums)
        /\ run' = [run EXCEPT ![r] = [@ EXCEPT !.pc = "checkarchive", !.archive = c]]
  BY DEF FetchArchive
<1> DEFINE n == [run[r] EXCEPT !.pc = "checkarchive", !.archive = c]
<1>2. run[r].pc = "archive" /\ Active(r)
  BY DEF FetchArchive, At, Active
<1>3. /\ n \in RunState /\ n.pc = "checkarchive" /\ n.script = run[r].script
      /\ n.bin = run[r].bin /\ n.sums = run[r].sums
  BY <1>1, RunType DEF RunState, Label
<1>4. Verified(n)
  BY <1>2, <1>3, RunType DEF Verified
<1>5. faults' \in 0..MaxFaults
  BY <1>1, RunType, Fewer DEF Fetched
<1> QED
  BY <1>1, <1>2, <1>3, <1>4, <1>5, ThinkKeeps DEF FetchArchive

LEMMA CheckArchiveKeeps ==
  ASSUME IInv, NEW r \in Run, CheckArchive(r)
  PROVE  IInv'
<1> DEFINE n == [run[r] EXCEPT !.pc = "place"]
<1>1. /\ run[r].pc = "checkarchive" /\ Active(r)
      /\ UNCHANGED <<gateway, bindir, profile, pull, faults>>
      /\ faults' \in 0..MaxFaults
  BY RunType DEF CheckArchive, At, Active
<1>2. ASSUME run[r].archive = run[r].sums, Goto(r, "place"), UNCHANGED history
      PROVE  IInv'
  <2>1. run' = [run EXCEPT ![r] = n]
    BY <1>2 DEF Goto
  <2>2. /\ n \in RunState /\ n.pc = "place" /\ n.script = run[r].script
        /\ n.bin = run[r].bin /\ n.archive = run[r].archive
    BY RunType DEF RunState, Label
  <2>3. Verified(n)
    BY <1>1, <1>2, <2>2, RunType DEF Verified
  <2> QED
    BY <1>1, <1>2, <2>1, <2>2, <2>3, ThinkKeeps
<1>3. ASSUME Die(r), UNCHANGED cut
      PROVE  IInv'
  <2>1. Replacing(r) = {}
    BY <1>1 DEF Replacing, At
  <2> QED
    BY <1>1, <1>3, <2>1, DeathKeeps
<1> QED
  BY <1>2, <1>3 DEF CheckArchive

(* The run turns to its next binary, or to the profile.                    *)
LEMMA NextBinIs ==
  ASSUME IInv, NEW r \in Run, Active(r), NextBin(r)
  PROVE  \E n \in RunState :
           /\ run' = [run EXCEPT ![r] = n] /\ run'[r] = n
           /\ n.script = run[r].script /\ n.bin = Wrapper
           /\ run[r].bin = Client => n.pc = "sums"
           /\ run[r].bin = Wrapper => n.pc = "profile"
           /\ Verified(n) /\ Replacing(r)' = {}
<1> DEFINE n == [run[r] EXCEPT !.pc = After(run[r].bin), !.bin = "decdn-sponsored",
                               !.sums = None, !.archive = None]
<1>1. run' = [run EXCEPT ![r] = n] /\ run'[r] = n
  BY DEF NextBin, IInv, TypeOK
<1>2. /\ n \in RunState /\ n.script = run[r].script /\ n.bin = Wrapper
      /\ n.pc = After(run[r].bin) /\ n.pc \in {"sums", "profile"}
  BY RunType DEF RunState, Label, Bin, After, Wrapper
<1>3. /\ run[r].bin = Client => n.pc = "sums"
      /\ run[r].bin = Wrapper => n.pc = "profile"
  BY <1>2 DEF After, Client, Wrapper
<1>4. Verified(n)
  BY <1>2, RunType DEF Verified
<1>5. Replacing(r)' = {}
  BY <1>1, <1>2 DEF Replacing, At
<1> QED
  BY <1>1, <1>2, <1>3, <1>4, <1>5

(* A binary is in its place.                                               *)
LEMMA InstallKeeps ==
  ASSUME IInv, NEW r \in Run, run[r].pc \in {"place", "create", "copy"}, NextBin(r),
         bindir' = [bindir EXCEPT ![run[r].bin] = run[r].archive],
         Changes(r), cut' = cut \ {run[r].bin},
         UNCHANGED <<gateway, profile, pull, faults>>
  PROVE  IInv'
<1>1. Active(r)
  BY DEF Active, At
<1>2. PICK n \in RunState :
           /\ run' = [run EXCEPT ![r] = n] /\ run'[r] = n
           /\ n.script = run[r].script /\ n.bin = Wrapper
           /\ run[r].bin = Client => n.pc = "sums"
           /\ run[r].bin = Wrapper => n.pc = "profile"
           /\ Verified(n) /\ Replacing(r)' = {}
  BY <1>1, NextBinIs
<1>3. run[r].archive = Pinned(r) /\ Pinned(r) \in Contents
  BY <1>1, RunType DEF Verified, Pinned, Contents
<1>4. \A b \in Bin : bindir'[b] = IF b = run[r].bin THEN Pinned(r) ELSE bindir[b]
  BY <1>3 DEF IInv, TypeOK
<1>5. RunStep(r, n)
  BY <1>2, RunType DEF RunStep
<1>6. Places(r, Pinned(r))
  BY <1>1, <1>3, RunType DEF Places, IInv, TypeOK
<1>7. run[r].bin \in {Client, Wrapper} /\ Client # Wrapper
  BY RunType DEF Bin, Client, Wrapper
<1>8. Placed(r)'
  <2>1. \A b \in Bin : b = run[r].bin => There(b)'
    BY <1>3, <1>4 DEF There
  <2>2. There(Client)'
    BY <1>5, <1>6, <1>7, <2>1, RunType, ThereKept DEF Placed, Bin, Client, Wrapper
  <2>3. run[r].bin = Wrapper => There(Wrapper)'
    BY <2>1 DEF Bin, Wrapper
  <2> QED
    BY <1>2, <1>7, <2>2, <2>3 DEF Placed
<1>9. Own(r)'
  <2>1. r \in alone' => r \in alone
    BY DEF Changes
  <2>2. bindir'[run[r].bin] = Pin[run[r].script][run[r].bin]
    BY <1>4, RunType DEF Pinned
  <2>3. run[r].bin = Wrapper => bindir'[Client] = bindir[Client]
    BY <1>4, <1>7 DEF Bin, Client
  <2>4. r \in alone' => bindir'[Client] = Pin[run[r].script][Client]
    BY <1>1, <1>7, <2>1, <2>2, <2>3, RunType DEF Own
  <2> QED
    BY <1>2, <1>7, <2>2, <2>4 DEF Own
<1> QED
  BY <1>2, <1>5, <1>6, <1>8, <1>9, RunStepKeeps

LEMMA RenameKeeps ==
  ASSUME IInv, NEW r \in Run, Rename(r)
  PROVE  IInv'
<1>1. run[r].pc \in {"place", "create", "copy"}
  BY DEF Rename, At
<1> QED
  BY <1>1, InstallKeeps DEF Rename

(* On the way from place to copy.                                          *)
LEMMA OnTheWayKeeps ==
  ASSUME IInv, NEW r \in Run, NEW n \in RunState, NEW c,
         run' = [run EXCEPT ![r] = n], run[r].pc \in {"place", "create"},
         n.script = run[r].script, n.bin = run[r].bin, n.archive = run[r].archive,
         (n.pc = "create" /\ c = None) \/ (n.pc = "copy" /\ c = r),
         bindir' = [bindir EXCEPT ![run[r].bin] = c],
         Changes(r), UNCHANGED <<gateway, profile, pull, faults, cut>>
  PROVE  IInv'
<1>1. run'[r] = n /\ Active(r)
  BY DEF IInv, TypeOK, Active, At
<1>3. \A b \in Bin : bindir'[b] = IF b = run[r].bin THEN c ELSE bindir[b]
  BY DEF IInv, TypeOK
<1>4. RunStep(r, n)
  BY <1>1, RunType DEF RunStep
<1>5. run[r].bin \in Replacing(r)'
  BY <1>1, <1>3, RunType DEF Replacing, At
<1>6. Places(r, c)
  BY <1>5 DEF Places, IInv, TypeOK
<1>7. Verified(n)
  BY RunType DEF Verified
<1>8. Placed(r)'
  <2>1. \A b \in Bin : b = run[r].bin => There(b)'
    BY <1>5 DEF There
  <2>2. run[r].bin = Wrapper => There(Client)'
    BY <1>4, <1>6, RunType, ThereKept DEF Placed, Bin, Client
  <2> QED
    BY <1>1, <2>1, <2>2, RunType DEF Placed
<1>9. Own(r)'
  <2>1. r \in alone' => r \in alone
    BY DEF Changes
  <2>2. run[r].bin = Wrapper => bindir'[Client] = bindir[Client]
    BY <1>3 DEF Bin, Client, Wrapper
  <2>3. n.pc = "copy" => bindir'[run[r].bin] = r
    BY <1>3, RunType
  <2> QED
    BY <1>1, <2>1, <2>2, <2>3, RunType DEF Own
<1> QED
  BY <1>4, <1>6, <1>7, <1>8, <1>9, RunStepKeeps

LEMMA UnlinkKeeps ==
  ASSUME IInv, NEW r \in Run, Unlink(r)
  PROVE  IInv'
<1> DEFINE n == [run[r] EXCEPT !.pc = "create"]
<1>1. /\ n \in RunState /\ n.pc = "create" /\ n.script = run[r].script
      /\ n.bin = run[r].bin /\ n.archive = run[r].archive
  BY RunType DEF RunState, Label
<1>2. run' = [run EXCEPT ![r] = n] /\ run[r].pc \in {"place", "create"}
  BY DEF Unlink, Goto, At
<1> QED
  BY <1>1, <1>2, OnTheWayKeeps DEF Unlink

LEMMA CopyBeginsKeeps ==
  ASSUME IInv, NEW r \in Run, CopyBegins(r)
  PROVE  IInv'
<1> DEFINE n == [run[r] EXCEPT !.pc = "copy"]
<1>1. /\ n \in RunState /\ n.pc = "copy" /\ n.script = run[r].script
      /\ n.bin = run[r].bin /\ n.archive = run[r].archive
  BY RunType DEF RunState, Label
<1>2. run' = [run EXCEPT ![r] = n] /\ run[r].pc \in {"place", "create"}
  BY DEF CopyBegins, Goto, At
<1> QED
  BY <1>1, <1>2, OnTheWayKeeps DEF CopyBegins

LEMMA CopyRefusedKeeps ==
  ASSUME IInv, NEW r \in Run, CopyRefused(r)
  PROVE  IInv'
<1>1. Replacing(r) = {}
  BY DEF CopyRefused, Replacing, At
<1>2. faults' \in 0..MaxFaults
  BY RunType DEF CopyRefused
<1> QED
  BY <1>1, <1>2, DeathKeeps DEF CopyRefused

LEMMA CopyEndsKeeps ==
  ASSUME IInv, NEW r \in Run, CopyEnds(r)
  PROVE  IInv'
<1>1. run[r].pc = "copy" /\ Active(r) /\ NextBin(r)
  BY DEF CopyEnds, At, Active
<1>2. CASE bindir[run[r].bin] = r
  BY <1>1, <1>2, InstallKeeps DEF CopyEnds
<1>3. CASE bindir[run[r].bin] # r
  <2>1. PICK n \in RunState :
           /\ run' = [run EXCEPT ![r] = n] /\ run'[r] = n
           /\ n.script = run[r].script /\ n.bin = Wrapper
           /\ run[r].bin = Client => n.pc = "sums"
           /\ run[r].bin = Wrapper => n.pc = "profile"
           /\ Verified(n) /\ Replacing(r)' = {}
    BY <1>1, NextBinIs
  <2>2. RunStep(r, n) /\ Quiet(r)
    BY <1>1, <1>3, <2>1, RunType DEF CopyEnds, RunStep, Quiet, history, Replacing,
                                     At, IInv, TypeOK
  <2>3. r \notin alone
    BY <1>1, <1>3, RunType DEF Own
  <2>4. Own(r)'
    BY <1>3, <2>3 DEF Own, CopyEnds, history
  <2>5. There(run[r].bin)
    BY <1>1, RunType DEF Placed
  <2>6. Placed(r)'
    BY <2>1, <2>2, <2>5, RunType, ThereKept DEF Placed, Bin, Client, Wrapper
  <2> QED
    BY <2>1, <2>2, <2>4, <2>6, RunStepKeeps
<1> QED
  BY <1>2, <1>3

LEMMA TruncateProfileKeeps ==
  ASSUME IInv, NEW r \in Run, TruncateProfile(r)
  PROVE  IInv'
<1> DEFINE n == [run[r] EXCEPT !.pc = "write"]
<1>1. /\ run[r].pc = "profile" /\ Active(r)
      /\ run' = [run EXCEPT ![r] = n] /\ run'[r] = n
      /\ profile' = Torn /\ Changes(r)
      /\ UNCHANGED <<gateway, bindir, pull, faults, cut>>
  BY DEF TruncateProfile, At, Active, Goto, IInv, TypeOK
<1>2. /\ n \in RunState /\ n.script = run[r].script /\ n.bin = run[r].bin
      /\ n.pc = "write"
  BY RunType DEF RunState, Label
<1>3. RunStep(r, n) /\ Writes(r)
  BY <1>1, <1>2, RunType DEF RunStep, Writes, Replacing, At, Changes
<1>4. \A b \in Bin : There(b)
  BY <1>1, RunType DEF Placed, Bin, Client, Wrapper
<1>5. Verified(n)
  BY <1>1, <1>2, RunType DEF Verified
<1>6. \A b \in Bin : There(b)'
  BY <1>3, <1>4, ThereKept
<1>7. Placed(r)'
  BY <1>1, <1>2, <1>6, RunType DEF Placed, Bin, Client, Wrapper
<1>8. Own(r)'
  BY <1>1, <1>2, RunType DEF Own, Changes
<1>9. whole' = None
  BY <1>1 DEF Changes
<1> QED
  BY <1>3, <1>4, <1>5, <1>7, <1>8, <1>9, RunStepKeeps

LEMMA WriteProfileKeeps ==
  ASSUME IInv, NEW r \in Run, WriteProfile(r)
  PROVE  IInv'
<1>1. /\ run[r].pc = "write" /\ Active(r)
      /\ run' = [run EXCEPT ![r] = Idle] /\ run'[r] = Idle
      /\ profile' \in {run[r].script} \cup (IF profile = Torn THEN {} ELSE {Torn})
      /\ alone' = {} /\ calm' = FALSE
      /\ whole' = IF r \in alone THEN run[r].script ELSE None
      /\ UNCHANGED <<gateway, bindir, pull, faults, cut>>
  BY DEF WriteProfile, At, Active, IInv, TypeOK
<1>2. RunStep(r, Idle) /\ Writes(r)
  BY <1>1, IdleFits, RunType DEF RunStep, Writes, Replacing, At
<1>3. \A b \in Bin : There(b)
  BY <1>1, RunType DEF Placed, Bin, Client, Wrapper
<1>4. ASSUME r \in alone
      PROVE  whole' \in Script /\ WholeInv'
  <2>1. whole' = run[r].script /\ whole' \in Script
    BY <1>1, <1>4, RunType
  <2>2. profile' = whole'
    BY <1>1, <1>4, <2>1, RunType DEF Own
  <2>3. /\ bindir[Client] = Pin[run[r].script][Client]
        /\ bindir[Wrapper] = Pin[run[r].script][Wrapper]
    BY <1>1, <1>4, RunType DEF Own, Placed
  <2> QED
    BY <1>1, <2>1, <2>2, <2>3 DEF WholeInv, Bin, Client, Wrapper
<1>5. whole' = None \/ (whole' \in Script /\ WholeInv')
  BY <1>1, <1>4
<1> QED
  BY <1>1, <1>2, <1>3, <1>5, IdleFits, RunStepKeeps

LEMMA StartKeeps ==
  ASSUME IInv, NEW r \in Run, Start(r)
  PROVE  IInv'
<1> DEFINE n == [Idle EXCEPT !.pc = "sums", !.script = gateway]
<1>1. /\ run' = [run EXCEPT ![r] = n] /\ run'[r] = n /\ run[r].pc = "idle"
      /\ alone' = alone \cup {r}
      /\ UNCHANGED <<gateway, bindir, profile, pull, faults, whole, calm, cut>>
  BY DEF Start, Active, At, IInv, TypeOK
<1>2. gateway \in Script
  BY DEF IInv, TypeOK
<1>3. /\ n \in RunState /\ n.pc = "sums" /\ n.script = gateway /\ n.bin = Client
  BY <1>2 DEF Idle, RunState, Label, Bin, Client
<1>4. RunStep(r, n) /\ Quiet(r)
  BY <1>1, <1>3, RunType DEF RunStep, Quiet, Replacing, At, IInv, TypeOK
<1>5. Verified(n)
  BY <1>2, <1>3 DEF Verified
<1>6. Placed(r)' /\ Own(r)'
  BY <1>1, <1>3 DEF Placed, Own, Client, Wrapper
<1> QED
  BY <1>4, <1>5, <1>6, RunStepKeeps

LEMMA InterruptKeeps ==
  ASSUME IInv, NEW r \in Run, Interrupt(r)
  PROVE  IInv'
<1>1. faults' \in 0..MaxFaults
  BY Fewer DEF Interrupt, IInv, TypeOK
<1> QED
  BY <1>1, DeathKeeps DEF Interrupt

LEMMA RunKeeps ==
  ASSUME IInv, NEW r \in Run, Start(r) \/ Step(r) \/ Interrupt(r)
  PROVE  IInv'
  BY StartKeeps, InterruptKeeps, FetchSumsKeeps, CheckSumsKeeps,
     FetchArchiveKeeps, CheckArchiveKeeps, RenameKeeps, UnlinkKeeps,
     CopyBeginsKeeps, CopyRefusedKeeps, CopyEndsKeeps,
     TruncateProfileKeeps, WriteProfileKeeps DEF Step

-----------------------------------------------------------------------------
(* The pull, and the gateway *)

(* Neither touches the machine that the runs install on.                   *)
LEMMA ElsewhereKeeps ==
  ASSUME IInv, gateway' \in Script, pull' \in PullState, faults' \in 0..MaxFaults,
         pull'.pc \in {"spawn", "decdn"} => pull'.cfg # None,
         calm' \in BOOLEAN, CalmInv',
         UNCHANGED <<bindir, profile, run, alone, whole, cut>>
  PROVE  IInv'
<1>1. TypeOK' /\ OnlyPinned'
  BY DEF IInv, TypeOK, OnlyPinned
<1>2. \A b : There(b)' <=> There(b)
  BY DEF There, Replacing, At
<1>3. BinariesBehindProfile'
  BY DEF IInv, BinariesBehindProfile, Replacing, At
<1>4. RunInv' /\ WholeInv'
  BY <1>2 DEF IInv, RunInv, Verified, Placed, Own, Active, At, WholeInv
<1> QED
  BY <1>1, <1>3, <1>4 DEF IInv

LEMMA PullKeeps ==
  ASSUME IInv, Pull
  PROVE  IInv'
<1>1. /\ UNCHANGED <<gateway, bindir, profile, run, faults, alone, whole, cut>>
      /\ gateway \in Script /\ pull \in PullState /\ faults \in 0..MaxFaults
      /\ bindir \in [Bin -> Contents \cup {None} \cup Run]
      /\ profile \in Script \cup {None, Torn} /\ calm \in BOOLEAN
      /\ pull.pc \in {"spawn", "decdn"} => pull.cfg # None
  BY DEF Pull, Launch, Load, Spawn, Finish, history, IInv, TypeOK
<1>2. Off \in PullState /\ Off.pc = "off"
  BY DEF Off, PullState
<1>3. CASE Launch
  <2> DEFINE n == [Off EXCEPT !.pc = "load", !.exe = bindir["decdn-sponsored"]]
  <2>1. pull' = n /\ bindir[Wrapper] \in Contents /\ calm' = (whole # None)
    BY <1>3 DEF Launch, Wrapper
  <2>2. n.pc = "load" /\ n.exe = bindir[Wrapper]
    BY DEF Off, Wrapper
  <2>3. n \in PullState
    BY <2>1 DEF Off, PullState, Wrapper
  <2>4. whole # None => bindir[Wrapper] = Pin[whole][Wrapper]
    BY DEF IInv, WholeInv, Bin, Wrapper
  <2>5. CalmInv'
    BY <1>1, <2>1, <2>2, <2>4 DEF CalmInv
  <2> QED
    BY <1>1, <2>1, <2>2, <2>3, <2>5, ElsewhereKeeps
<1>4. ASSUME pull' = Off, calm' = calm
      PROVE  IInv'
  <2>1. CalmInv'
    BY <1>1, <1>2, <1>4 DEF IInv, CalmInv
  <2> QED
    BY <1>1, <1>2, <1>4, <2>1, ElsewhereKeeps
<1>5. CASE Load
  <2> DEFINE n == [pull EXCEPT !.pc = "spawn", !.cfg = profile]
  <2>1. ASSUME profile # None, pull' = n
        PROVE  IInv'
    <3>1. n \in PullState /\ n.pc = "spawn" /\ n.cfg = profile /\ n.exe = pull.exe
      BY <1>1, <2>1 DEF PullState
    <3>2. pull.pc = "load" /\ calm' = calm
      BY <1>5 DEF Load, history
    <3>3. CalmInv'
      BY <1>1, <2>1, <3>1, <3>2 DEF IInv, CalmInv, WholeInv
    <3> QED
      BY <1>1, <2>1, <3>1, <3>2, <3>3, ElsewhereKeeps
  <2> QED
    BY <1>4, <1>5, <2>1 DEF Load, history
<1>6. CASE Spawn
  <2> DEFINE n == [pull EXCEPT !.pc = "decdn", !.decdn = bindir["decdn"]]
  <2>1. ASSUME bindir["decdn"] \in Contents
        PROVE  IInv'
    <3>1. pull' = n /\ pull.pc = "spawn" /\ calm' = calm
      BY <1>6, <2>1 DEF Spawn, history
    <3>2. /\ n \in PullState /\ n.pc = "decdn" /\ n.cfg = pull.cfg
          /\ n.exe = pull.exe /\ n.decdn = bindir[Client]
      BY <1>1, <2>1 DEF PullState, Client
    <3>3. CalmInv'
      BY <1>1, <3>1, <3>2 DEF IInv, CalmInv, WholeInv, Bin, Client
    <3> QED
      BY <1>1, <3>1, <3>2, <3>3, ElsewhereKeeps
  <2> QED
    BY <1>4, <1>6, <2>1 DEF Spawn, history
<1>7. CASE Finish
  BY <1>4, <1>7 DEF Finish, history
<1> QED
  BY <1>3, <1>5, <1>6, <1>7 DEF Pull

LEMMA RedeployKeeps ==
  ASSUME IInv, Redeploy
  PROVE  IInv'
<1>1. gateway' \in Script /\ faults' \in 0..MaxFaults
  BY InstallerAssumption DEF Redeploy, IInv, TypeOK
<1>2. /\ pull' \in PullState /\ CalmInv' /\ calm' \in BOOLEAN
      /\ pull'.pc \in {"spawn", "decdn"} => pull'.cfg # None
  BY DEF Redeploy, history, IInv, TypeOK, CalmInv
<1> QED
  BY <1>1, <1>2, ElsewhereKeeps DEF Redeploy, history

-----------------------------------------------------------------------------
(* The invariant *)

LEMMA InitHolds ==
  ASSUME Init
  PROVE  IInv
<1>1. /\ Idle \in RunState /\ Idle.pc = "idle" /\ Idle.bin = Client
      /\ Off \in PullState /\ Off.pc = "off"
  BY DEF Idle, RunState, Label, Bin, Client, Off, PullState
<1>2. \A r \in Run : run[r] = Idle
  BY DEF Init
<1>3. TypeOK
  <2>1. /\ pull \in PullState
        /\ pull.pc \in {"spawn", "decdn"} => pull.cfg # None
    BY <1>1 DEF Init
  <2>2. /\ bindir \in [Bin -> Contents \cup {None} \cup Run]
        /\ run \in [Run -> RunState]
    BY <1>1 DEF Init
  <2>3. faults \in 0..MaxFaults
    BY InstallerAssumption DEF Init
  <2> QED
    BY <2>1, <2>2, <2>3 DEF Init, TypeOK
<1>4. OnlyPinned /\ BinariesBehindProfile
  BY DEF Init, OnlyPinned, BinariesBehindProfile
<1>5. RunInv
  BY <1>1, <1>2 DEF RunInv, Verified, Placed, Own, Active, At, Client, Wrapper
<1>6. WholeInv /\ CalmInv
  BY DEF Init, WholeInv, CalmInv
<1> QED
  BY <1>3, <1>4, <1>5, <1>6 DEF IInv

LEMMA StepKeeps ==
  ASSUME IInv, [Next]_vars
  PROVE  IInv'
<1>1. CASE UNCHANGED vars
  <2>1. CalmInv'
    BY <1>1 DEF vars, IInv, CalmInv
  <2> QED
    BY <1>1, <2>1, ElsewhereKeeps DEF vars, IInv, TypeOK
<1> QED
  BY <1>1, RunKeeps, PullKeeps, RedeployKeeps DEF Next

THEOREM Inductive == Spec => []IInv
<1>1. Init => IInv
  BY InitHolds
<1>2. IInv /\ [Next]_vars => IInv'
  BY StepKeeps
<1> QED
  BY <1>1, <1>2, PTL DEF Spec

-----------------------------------------------------------------------------
(* What follows *)

(* Every variable keeps its type. *)
THEOREM InstallerTypeCorrect == Spec => []TypeOK
<1>1. IInv => TypeOK
  BY DEF IInv
<1> QED
  BY <1>1, Inductive, PTL

(* Only pinned releases land in BINDIR, however many runs overlap and      *)
(* whatever is downloaded.                                                 *)
THEOREM PinnedOnly == Spec => []OnlyPinned
<1>1. IInv => OnlyPinned
  BY DEF IInv
<1> QED
  BY <1>1, Inductive, PTL

(* With a profile the binaries are there, but for what a run is replacing  *)
(* at this moment or was when it was killed.                               *)
THEOREM BinariesComeFirst == Spec => []BinariesBehindProfile
<1>1. IInv => BinariesBehindProfile
  BY DEF IInv
<1> QED
  BY <1>1, Inductive, PTL

(* After an installation that no other disturbed, a pull is of one script. *)
THEOREM PullsOneScript == Spec => []OneScript
<1>1. IInv => OneScript
  BY DEF IInv, CalmInv, OneScript, Client, Wrapper
<1> QED
  BY <1>1, Inductive, PTL
=============================================================================
