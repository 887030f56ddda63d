------------------------------ MODULE Installer ------------------------------
(***************************************************************************)
(* The installers (crates/server/assets/decdn.sh and decdn.ps1, rendered   *)
(* by crates/server/src/http/installer.rs) on a user's machine, and the    *)
(* wrapper that is started on what they leave there.                       *)
(*                                                                         *)
(* A run of the script goes through                                        *)
(*                                                                         *)
(*   idle -> sums -> checksums -> archive -> checkarchive -> place         *)
(*        -> (again, for decdn-sponsored) -> profile -> write -> idle      *)
(*                                                                         *)
(* with create and copy after place where mv has to copy from one file     *)
(* system to another (mktemp -d is under /tmp, BINDIR under the home       *)
(* directory): it removes what is there, creates the file and writes it.   *)
(* Runs may overlap, of scripts that the gateway rendered with different   *)
(* releases; each has a work directory of its own, all share BINDIR and    *)
(* the profile.  A download may bring anything, a run may end anywhere.    *)
(*                                                                         *)
(* The operators named Faulty... are no part of the specification: each is *)
(* the operator below it with a plausible mistake.                         *)
(***************************************************************************)
EXTENDS Naturals, FiniteSets

CONSTANTS
  Run,       \* runs of an installer
  Script,    \* what the gateway renders: pins and settings of one configuration
  Release,   \* builds of the two binaries
  Pin,       \* for each script and binary, the release that it pins
  Junk,      \* any other bytes
  Later,     \* bound: for each script, those that may be deployed after it
  MaxFaults, \* bound: downloads that go wrong and runs that are killed
  None,      \* nothing there
  Torn       \* a profile that is not, or not all, what one run writes

Bin == {"decdn", "decdn-sponsored"}

ASSUME InstallerAssumption ==
  /\ Script # {}
  /\ Pin \in [Script -> [Bin -> Release]]
  /\ Later \in [Script -> SUBSET Script]
  /\ MaxFaults \in Nat
  /\ {Junk, None, Torn} \cap Release = {}
  /\ {None, Torn} \cap Script = {}
  /\ None # Torn /\ Junk # None
  /\ Run \cap (Release \cup {Junk, None}) = {}

VARIABLES
  gateway, \* the script that GET /decdn.sh answers with
  bindir,  \* ~/.local/bin: the two binaries
  profile, \* ~/.decdn/sponsor.toml: the script whose settings it holds
  run,     \* the runs of the installer
  pull,    \* a decdn-sponsored process
  faults,  \* how much may still go wrong
  alone,   \* history: the runs that saw no other change BINDIR or the profile
  whole,   \* history: the script of the last run to change them, if it came to
           \* its end alone
  calm,    \* history: the pull began on a whole, and nothing changed since
  cut      \* history: binaries that a run which was replacing them left undone

history == <<alone, whole, calm, cut>>

vars == <<gateway, bindir, profile, run, pull, faults, alone, whole, calm, cut>>

Label == {"idle", "sums", "checksums", "archive", "checkarchive", "place",
          "create", "copy", "profile", "write"}

(* A SHA256SUMS file and an archive stand for the release that they belong *)
(* to: a digest is compared as the contents it is the digest of.           *)
Contents == Release \cup {Junk}

Idle == [pc |-> "idle", script |-> None, bin |-> "decdn", sums |-> None,
         archive |-> None]

Off == [pc |-> "off", exe |-> None, cfg |-> None, decdn |-> None]

RunState ==
  [pc : Label, script : Script \cup {None}, bin : Bin,
   sums : Contents \cup {None}, archive : Contents \cup {None}]

PullState ==
  [pc : {"off", "load", "spawn", "decdn"}, exe : Contents \cup {None},
   cfg : Script \cup {None, Torn}, decdn : Contents \cup {None}]

(* A binary that is being copied is the run that writes it.                *)
TypeOK ==
  /\ gateway \in Script
  /\ bindir \in [Bin -> Contents \cup {None} \cup Run]
  /\ profile \in Script \cup {None, Torn}
  /\ run \in [Run -> RunState]
  /\ pull \in PullState
  /\ pull.pc \in {"spawn", "decdn"} => pull.cfg # None
  /\ faults \in 0..MaxFaults
  /\ alone \subseteq Run
  /\ whole \in Script \cup {None}
  /\ calm \in BOOLEAN
  /\ cut \subseteq Bin

Init ==
  /\ gateway \in Script
  /\ bindir = [b \in Bin |-> None]
  /\ profile = None
  /\ run = [r \in Run |-> Idle]
  /\ pull = Off
  /\ faults = MaxFaults
  /\ alone = {}
  /\ whole = None
  /\ calm = FALSE
  /\ cut = {}

At(r, label) == run[r].pc = label

Goto(r, label) == run' = [run EXCEPT ![r] = [@ EXCEPT !.pc = label]]

Active(r) == ~At(r, "idle")

Pinned(r) == Pin[run[r].script][run[r].bin]

(* What a download brings: what was asked for, or, as one fault, anything. *)
Fetched(c, good) ==
  /\ c \in Contents
  /\ faults' = IF c = good THEN faults ELSE faults - 1
  /\ c = good \/ faults > 0

(* History of a step that changes BINDIR or the profile. *)
Changes(r) ==
  /\ alone' = alone \cap {r}
  /\ whole' = None
  /\ calm' = FALSE

(* What run r has removed, or is writing, and is not there yet. *)
Replacing(r) ==
  {b \in Bin : /\ b = run[r].bin
               /\ \/ At(r, "create") /\ bindir[b] = None
                  \/ At(r, "copy") /\ bindir[b] = r}

-----------------------------------------------------------------------------
(* The script *)

(* `curl .../decdn.sh | sh`: the script as the gateway renders it now. *)
Start(r) ==
  /\ ~Active(r)
  /\ run' = [run EXCEPT ![r] = [Idle EXCEPT !.pc = "sums", !.script = gateway]]
  /\ alone' = alone \cup {r}
  /\ UNCHANGED <<gateway, bindir, profile, pull, faults, whole, calm, cut>>

(* `die`, or `set -e` *)
Die(r) ==
  /\ run' = [run EXCEPT ![r] = Idle]
  /\ alone' = alone \ {r}
  /\ UNCHANGED <<whole, calm>>

(* Where the script goes when a binary is done. *)
After(bin) == IF bin = "decdn" THEN "sums" ELSE "profile"

NextBin(r) ==
  run' = [run EXCEPT ![r] =
            [@ EXCEPT !.pc = After(run[r].bin), !.bin = "decdn-sponsored",
                      !.sums = None, !.archive = None]]

FetchSums(r) ==
  /\ At(r, "sums")
  /\ \E c \in Contents :
       /\ Fetched(c, Pinned(r))
       /\ run' = [run EXCEPT ![r] = [@ EXCEPT !.pc = "checksums", !.sums = c]]
  /\ UNCHANGED <<gateway, bindir, profile, pull, history>>

(* Faulty variant: the comparison's result is not looked at. *)
FaultyCheckSums(r) ==
  /\ At(r, "checksums")
  /\ Goto(r, "archive")
  /\ UNCHANGED <<gateway, bindir, profile, pull, faults, history>>

(* Faulty variant: a binary that is there already is left as it is. *)
FaultyCheckSumsOnce(r) ==
  /\ At(r, "checksums")
  /\ \/ bindir[run[r].bin] # None /\ NextBin(r) /\ UNCHANGED history
     \/ /\ bindir[run[r].bin] = None
        /\ \/ run[r].sums = Pinned(r) /\ Goto(r, "archive") /\ UNCHANGED history
           \/ run[r].sums # Pinned(r) /\ Die(r) /\ UNCHANGED cut
  /\ UNCHANGED <<gateway, bindir, profile, pull, faults>>

(* SHA256SUMS has the pinned digest; otherwise the run dies. *)
CheckSums(r) ==
  /\ At(r, "checksums")
  /\ \/ run[r].sums = Pinned(r) /\ Goto(r, "archive") /\ UNCHANGED history
     \/ run[r].sums # Pinned(r) /\ Die(r) /\ UNCHANGED cut
  /\ UNCHANGED <<gateway, bindir, profile, pull, faults>>

FetchArchive(r) ==
  /\ At(r, "archive")
  /\ \E c \in Contents :
       /\ Fetched(c, run[r].sums)
       /\ run' = [run EXCEPT ![r] = [@ EXCEPT !.pc = "checkarchive", !.archive = c]]
  /\ UNCHANGED <<gateway, bindir, profile, pull, history>>

(* Faulty variant: a binary whose check fails is left out, and the script *)
(* goes on (no `die`, no `set -e`).                                       *)
FaultyCheckArchive(r) ==
  /\ At(r, "checkarchive")
  /\ IF run[r].archive = run[r].sums THEN Goto(r, "place") ELSE NextBin(r)
  /\ UNCHANGED <<gateway, bindir, profile, pull, faults, history>>

(* The archive has the digest that SHA256SUMS lists; otherwise it dies. *)
CheckArchive(r) ==
  /\ At(r, "checkarchive")
  /\ \/ run[r].archive = run[r].sums /\ Goto(r, "place") /\ UNCHANGED history
     \/ run[r].archive # run[r].sums /\ Die(r) /\ UNCHANGED cut
  /\ UNCHANGED <<gateway, bindir, profile, pull, faults>>

(* Unpacked in the work directory, and renamed into BINDIR.  PowerShell's  *)
(* Move-Item -Force removes what is there first, and then renames.         *)
Rename(r) ==
  /\ At(r, "place") \/ (At(r, "create") /\ bindir[run[r].bin] = None)
  /\ bindir' = [bindir EXCEPT ![run[r].bin] = run[r].archive]
  /\ NextBin(r)
  /\ Changes(r)
  /\ cut' = cut \ {run[r].bin}
  /\ UNCHANGED <<gateway, profile, pull, faults>>

(* Where mv has to copy, it removes what is there; the one of the BSDs     *)
(* does so again if it finds a file when it creates its own.               *)
Unlink(r) ==
  /\ At(r, "place") \/ (At(r, "create") /\ bindir[run[r].bin] # None)
  /\ bindir' = [bindir EXCEPT ![run[r].bin] = None]
  /\ Goto(r, "create")
  /\ Changes(r)
  /\ UNCHANGED <<gateway, profile, pull, faults, cut>>

(* It creates the file with O_EXCL ... *)
CopyBegins(r) ==
  /\ At(r, "create")
  /\ bindir[run[r].bin] = None
  /\ bindir' = [bindir EXCEPT ![run[r].bin] = r]
  /\ Goto(r, "copy")
  /\ Changes(r)
  /\ UNCHANGED <<gateway, profile, pull, faults, cut>>

(* ... and fails if another run was faster (GNU, and Move-Item) ... *)
CopyRefused(r) ==
  /\ At(r, "create")
  /\ bindir[run[r].bin] # None
  /\ Die(r)
  /\ UNCHANGED <<gateway, bindir, profile, pull, faults, cut>>

(* ... and writes it; if another run has removed it, to no avail. *)
CopyEnds(r) ==
  /\ At(r, "copy")
  /\ NextBin(r)
  /\ \/ /\ bindir[run[r].bin] = r
        /\ bindir' = [bindir EXCEPT ![run[r].bin] = run[r].archive]
        /\ Changes(r)
        /\ cut' = cut \ {run[r].bin}
     \/ /\ bindir[run[r].bin] # r
        /\ UNCHANGED <<bindir, history>>
  /\ UNCHANGED <<gateway, profile, pull, faults>>

(* `cat > sponsor.toml` truncates ... *)
TruncateProfile(r) ==
  /\ At(r, "profile")
  /\ profile' = Torn
  /\ Goto(r, "write")
  /\ Changes(r)
  /\ UNCHANGED <<gateway, bindir, pull, faults, cut>>

(* ... and writes; the script is at its end, but for the exec.  Over what  *)
(* another run has written since, the end of a longer text stays.          *)
WriteProfile(r) ==
  /\ At(r, "write")
  /\ profile' \in {run[r].script} \cup (IF profile = Torn THEN {} ELSE {Torn})
  /\ run' = [run EXCEPT ![r] = Idle]
  /\ alone' = {}
  /\ whole' = IF r \in alone THEN run[r].script ELSE None
  /\ calm' = FALSE
  /\ UNCHANGED <<gateway, bindir, pull, faults, cut>>

(* A signal, a closed terminal, a full disk, a platform without an archive. *)
Interrupt(r) ==
  /\ Active(r)
  /\ faults > 0
  /\ faults' = faults - 1
  /\ Die(r)
  /\ cut' = cut \cup Replacing(r)
  /\ UNCHANGED <<gateway, bindir, profile, pull>>

-----------------------------------------------------------------------------
(* decdn-sponsored, exec'ed by the script or typed later *)

Launch ==
  /\ pull.pc = "off"
  /\ bindir["decdn-sponsored"] \in Contents
  /\ pull' = [Off EXCEPT !.pc = "load", !.exe = bindir["decdn-sponsored"]]
  /\ calm' = (whole # None)
  /\ UNCHANGED <<gateway, bindir, profile, run, faults, alone, whole, cut>>

(* Faulty variant: what is read is taken as it is. *)
FaultyLoadRaw ==
  /\ pull.pc = "load"
  /\ pull' = [pull EXCEPT !.pc = "spawn", !.cfg = profile]
  /\ UNCHANGED <<gateway, bindir, profile, run, faults, history>>

(* WrapperConfig::load: a profile that is torn has not all the fields, or  *)
(* is cut inside its last value, which may still parse.                    *)
Load ==
  /\ pull.pc = "load"
  /\ \/ profile # None /\ pull' = [pull EXCEPT !.pc = "spawn", !.cfg = profile]
     \/ profile \notin Script /\ pull' = Off
  /\ UNCHANGED <<gateway, bindir, profile, run, faults, history>>

(* run_pull, with the profile's decdn_bin and settings *)
Spawn ==
  /\ pull.pc = "spawn"
  /\ pull' = IF bindir["decdn"] \in Contents
               THEN [pull EXCEPT !.pc = "decdn", !.decdn = bindir["decdn"]]
               ELSE Off
  /\ UNCHANGED <<gateway, bindir, profile, run, faults, history>>

Finish ==
  /\ pull.pc = "decdn"
  /\ pull' = Off
  /\ UNCHANGED <<gateway, bindir, profile, run, faults, history>>

(* The operator restarts the server with other pins or settings. *)
Redeploy ==
  /\ gateway' \in Later[gateway]
  /\ UNCHANGED <<bindir, profile, run, pull, faults, history>>

(* The steps of a run that has begun. *)
Step(r) ==
  \/ FetchSums(r) \/ CheckSums(r) \/ FetchArchive(r) \/ CheckArchive(r)
  \/ Rename(r) \/ Unlink(r) \/ CopyBegins(r) \/ CopyRefused(r) \/ CopyEnds(r)
  \/ TruncateProfile(r) \/ WriteProfile(r)

Pull == Launch \/ Load \/ Spawn \/ Finish

Next ==
  \/ \E r \in Run : Start(r) \/ Step(r) \/ Interrupt(r)
  \/ Pull
  \/ Redeploy

Spec == Init /\ [][Next]_vars

(* Some script gets on, if only by another start: a script that runs is not*)
(* held up for ever, and a user who has no download yet runs it again.     *)
LiveSpec == Spec /\ WF_vars(\E r \in Run : Start(r) \/ Step(r))

-----------------------------------------------------------------------------
(* Properties *)

(* Nothing lands in BINDIR but what a script pins for that binary, whatever*)
(* the downloads bring, and even if the gateway's pins change between two  *)
(* overlapping runs: "Nothing lands in BINDIR unless both checks pass"     *)
(* (decdn.sh).  What a copy leaves unfinished is not runnable.             *)
OnlyPinned ==
  \A b \in Bin : bindir[b] \in {Pin[s][b] : s \in Script} \cup {None} \cup Run

(* A user who finds a profile finds both binaries, or one is missing where *)
(* a run is in the middle of mv, or was killed there: a download that      *)
(* fails, a check that does not pass or another run that is faster never   *)
(* leaves a profile without the binaries that it names.                    *)
BinariesBehindProfile ==
  profile # None =>
    \A b \in Bin : \/ bindir[b] \in Contents
                   \/ b \in cut
                   \/ \E r \in Run : b \in Replacing(r)

(* If a run came to its end and no other changed BINDIR or the profile     *)
(* since it began, then wrapper, decdn and settings of a pull are all of   *)
(* that one script, though each is looked up at its own time, until some   *)
(* run changes them; runs that only download, fail a check or are killed   *)
(* before they place anything do not matter.                               *)
OneScript ==
  pull.pc = "decdn" /\ calm =>
    /\ pull.exe = Pin[whole]["decdn-sponsored"]
    /\ pull.decdn = Pin[whole]["decdn"]
    /\ pull.cfg = whole

Installed ==
  /\ profile \in Script
  /\ \A b \in Bin : bindir[b] = Pin[profile][b]

(* "Running it again is harmless" (README.md): if installations no longer  *)
(* overlap, running the script again always ends in binaries and settings  *)
(* that belong together, whatever earlier runs left, where they died.      *)
RunningAgainRepairs ==
  <>[](Cardinality({r \in Run : Active(r)}) <= 1) => []<>Installed
=============================================================================
