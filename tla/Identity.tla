------------------------------ MODULE Identity ------------------------------
(***************************************************************************)
(* What the state directory of a bundle stands for, without files, steps   *)
(* and crashes in between: at most one client key, at most one capability, *)
(* and both of one mind.                                                   *)
(*                                                                         *)
(*   - A key is drawn only when there is none, and no key is drawn twice.  *)
(*   - A captcha is asked for, and a capability obtained, only for the key *)
(*     that is held, and only while no capability is.                      *)
(*   - decdn is run on a key and a capability, which stay as they are      *)
(*     until it ends.                                                      *)
(*   - A capability is given up without its key only if the key has never  *)
(*     redeemed; else both go in one step.  So a key that the chain has    *)
(*     frozen never gets a capability of another expiry.                   *)
(*                                                                         *)
(* PullSession implements this specification if there is one run at a time *)
(* and none dies between the removals of two files.                        *)
(***************************************************************************)
EXTENDS Naturals

CONSTANTS
  Ttl,      \* lifetime of a capability
  MaxTime,  \* bound: the wall clock stops here
  MaxKeys,  \* bound: keys drawn
  None      \* no key, no capability, not granted, not frozen

VARIABLES
  clock,    \* wall clock
  made,     \* keys drawn so far
  key,      \* the key held, or None
  cap,      \* the expiry of the capability held for it, or None
  pulling,  \* decdn runs on them
  asked,    \* keys that a captcha was asked for
  book,     \* the sponsor's grant for each key: its expiry, or None
  chain     \* the expiry frozen on-chain for each key, or None

vars == <<clock, made, key, cap, pulling, asked, book, chain>>

Key == 1..MaxKeys

Granted(k) == book[k] # None /\ clock < book[k]

Init ==
  /\ clock = 0 /\ made = 0
  /\ key = None /\ cap = None /\ ~pulling
  /\ asked = {}
  /\ book = [k \in Key |-> None]
  /\ chain = [k \in Key |-> None]

Draw ==
  /\ key = None
  /\ made < MaxKeys
  /\ made' = made + 1 /\ key' = made + 1
  /\ UNCHANGED <<clock, cap, pulling, asked, book, chain>>

Ask ==
  /\ key # None /\ cap = None /\ ~Granted(key)
  /\ asked' = asked \cup {key}
  /\ UNCHANGED <<clock, made, key, cap, pulling, book, chain>>

Obtain ==
  /\ key # None /\ cap = None /\ Granted(key)
  /\ cap' = book[key]
  /\ UNCHANGED <<clock, made, key, pulling, asked, book, chain>>

(* A run dies before the capability is saved. *)
LoseCapability ==
  /\ cap # None /\ ~pulling
  /\ chain[key] = None
  /\ cap' = None
  /\ UNCHANGED <<clock, made, key, pulling, asked, book, chain>>

Pull ==
  /\ key # None /\ cap # None /\ ~pulling
  /\ pulling' = TRUE
  /\ UNCHANGED <<clock, made, key, cap, asked, book, chain>>

Stop ==
  /\ pulling
  /\ pulling' = FALSE
  /\ UNCHANGED <<clock, made, key, cap, asked, book, chain>>

(* The pull succeeded, the capability is near its expiry, a run died while *)
(* it made the key, or the password was lost.                              *)
Discard ==
  /\ key' = None /\ cap' = None /\ pulling' = FALSE
  /\ UNCHANGED <<clock, made, asked, book, chain>>

(* decdn redeems a voucher; the first redemption freezes the expiry.       *)
Redeem ==
  /\ pulling
  /\ clock < cap /\ chain[key] = None
  /\ chain' = [chain EXCEPT ![key] = cap]
  /\ UNCHANGED <<clock, made, key, cap, pulling, asked, book>>

(* The user solves a captcha. *)
Solve(k) ==
  /\ book' = [book EXCEPT ![k] = clock + Ttl]
  /\ UNCHANGED <<clock, made, key, cap, pulling, asked, chain>>

Tick ==
  /\ clock < MaxTime
  /\ clock' = clock + 1
  /\ UNCHANGED <<made, key, cap, pulling, asked, book, chain>>

Next ==
  \/ Draw \/ Ask \/ Obtain \/ LoseCapability
  \/ Pull \/ Stop \/ Discard \/ Redeem
  \/ \E k \in asked : Solve(k)
  \/ Tick

Spec == Init /\ [][Next]_vars
=============================================================================
