------------------------------ MODULE GrantBook ------------------------------
(***************************************************************************)
(* What sponsord promises about the capabilities it issues, without        *)
(* captchas, HTTP replies, errors or crashes:                              *)
(*                                                                         *)
(*   - the right to issue a capability to a client (a licence) is obtained *)
(*     only at a moment when the book holds no valid one for that client;  *)
(*   - a licence yields at most one capability, which lives at most Ttl    *)
(*     seconds from the moment it enters the book;                         *)
(*   - an entry of the book is replaced, never removed;                    *)
(*   - only capabilities that entered the book are handed out.             *)
(*                                                                         *)
(* Two licences for one client may be outstanding at once, as the comment  *)
(* on concurrent submissions in crates/server/src/http/fund.rs allows.     *)
(* Gateway implements this specification.                                  *)
(***************************************************************************)
EXTENDS Naturals

CONSTANTS
  Client,   \* signer addresses
  Task,     \* requests that may be in progress at once
  Ttl,      \* lifetime of a capability in seconds
  MaxTime,  \* bound: the clock stops here
  U64Max,   \* largest value of a u64
  None      \* "no grant", "no client"

VARIABLES
  clock,    \* wall clock, in seconds
  book,     \* the grant last entered for each client, or None
  licence,  \* the client each task may still issue to, or None
  recorded, \* every grant that ever entered the book
  given     \* every grant handed out in a reply

vars == <<clock, book, licence, recorded, given>>

(* A grant is the capability token: a signature over the delegate and the *)
(* expiry (pool and cap are fixed), so equal fields mean equal tokens.     *)
Grant == [signer : Client, expiry : 0..U64Max]

SatAdd(a, b) == IF a + b > U64Max THEN U64Max ELSE a + b

Valid(g) == g # None /\ clock < g.expiry

Init ==
  /\ clock \in 0..MaxTime
  /\ book = [c \in Client |-> None]
  /\ licence = [t \in Task |-> None]
  /\ recorded = {}
  /\ given = {}

Tick ==
  /\ clock < MaxTime
  /\ clock' = clock + 1
  /\ UNCHANGED <<book, licence, recorded, given>>

License(t, c) ==
  /\ licence[t] = None
  /\ ~Valid(book[c])
  /\ licence' = [licence EXCEPT ![t] = c]
  /\ UNCHANGED <<clock, book, recorded, given>>

Record(t) ==
  /\ licence[t] # None
  /\ \E e \in 0..SatAdd(clock, Ttl) :
       LET g == [signer |-> licence[t], expiry |-> e] IN
       /\ book' = [book EXCEPT ![licence[t]] = g]
       /\ recorded' = recorded \cup {g}
  /\ licence' = [licence EXCEPT ![t] = None]
  /\ UNCHANGED <<clock, given>>

(* A failed signing or commit gives up one licence, a crash all of them.   *)
Forfeit(T) ==
  /\ licence' = [t \in Task |-> IF t \in T THEN None ELSE licence[t]]
  /\ UNCHANGED <<clock, book, recorded, given>>

HandOut(g) ==
  /\ given' = given \cup {g}
  /\ UNCHANGED <<clock, book, licence, recorded>>

Next ==
  \/ Tick
  \/ \E t \in Task, c \in Client : License(t, c)
  \/ \E t \in Task : Record(t)
  \/ \E T \in SUBSET Task : Forfeit(T)
  \/ \E g \in recorded : HandOut(g)

Spec == Init /\ [][Next]_vars
=============================================================================
