------------------------------- MODULE Texts -------------------------------
(***************************************************************************)
(* The texts that enter the system from outside and that code on either    *)
(* side judges or rewrites, as functions of a sequence of characters:      *)
(*                                                                         *)
(*   - a release tag and the digest of its SHA256SUMS, which the operator  *)
(*     sets and the installer scripts are rendered with (ReleasePin,       *)
(*     crates/server/src/config.rs);                                       *)
(*   - the client of the captcha page (crates/server/src/http/fund.rs);    *)
(*   - the bundle hash on the wrapper's command line, which names the      *)
(*     state directory (normalize_hash, crates/wrapper/src/session.rs).    *)
(*                                                                         *)
(* The state is a text being typed; every text up to a length is reached,  *)
(* and the invariants compare the code's decision with a grammar.          *)
(*                                                                         *)
(* The operators named Faulty... are no part of the specification: each is *)
(* the operator below it with a plausible mistake.                         *)
(***************************************************************************)
EXTENDS Naturals, FiniteSets, Sequences, SequencesExt

CONSTANTS
  Alphabet, \* for each kind of text, the characters that are typed
  MaxLen,   \* bound: for each kind of text, its longest
  HashLen   \* bound: 64, the hex characters of a digest, cut down

ASSUME TextsAssumption ==
  /\ DOMAIN Alphabet = DOMAIN MaxLen
  /\ \A k \in DOMAIN Alphabet : MaxLen[k] \in Nat
  /\ HashLen \in Nat

VARIABLES kind, text

vars == <<kind, text>>

Init == kind \in DOMAIN Alphabet /\ text = <<>>

Type(c) ==
  /\ Len(text) < MaxLen[kind]
  /\ text' = Append(text, c)
  /\ UNCHANGED kind

Done == Len(text) = MaxLen[kind] /\ UNCHANGED vars

Next == (\E c \in Alphabet[kind] : Type(c)) \/ Done

Spec == Init /\ [][Next]_vars

-----------------------------------------------------------------------------
(* Characters, and Rust's operations on texts *)

Digit    == {"0", "1", "2", "3", "4", "5", "6", "7", "8", "9"}
LowerHex == Digit \cup {"a", "b", "c", "d", "e", "f"}
UpperHex == {"A", "B", "C", "D", "E", "F"}

(* u8::is_ascii_alphanumeric: all of ASCII's letters and digits *)
Alnum == LowerHex \cup UpperHex
         \cup {"g", "h", "i", "j", "k", "l", "m", "n", "o", "p",
               "q", "r", "s", "t", "u", "v", "w", "x", "y", "z"}
         \cup {"G", "H", "I", "J", "K", "L", "M", "N", "O", "P",
               "Q", "R", "S", "T", "U", "V", "W", "X", "Y", "Z"}

All(s, S) == \A i \in DOMAIN s : s[i] \in S

Drop(s, n) == SubSeq(s, n + 1, Len(s))

StripPrefix(s, p) == IF IsPrefix(p, s) THEN Drop(s, Len(p)) ELSE s

(* s.trim(), with " " for every white space *)
Trim(s) ==
  LET solid == {i \in DOMAIN s : s[i] # " "} IN
  IF solid = {} THEN <<>>
  ELSE SubSeq(s, CHOOSE i \in solid : \A j \in solid : i <= j,
                 CHOOSE i \in solid : \A j \in solid : j <= i)

(* s.to_ascii_lowercase(), on the letters of a hash: with any other letter *)
(* a text is refused in either case.                                       *)
Lower == [c \in UpperHex |->
            CASE c = "A" -> "a" [] c = "B" -> "b" [] c = "C" -> "c"
              [] c = "D" -> "d" [] c = "E" -> "e" [] c = "F" -> "f"]
ToLower(s) == [i \in DOMAIN s |-> IF s[i] \in UpperHex THEN Lower[s[i]] ELSE s[i]]

(* s.split(d): the pieces between one separator and the next. *)
Cuts(s, d) == {0, Len(s) + 1} \cup {i \in DOMAIN s : s[i] = d}
Pieces(s, d) ==
  {SubSeq(s, ij[1] + 1, ij[2] - 1) :
     ij \in {x \in Cuts(s, d) \X Cuts(s, d) :
               x[1] < x[2] /\ \A k \in Cuts(s, d) : k <= x[1] \/ x[2] <= k}}

-----------------------------------------------------------------------------
(* The code *)

Dashes(s)  == {i \in DOMAIN s : s[i] = "-"}
FirstDash(s) == CHOOSE i \in Dashes(s) : \A j \in Dashes(s) : i <= j

(* Faulty variant: split_once at the last dash (rsplit_once). *)
LastDash(s) == CHOOSE i \in Dashes(s) : \A j \in Dashes(s) : j <= i
FaultyCore(s) == IF Dashes(s) = {} THEN s ELSE SubSeq(s, 1, LastDash(s) - 1)

(* version.split_once('-'): what is before the dash *)
Core(s) == IF Dashes(s) = {} THEN s ELSE SubSeq(s, 1, FirstDash(s) - 1)

(* Faulty variant: the suffix after the first dash is not looked at. *)
FaultyIsReleaseTag(s) ==
  LET core == Core(Drop(s, 1)) IN
  /\ s # <<>> /\ s[1] = "v"
  /\ Cardinality(Cuts(core, ".")) - 1 = 3
  /\ \A p \in Pieces(core, ".") : p # <<>> /\ All(p, Digit)

(* is_release_tag *)
IsReleaseTag(s) ==
  LET version == Drop(s, 1)
      core    == Core(version) IN
  /\ s # <<>> /\ s[1] = "v"
  /\ Cardinality(Cuts(core, ".")) - 1 = 3
  /\ \A p \in Pieces(core, ".") : p # <<>> /\ All(p, Digit)
  /\ core # version =>
       LET pre == Drop(version, Len(core) + 1) IN
       pre # <<>> /\ All(pre, Alnum \cup {".", "-"})

(* The digest of ReleasePin::new. *)
IsDigest(s) == Len(s) = HashLen /\ All(s, LowerHex)

(* is_hex_of_len, the guard of the captcha page *)
IsHexOfLen(s, n) ==
  LET digits == StripPrefix(s, <<"0", "x">>) IN
  Len(digits) = n /\ All(digits, LowerHex \cup UpperHex)

Refused == <<"refused">>

(* One prefix, b3: or else 0x. *)
BareHash(s) ==
  IF IsPrefix(<<"b", "3", ":">>, s) THEN Drop(s, 3)
                                    ELSE StripPrefix(s, <<"0", "x">>)

(* Faulty variant: what is returned keeps its case. *)
FaultyNormalizeHash(s) ==
  LET hex == BareHash(Trim(s)) IN
  IF Len(hex) = HashLen /\ All(hex, LowerHex \cup UpperHex) THEN hex ELSE Refused

(* normalize_hash *)
NormalizeHash(s) ==
  LET hex == ToLower(BareHash(Trim(s))) IN
  IF Len(hex) = HashLen /\ All(hex, LowerHex) THEN hex ELSE Refused

-----------------------------------------------------------------------------
(* Properties *)

Number(s, i, j) == i <= j /\ \A k \in i..j : s[k] \in Digit

(* v, three numbers with dots between them, and nothing else or a dash and *)
(* a suffix of letters, digits, dots and dashes.                           *)
SemverTag(s) ==
  /\ Len(s) > 0 /\ s[1] = "v"
  /\ \E i, j, k \in 1..Len(s) + 1 :
       /\ i < j /\ j < k
       /\ s[i] = "." /\ s[j] = "."
       /\ Number(s, 2, i - 1) /\ Number(s, i + 1, j - 1) /\ Number(s, j + 1, k - 1)
       /\ \/ k = Len(s) + 1
          \/ /\ k < Len(s)
             /\ s[k] = "-"
             /\ \A m \in k + 1..Len(s) : s[m] \in Alnum \cup {".", "-"}

(* ReleasePin::new accepts exactly the tags of the shape its documentation *)
(* gives, although it splits a text whose suffix may hold the separators.  *)
TagIsSemver == IsReleaseTag(text) <=> SemverTag(text)

(* What is put unescaped into the installer scripts or into the captcha    *)
(* page (a tag, a digest, a client) holds no character that a shell,       *)
(* PowerShell or HTML gives a meaning to.                                  *)
NothingToEscape ==
  IsReleaseTag(text) \/ IsDigest(text) \/ IsHexOfLen(text, HashLen) => All(text, Alnum \cup {".", "-"})

Spelling(h) ==
  {h} \cup {<<"b", "3", ":">> \o h, <<"0", "x">> \o h}

(* The spellings of a hash that the wrapper takes are those of the website *)
(* (b3:, 0x or bare, in either case, with blanks around) and no others, and*)
(* all of them name the state directory of the same hash in lower case.    *)
OneDirectoryPerHash ==
  LET h == NormalizeHash(text) IN
  IF h = Refused
    THEN \A i, j \in 0..Len(text) :
           LET hex == SubSeq(text, i + 1, j) IN
           Len(hex) = HashLen /\ All(hex, LowerHex \cup UpperHex)
             => Trim(text) \notin Spelling(hex)
    ELSE /\ IsDigest(h)
         /\ NormalizeHash(h) = h
         /\ \E i \in 0..Len(text) :
              LET hex == SubSeq(text, i + 1, i + HashLen) IN
              ToLower(hex) = h /\ Trim(text) \in Spelling(hex)
=============================================================================
