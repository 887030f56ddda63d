------------------------------ MODULE MCTexts ------------------------------
(***************************************************************************)
(* An instance of Texts for TLC: for each kind of text the characters that *)
(* its functions tell apart. A digest and a client are tried on both kinds.*)
(***************************************************************************)
EXTENDS Texts

\* "v" is also a letter in the suffix of a tag, "0" a digit in it, and ";"
\* a character that a tag may not hold.
MCAlphabet ==
  [tag  |-> {"v", "0", ".", "-", ";"},
   hash |-> {"b", "3", ":", "0", "x", "B", " "}]

\* Long enough for v0.0.0-v, and for b3: with a hash and a blank.
MCMaxLen == [tag |-> 8, hash |-> 6]
=============================================================================
