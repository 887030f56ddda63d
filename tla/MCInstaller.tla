----------------------------- MODULE MCInstaller -----------------------------
(***************************************************************************)
(* An instance of Installer for TLC: two configurations of the gateway,    *)
(* the second with a newer release of each binary.                         *)
(***************************************************************************)
EXTENDS Installer

CONSTANTS old, new, d1, d2, w1, w2

MCPin == [s \in {old, new} |->
            [b \in Bin |-> CASE b = "decdn" /\ s = old -> d1
                             [] b = "decdn" /\ s = new -> d2
                             [] b = "decdn-sponsored" /\ s = old -> w1
                             [] b = "decdn-sponsored" /\ s = new -> w2]]

(* The gateway is redeployed once, with the newer releases. *)
MCLater == [s \in {old, new} |-> IF s = old THEN {new} ELSE {}]
=============================================================================
