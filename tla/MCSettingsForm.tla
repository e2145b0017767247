--------------------------- MODULE MCSettingsForm ---------------------------
(* Instances of SettingsForm for TLC: two options, a value that is sent as  *)
(* another one, as an address with a slash at its end is, or that is not    *)
(* given back, and one that is not sent.                                    *)
EXTENDS SettingsForm

SlashRemoved == [v \in Values |-> IF v = 2 THEN 1 ELSE v]
AllZero == [k \in Keys |-> 0]
AllOne == [k \in Keys |-> 1]
=============================================================================
