----------------------------- MODULE MCCableDir -----------------------------
(* CableDir for TLC: one-letter stand-ins for real names.                   *)
EXTENDS CableDir, TLC

Chars == {"a", "n", "d"}
Ntp   == <<"n">>
Dns   == <<"d">>

(* "./", which has a file to itself, "a/" and "a-", which share one, and   *)
(* "n", a preset's name.                                                   *)
MixedNames == {<<".", "/">>, <<"a", "/">>, <<"a", "-">>, Ntp}
TwoPresets == {Ntp, Dns}

(* An instance called like a preset. *)
NtpOnly    == {Ntp}
OnePreset  == {Ntp}

Symmetry == Permutations(Addresses)
=============================================================================
