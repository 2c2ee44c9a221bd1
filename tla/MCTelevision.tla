---------------------------- MODULE MCTelevision ----------------------------
(* Television for TLC: an alarm with a file of its own, beside a preset. *)
EXTENDS Television

NoSeeds    == {}
Chars      == {"a", "n"}
AlarmNames == {<<"a">>}
NtpPreset  == {<<"n">>}
AlarmName  == [i \in {1} |-> <<"a">>]
=============================================================================
