---------------------------- MODULE MCGuestLoop ----------------------------
(***************************************************************************)
(* Instances of GuestLoop for TLC.  Characters are their codes.            *)
(***************************************************************************)
EXTENDS GuestLoop

MCChar == 0..255
MCtoupper == [c \in MCChar |-> IF c \in 97..122 THEN c - 32 ELSE c]
MCKey == {97, 13}           \* 'a' and the return key
TwoLetters == {97, 98}
MCCpuChar == {65, 66, 13} \cup ToSet(Greeting)
MCAddr == UNION {Line[name] : name \in Programs}
NoMask == {{}}
MCIerValue == SUBSET UartFlag
NoIrq == {}
=============================================================================
