------------------------------- MODULE MCCover -------------------------------
(***************************************************************************)
(* Devices for TLC: a shutter and an inverted awning, and a blind.         *)
(***************************************************************************)
EXTENDS Cover

Shutter == [blind |-> FALSE, inverted |-> FALSE]
Awning  == [blind |-> FALSE, inverted |-> TRUE]
Blind   == [blind |-> TRUE,  inverted |-> FALSE]

Shutters == {Shutter}
Awnings  == {Awning}
All      == {Shutter, Awning, Blind}
=============================================================================
