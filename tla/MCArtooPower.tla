---------------------------- MODULE MCArtooPower ----------------------------
(* An instance of ArtooPower for TLC: the second preset, of two half words, *)
(* whose button stays enabled during a shutdown, and the sweep time.        *)
EXTENDS ArtooPower

CONSTANTS v1, v2

Preset2 == {1, 2}
Sweep == {3}

TwoFields == {Preset2, Sweep}
OneByOne == {{Preset2}, {Sweep}}
JustPreset2 == {Preset2}

=============================================================================
