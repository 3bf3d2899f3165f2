----------------------------- MODULE MCJobPool ------------------------------
(* Small instances of JobPool for TLC.                                     *)
EXTENDS JobPool

CONSTANTS s1, s2

TwoServers == <<s1, s2>>
AllMortal == {s1, s2}
=============================================================================
