------------------------------ MODULE MCStartup ------------------------------
(* Texts for TLC: numbers below, at and above every check and width.        *)
EXTENDS Startup

MCTexts == {-1, 0, 2, 1025, 65538}
=============================================================================
