------------------------- MODULE MCMicroblogServer --------------------------
(* Model-checking instance of MicroblogServer: two follow targets, the    *)
(* timeline window scaled down so that posts can scroll out of it.         *)
EXTENDS MicroblogServer

CONSTANTS x, y

MCTarget == {x, y}
=============================================================================
