----------------------------- MODULE MCDesktop -----------------------------
(* Two overlapping polls; one restart in a window of two seconds, so that  *)
(* the bound of two restarts can be reached and exceeded.                  *)
EXTENDS Desktop

CONSTANTS t1, t2

MCTicks == {t1, t2}
=============================================================================
