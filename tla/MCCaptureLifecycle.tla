------------------------- MODULE MCCaptureLifecycle -------------------------
(***************************************************************************)
(* Model values for CaptureLifecycle.                                      *)
(***************************************************************************)
EXTENDS CaptureLifecycle, TLC

\* Exchanges are interchangeable: nothing but their identity tells them apart.
Symmetry == Permutations(Exchanges)
=============================================================================
