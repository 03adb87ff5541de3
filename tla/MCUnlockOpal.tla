----------------------------- MODULE MCUnlockOpal -----------------------------
(* UnlockOpal on a drive with one session number. *)
EXTENDS UnlockOpal

MCTSNs == {<<0, 0, 16, 1>>}
===============================================================================
