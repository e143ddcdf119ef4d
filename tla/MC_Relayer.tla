----------------------------- MODULE MC_Relayer -----------------------------
(* Model-checking instance of Relayer: two block heights around the start  *)
(* height, two fee estimates, one confirmation, three observer events.     *)
EXTENDS Relayer

MC_Heights == {1, 2}
MC_StartBlock == 2
MC_Estimates == {5, 20}

=============================================================================
