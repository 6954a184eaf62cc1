------------------------------ MODULE MCDeploy ------------------------------
(* Small instances of Deploy for TLC. *)
EXTENDS Deploy, TLC

Symmetry == Permutations(Clis)

OneApp == {<<"A", "i">>}
TwoApps == {<<"A", "i">>, <<"B", "j">>}
=============================================================================
