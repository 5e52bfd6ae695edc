------------------------------ MODULE MCBootFs ------------------------------
(* Instances of BootFs for TLC.                                            *)
EXTENDS BootFs

MCTargets == {<<"new">>, <<"docs", "memo">>}
=============================================================================
