------------------------------- MODULE MCSetup --------------------------------
(* Setup alone, for what its report says and the code does not keep.       *)
EXTENDS Setup
MCSetupItems == <<"gitignore", "scaffold">>
=============================================================================
