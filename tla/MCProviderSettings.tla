------------------------- MODULE MCProviderSettings -------------------------
(***************************************************************************)
(* ProviderSettings for TLC.                                               *)
(***************************************************************************)
EXTENDS ProviderSettings, TLC

Symmetry ==
    Permutations(Users) \cup Permutations(Refs) \cup Permutations(Names)
        \cup Permutations(ModelProfiles)

=============================================================================
