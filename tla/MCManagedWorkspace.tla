------------------------ MODULE MCManagedWorkspace ------------------------
(* Model values and symmetry for ManagedWorkspace. *)
EXTENDS ManagedWorkspace, TLC

Symmetry == Permutations(Workers) \union Permutations(Slugs)

=============================================================================
