------------------------- MODULE MCKnockerComplete --------------------------
EXTENDS KnockerComplete, KnockerRefinement, TLC

MCSequence == <<7, 8, 9>>

AddressSymmetry == Permutations(IPs)

=============================================================================
