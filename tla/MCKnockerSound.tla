--------------------------- MODULE MCKnockerSound ---------------------------
EXTENDS KnockerSound, TLC

(* Three ports, knocked in this order. *)
MCSequence == <<7, 8, 9>>

(* Addresses are interchangeable: no definition orders them. *)
AddressSymmetry == Permutations(IPs)

=============================================================================
