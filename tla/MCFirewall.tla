------------------------------ MODULE MCFirewall -----------------------------
EXTENDS Firewall, TLC

AddressSymmetry == Permutations(IPs)

=============================================================================
