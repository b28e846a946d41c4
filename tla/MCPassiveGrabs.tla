--------------------------- MODULE MCPassiveGrabs ---------------------------
(* PassiveGrabs, with the names that mean nothing in themselves.             *)
EXTENDS PassiveGrabs, TLC

Symmetry ==
    Permutations(Client) \cup Permutations(Device) \cup Permutations(Detail)
        \cup Permutations(Modifier) \cup Permutations(Terms)
=============================================================================
