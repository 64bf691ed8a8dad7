------------------------------ MODULE MCTunnel ------------------------------
(* Tunnel on a small instance. *)
EXTENDS Tunnel, TLC

Symmetry == Permutations(Clients) \cup Permutations(Requests)

=============================================================================
