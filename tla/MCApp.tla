--------------------------------- MODULE MCApp ---------------------------------
\* Instances of App for TLC.
EXTENDS App, TLC

Symmetry == Permutations(Tunnels)

=============================================================================
