----------------------------- MODULE MCKnownHosts -----------------------------
\* An instance of KnownHosts for TLC.
EXTENDS KnownHosts, TLC

PreferenceMC == <<"ed25519", "ecdsa">>
Symmetry == Permutations(Dials) \cup Permutations(Hosts)

=============================================================================
