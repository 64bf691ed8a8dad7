------------------------------- MODULE MCSession -------------------------------
\* An instance of Session for TLC: three messages make a SOCKS handshake, so
\* that one more is early data or comes later.
EXTENDS Session

MaxSentMC == [up |-> 4, down |-> 2]

=============================================================================
