------------------------------ MODULE MCSysProxy ------------------------------
(***************************************************************************)
(* SysProxy with two addresses of this program, one of which is not the     *)
(* listen address it stands for, and one foreign server besides the empty   *)
(* one.                                                                     *)
(***************************************************************************)
EXTENDS SysProxy

MCListens == {[ip |-> "any", port |-> 1], [ip |-> "loopback", port |-> 2]}

\* A bound: what follows a race, a misreading or a stale registry is
\* not looked at, since the properties are about nothing that does.
Unspoilt == hurt \cap {"race", "misread", "stale"} = {}

=============================================================================
