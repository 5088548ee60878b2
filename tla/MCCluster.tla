----------------------------- MODULE MCCluster ------------------------------
(***************************************************************************)
(* Model checking Cluster: one link and two commands, each of which kills   *)
(* one end or spoils the link, which it names from the far end.  For the   *)
(* two names of a link, it may be named from either.                       *)
(***************************************************************************)
EXTENDS Cluster

CONSTANTS a, b

MCLink == {<<a, b>>}
Kill == [type |-> "kill", target |-> a]
Spoil(link) == [type |-> "loss", target |-> link]

MCFault == {Kill, Spoil(<<b, a>>)}
MCEitherName == {Spoil(<<a, b>>), Spoil(<<b, a>>)}
=============================================================================
