------------------------------ MODULE MCDatabase ------------------------------
(* Instances for TLC of ProtocolDatabase (two drivers, another that opens  *)
(* exclusively, an application and HandleProtocol), and of the services on *)
(* several entries; one behavior is of one of them.                        *)
EXTENDS ProtocolDatabase, ProtocolServices
CONSTANTS h1, h2, p1, p2, b1, b2, r1, d1, d2, d3, app, core
VARIABLE part
MCOpeners ==
    {<<d1, "driver">>, <<d2, "driver">>,
     <<d3, "driver exclusive">>, <<app, "exclusive">>, <<core, "get">>}
MCDevicePaths == {<<>>, <<"a">>, <<"a", "b">>}
MCProtocolLists == {<<"path">>, <<"p">>, <<"p", "path">>, <<"path", "p">>}
Symmetry == Permutations(Handles) \cup Permutations(Blocks) \cup Permutations({d1, d2})
Single == part = "single" /\ Next /\ UNCHANGED <<part, dbVars>>
Several == part = "several" /\ DbNext /\ UNCHANGED <<part, vars>>
PartInit == part \in {"single", "several"} /\ Init /\ DbInit
PartSpec == PartInit /\ [][Single \/ Several]_<<part, vars, dbVars>>
=============================================================================
