---------------------------- MODULE MCResultLog -----------------------------
(* ResultLog with two protocols, two goroutines of the first and one of    *)
(* the second.                                                             *)
EXTENDS ResultLog

CONSTANTS g1, g2, g3

MCOrder == <<"vless", "ss">>
MCWorkers == {g1, g2, g3}
MCProtoOf == [w \in MCWorkers |-> IF w = g3 THEN "ss" ELSE "vless"]
=============================================================================
