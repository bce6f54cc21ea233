------------------------------- MODULE MC_PtrCache -------------------------------
(* Two workers, one IP with a PTR name and one without; a flow between the *)
(* two, and one whose ends are the same address (both sides of a record    *)
(* reference one cache entry).                                             *)
EXTENDS PtrCache, TLC

CONSTANTS w1, w2, ipA, ipB, NULL

MC_Workers == {w1, w2}
MC_Ips == {ipA, ipB}
MC_Flows == {[src |-> ipA, dst |-> ipB], [src |-> ipA, dst |-> ipA]}
MC_Directions == {"ingress", "unset"}
MC_PtrAnswer == ipA :> "host-a" @@ ipB :> NULL
=============================================================================
