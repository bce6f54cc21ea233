---------------------------- MODULE MC_FlowCache ----------------------------
(* FlowCache instantiated for TLC: the zero MAC, one router MAC, one host  *)
(* MAC and one multicast MAC; one home-net and one external address.       *)
EXTENDS FlowCache

CONSTANTS mZero, mRouter, mHost, mMcast, aHome, aExt

MC_Macs == {mZero, mRouter, mHost, mMcast}
MC_RouterMacs == {mRouter}
MC_MulticastMacs == {mMcast}
MC_Addrs == {aHome, aExt}
MC_HomeAddrs == {aHome}
=============================================================================
