------------------------- MODULE MC_ObservationNames -------------------------
(* S4 of the spec: APP_ID 0x03000050 (major 3, minor 80) named "http" by  *)
(* option data; the global list knows only 0x00000050.                    *)
EXTENDS ObservationNames, TLC

MC_Ids == {<<3, 0, 0, 80>>, <<0, 0, 0, 80>>}
MC_AppNameDb == <<0, 0, 0, 80>> :> "www"
=============================================================================
