--------------------------- MODULE MC_TestHarness ---------------------------
(* TestHarness for TLC: a save file holding two templates.                 *)
EXTENDS TestHarness

CONSTANTS tA, tB

MC_SavedTemplates == {tA, tB}
=============================================================================
