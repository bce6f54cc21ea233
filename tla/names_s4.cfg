\* Option data and records keep arriving; the model never stops.
CONSTANTS
  Ids <- MC_Ids
  Names = {"http", "dns"}
  AppNameDb <- MC_AppNameDb
  AllocCanFail = TRUE
SPECIFICATION Spec
INVARIANT OptionNameRendered
