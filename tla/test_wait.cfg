CONSTANTS
  tA = tA
  tB = tB
  SavedTemplates <- MC_SavedTemplates
  NoTemplate = NoTemplate

SPECIFICATION Spec
\* The test thread ends after one dissect; the worker then blocks.
CHECK_DEADLOCK FALSE
INVARIANT TestSeesLoadedTemplates
