CONSTANTS
  s1 = s1
  s2 = s2
  t1 = t1
  t2 = t2
  SensorList <- MC_SensorList
  TemplateIds <- MC_TemplateIds
  NumWorkers = 1
  MaxVersion = 2
  MaxDatagrams = 2
  AllocCanFail = TRUE

SPECIFICATION Spec
\* Once the exporters stop sending, the worker blocks on its empty queues.
CHECK_DEADLOCK FALSE
PROPERTY TemplatesConverge
