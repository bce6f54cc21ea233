--------------------------- MODULE MC_WorkerQueues --------------------------
(* WorkerQueues for TLC: two sensors sharing one worker, two template ids. *)
EXTENDS WorkerQueues

CONSTANTS s1, s2, t1, t2

MC_SensorList == <<s1, s2>>
MC_TemplateIds == {t1, t2}
=============================================================================
