---------------------------- MODULE TestHarness -----------------------------
(***************************************************************************)
(* The synchronisation of the flow tests (tests/rb_netflow_test.c,         *)
(* test_flow_i) with the collect worker.  The test thread loads the saved  *)
(* templates, which go onto the worker's templates queue, spins until the  *)
(* queue count is 0, then takes both queue locks and dissects the data     *)
(* datagram itself against the templates stored in the observation.  The  *)
(* worker pops a template under the queue lock (the count drops) and       *)
(* saves it after releasing the lock.                                      *)
(***************************************************************************)
EXTENDS Naturals, Sequences, SequencesExt

CONSTANTS
  SavedTemplates, \* template ids in the template save file (loadTemplates)
  NoTemplate      \* no template popped

VARIABLES
  tq,        \* the worker's templates queue
  wpc,       \* the worker: "idle", or "saving" the template it popped
  held,      \* the template the worker popped
  stored,    \* template ids stored in the sensor's observation
  tpc,       \* the test thread: "load", "wait", "dissect", "done"
  decoded    \* template ids the dissected data could be decoded with

vars == <<tq, wpc, held, stored, tpc, decoded>>

Init ==
  /\ tq = <<>>
  /\ wpc = "idle"
  /\ held = NoTemplate
  /\ stored = {}
  /\ tpc = "load"
  /\ decoded = {}

\* loadTemplates(template_save_path): every saved template is queued.
LoadTemplates ==
  /\ tpc = "load"
  /\ tq' = tq \o SetToSeq(SavedTemplates)
  /\ tpc' = "wait"
  /\ UNCHANGED <<wpc, held, stored, decoded>>

\* The spin on templates_queue.rfq_cnt: leave it once the count reads 0.
WaitTemplates ==
  /\ tpc = "wait"
  /\ tq = <<>>
  /\ tpc' = "dissect"
  /\ UNCHANGED <<tq, wpc, held, stored, decoded>>

\* Both queue locks held, dissectNetFlow() on the test thread: each data
\* flowset finds its template only if it is stored by now.
DissectNetFlow ==
  /\ tpc = "dissect"
  /\ decoded' = SavedTemplates \cap stored
  /\ tpc' = "done"
  /\ UNCHANGED <<tq, wpc, held, stored>>

\* The worker pops a template; the queue lock is the test's during dissect.
PopTemplate ==
  /\ wpc = "idle"
  /\ tq # <<>>
  /\ tpc # "dissect"
  /\ held' = Head(tq)
  /\ tq' = Tail(tq)
  /\ wpc' = "saving"
  /\ UNCHANGED <<stored, tpc, decoded>>

\* save_template() outside the queue lock.
SaveTemplate ==
  /\ wpc = "saving"
  /\ stored' = stored \cup {held}
  /\ wpc' = "idle"
  /\ held' = NoTemplate
  /\ UNCHANGED <<tq, tpc, decoded>>

Next == LoadTemplates \/ WaitTemplates \/ DissectNetFlow \/ PopTemplate \/ SaveTemplate

Spec == Init /\ [][Next]_vars

TypeOK ==
  /\ tq \in Seq(SavedTemplates)
  /\ wpc \in {"idle", "saving"}
  /\ held \in SavedTemplates \cup {NoTemplate}
  /\ stored \subseteq SavedTemplates
  /\ tpc \in {"load", "wait", "dissect", "done"}
  /\ decoded \subseteq SavedTemplates

\* The test's comment "wait until worker end to process all templates": once
\* the wait loop is left, every saved template is in the observation, so the
\* dissected data finds all of them.
TestSeesLoadedTemplates == tpc = "done" => decoded = SavedTemplates
=============================================================================
