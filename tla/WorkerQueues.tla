---------------------------- MODULE WorkerQueues ----------------------------
(***************************************************************************)
(* Template registry and workers.  Exporters (sensors) send datagrams that *)
(* carry template flowsets and data flowsets.  The receiving thread pushes *)
(* every template flowset of a datagram onto the templates queue of the    *)
(* sensor's worker, then its data flowsets onto the packets queue (spec    *)
(* 4.8).  A worker drains the templates queue, saving each template into   *)
(* the sensor's observation (save_template), before it decodes the next    *)
(* data flowset against the stored template (4.2), dropping it when none   *)
(* is stored (7).  Sensors are given workers round robin (set_workers).    *)
(*                                                                         *)
(* A template is abstracted to its version: the exporter redefines a       *)
(* template id by sending a new version.  One observation domain per       *)
(* sensor.                                                                 *)
(***************************************************************************)
EXTENDS Naturals, Sequences, SequencesExt

CONSTANTS
  SensorList,   \* the sensors in sensors_db_list() order
  NumWorkers,   \* worker_list_size
  TemplateIds,  \* template ids used by the exporters
  MaxVersion,   \* bound on redefinitions of one template id
  MaxDatagrams, \* bound on datagrams received
  AllocCanFail  \* whether rd_calloc_struct in save_template may fail

Sensors == ToSet(SensorList)
Workers == 0..NumWorkers-1

ASSUME /\ IsInjective(SensorList) /\ NumWorkers \in Nat \ {0}
       /\ MaxVersion \in Nat \ {0} /\ MaxDatagrams \in Nat
       /\ AllocCanFail \in BOOLEAN

VARIABLES
  worker,     \* worker[s]: the sensor's worker (sensor_set_worker)
  exporter,   \* exporter[s][t]: version the exporter currently defines, 0 none
  registry,   \* registry[s][t]: version stored in the observation, 0 none
  tq,         \* tq[w]: the worker's templates queue
  pq,         \* pq[w]: the worker's packets queue
  pc,         \* pc[w]: "idle", or "saving" a popped template
  held,       \* held[w]: the template popped and being saved
  received,   \* datagrams received so far
  sent,       \* sent[s][t]: last version received in a template flowset
  last        \* outcome of the last data flowset decoded (history)

vars == <<worker, exporter, registry, tq, pq, pc, held, received, sent, last>>

NoItem == [s |-> CHOOSE s \in Sensors : TRUE, t |-> CHOOSE t \in TemplateIds : TRUE,
           v |-> 0]
NoData == [s |-> NoItem.s, t |-> NoItem.t, expect |-> 0, own |-> FALSE]

-----------------------------------------------------------------------------
(* set_workers(): sensor i of the list gets worker_list[i % worker_list_size]. *)

\* Mutant: off by one in the modulus; the last index names no worker.
set_workers_offByOne(i) == i % (NumWorkers + 1)

set_workers(i) == i % NumWorkers

\* The assignment set_workers() leaves behind (list index i is 0-based).
Assignment == [s \in Sensors |->
                 set_workers(CHOOSE i \in 0..Len(SensorList)-1 : SensorList[i+1] = s)]

-----------------------------------------------------------------------------

Init ==
  /\ worker = Assignment
  /\ exporter = [s \in Sensors |-> [t \in TemplateIds |-> 0]]
  /\ registry = [s \in Sensors |-> [t \in TemplateIds |-> 0]]
  /\ tq = [w \in Workers |-> <<>>]
  /\ pq = [w \in Workers |-> <<>>]
  /\ pc = [w \in Workers |-> "idle"]
  /\ held = [w \in Workers |-> NoItem]
  /\ received = 0
  /\ sent = [s \in Sensors |-> [t \in TemplateIds |-> 0]]
  /\ last = [d |-> NoData, used |-> 0]

\* The exporter defines (or redefines) template t.
Redefine(s, t) ==
  /\ exporter[s][t] < MaxVersion
  /\ exporter' = [exporter EXCEPT ![s][t] = @ + 1]
  /\ UNCHANGED <<worker, registry, tq, pq, pc, held, received, sent, last>>

\* A datagram from sensor s carrying the templates T and data flowsets for
\* the template ids D.  Templates are pushed first, then data (spec 4.8).
\* Each data item records the version an in-order collector would decode it
\* with (the template of the same datagram, else the last one received).
Receive(s, T, D) ==
  LET w    == worker[s]
      tmpl == SetToSeq({[s |-> s, t |-> t, v |-> exporter[s][t]] : t \in T})
      snt  == [t \in TemplateIds |-> IF t \in T THEN exporter[s][t] ELSE sent[s][t]]
      data == SetToSeq({[s |-> s, t |-> t, expect |-> snt[t], own |-> t \in T]
                        : t \in D})
  IN /\ received < MaxDatagrams
     /\ \A t \in T : exporter[s][t] > 0
     /\ T \cup D # {}
     /\ tq' = [tq EXCEPT ![w] = @ \o tmpl]
     /\ pq' = [pq EXCEPT ![w] = @ \o data]
     /\ sent' = [sent EXCEPT ![s] = snt]
     /\ received' = received + 1
     /\ UNCHANGED <<worker, exporter, registry, pc, held, last>>

\* Mutant: the queue is popped at its tail.
PopTemplate_lifo(w) ==
  /\ pc[w] = "idle"
  /\ tq[w] # <<>>
  /\ held' = [held EXCEPT ![w] = Last(tq[w])]
  /\ tq' = [tq EXCEPT ![w] = Front(@)]
  /\ pc' = [pc EXCEPT ![w] = "saving"]
  /\ UNCHANGED <<worker, exporter, registry, pq, received, sent, last>>

\* The worker pops the next template (the queue count drops here).
PopTemplate(w) ==
  /\ pc[w] = "idle"
  /\ tq[w] # <<>>
  /\ held' = [held EXCEPT ![w] = Head(tq[w])]
  /\ tq' = [tq EXCEPT ![w] = Tail(@)]
  /\ pc' = [pc EXCEPT ![w] = "saving"]
  /\ UNCHANGED <<worker, exporter, registry, pq, received, sent, last>>

\* Mutant: a template id already stored is never replaced.
save_template_keepOld(reg, item) ==
  IF reg[item.s][item.t] # 0 THEN reg ELSE [reg EXCEPT ![item.s][item.t] = item.v]

\* save_template(): a copy replaces any template with the same id.
save_template(reg, item) == [reg EXCEPT ![item.s][item.t] = item.v]

\* Whether rd_calloc_struct returns the copy.
AllocResults == IF AllocCanFail THEN BOOLEAN ELSE {TRUE}

\* save_template(); when the copy cannot be allocated it logs "Not enough
\* memory" and returns, leaving the previous template (or none) stored.
SaveTemplate(w) ==
  /\ pc[w] = "saving"
  /\ \E ok \in AllocResults :
       registry' = IF ok THEN save_template(registry, held[w]) ELSE registry
  /\ pc' = [pc EXCEPT ![w] = "idle"]
  /\ held' = [held EXCEPT ![w] = NoItem]
  /\ UNCHANGED <<worker, exporter, tq, pq, received, sent, last>>

\* Mutant: data decoded without draining the templates queue first.
DecodeData_noDrain(w) ==
  LET d == Head(pq[w]) IN
  /\ pc[w] = "idle"
  /\ pq[w] # <<>>
  /\ pq' = [pq EXCEPT ![w] = Tail(@)]
  /\ last' = [d |-> d, used |-> registry[d.s][d.t]]
  /\ UNCHANGED <<worker, exporter, registry, tq, pc, held, received, sent>>

\* Mutant: a data flowset whose template is not stored waits for it
\* instead of being dropped.
DecodeData_waitTemplate(w) ==
  LET d == Head(pq[w]) IN
  /\ pc[w] = "idle"
  /\ tq[w] = <<>>
  /\ pq[w] # <<>>
  /\ registry[d.s][d.t] # 0
  /\ pq' = [pq EXCEPT ![w] = Tail(@)]
  /\ last' = [d |-> d, used |-> registry[d.s][d.t]]
  /\ UNCHANGED <<worker, exporter, registry, tq, pc, held, received, sent>>

\* With the templates queue drained, the worker decodes the next data
\* flowset against the stored template; 0 means dropped (no template).
DecodeData(w) ==
  LET d == Head(pq[w]) IN
  /\ pc[w] = "idle"
  /\ tq[w] = <<>>
  /\ pq[w] # <<>>
  /\ pq' = [pq EXCEPT ![w] = Tail(@)]
  /\ last' = [d |-> d, used |-> registry[d.s][d.t]]
  /\ UNCHANGED <<worker, exporter, registry, tq, pc, held, received, sent>>

Next ==
  \/ \E s \in Sensors, t \in TemplateIds : Redefine(s, t)
  \/ \E s \in Sensors, T, D \in SUBSET TemplateIds : Receive(s, T, D)
  \/ \E w \in Workers : PopTemplate(w) \/ SaveTemplate(w) \/ DecodeData(w)

\* Workers block on their queues and run whenever an item is there.
Fairness ==
  \A w \in Workers : /\ WF_vars(PopTemplate(w))
                     /\ WF_vars(SaveTemplate(w))
                     /\ WF_vars(DecodeData(w))

Spec == Init /\ [][Next]_vars /\ Fairness

-----------------------------------------------------------------------------
(* Properties *)

Versions == 0..MaxVersion
TemplateItems == [s : Sensors, t : TemplateIds, v : Versions]
DataItems == [s : Sensors, t : TemplateIds, expect : Versions, own : BOOLEAN]

TypeOK ==
  /\ worker \in [Sensors -> Workers]
  /\ exporter \in [Sensors -> [TemplateIds -> Versions]]
  /\ registry \in [Sensors -> [TemplateIds -> Versions]]
  /\ sent \in [Sensors -> [TemplateIds -> Versions]]
  /\ tq \in [Workers -> Seq(TemplateItems)]
  /\ pq \in [Workers -> Seq(DataItems)]
  /\ pc \in [Workers -> {"idle", "saving"}]
  /\ held \in [Workers -> TemplateItems]
  /\ received \in 0..MaxDatagrams
  /\ last \in [d : DataItems, used : Versions]

\* Spec 8.1: a data flowset whose own datagram carried its template is
\* decoded, never dropped: the worker saves every template queued ahead of
\* it before decoding it.
TemplateBeforeData == last.d.own => last.used # 0

\* A stored template is only ever replaced by a newer definition: the
\* worker saves a sensor's templates in the order they were received.
RegistryMonotone ==
  [][\A s \in Sensors, t \in TemplateIds : registry'[s][t] >= registry[s][t]]_vars

\* Spec 5: across datagrams of one sensor, order is preserved, so a data
\* flowset is decoded with the template an in-order collector would use:
\* the one of its own datagram, else the last one received before it, and
\* dropped when there was none (spec 8.2).
InOrderDecode == last.used = last.d.expect

\* Once the exporters stop, every stored template converges to the last
\* version received for it: each queued template is eventually saved by
\* save_template, and in the order the exporter sent them.
TemplatesConverge ==
  \A s \in Sensors, t \in TemplateIds : <>[](registry[s][t] = sent[s][t])

-----------------------------------------------------------------------------
(* Refinement: the two-step pop/save of a worker implements the atomic     *)
(* application of TemplateQueue.  A template popped but not yet saved is   *)
(* still pending; popping it is a stutter, saving it is Apply.             *)

pendingBar == [w \in Workers |-> IF pc[w] = "saving" THEN <<held[w]>> \o tq[w]
                                                    ELSE tq[w]]

ABS == INSTANCE TemplateQueue WITH pending <- pendingBar, data <- pq

\* The worker loop implements TemplateQueue, fairness included: templates
\* are applied one at a time in queue order, data waits only for templates
\* queued before it, and nothing queued is left undone.
ImplementsTemplateQueue == ABS!Spec
=============================================================================
