---------------------------- MODULE TemplateQueue ----------------------------
(***************************************************************************)
(* What a worker promises about templates (spec 4.2, 4.8, invariant ii):   *)
(* the templates handed to a worker are applied to the registry one at a   *)
(* time, atomically and in the order they were handed over, and a data     *)
(* flowset is decoded only when no template handed over before it is still *)
(* pending.  Producers only ever append to a worker's queues.  Every       *)
(* pending template is eventually applied and every queued data flowset    *)
(* eventually decoded.                                                     *)
(***************************************************************************)
EXTENDS Naturals, Sequences, SequencesExt

CONSTANTS Sensors, TemplateIds, Workers, NoData

VARIABLES
  registry,  \* registry[s][t]: the version a data flowset is decoded with
  pending,   \* pending[w]: templates handed to w and not yet applied
  data,      \* data[w]: data flowsets handed to w and not yet decoded
  last       \* the last data flowset decoded and the version it used

vars == <<registry, pending, data, last>>

\* A producer hands templates and data to workers: queues only grow.
Hand ==
  /\ \A w \in Workers : IsPrefix(pending[w], pending'[w]) /\ IsPrefix(data[w], data'[w])
  /\ UNCHANGED <<registry, last>>

\* The oldest pending template of w replaces the stored one.
Apply(w) ==
  LET item == Head(pending[w]) IN
  /\ pending[w] # <<>>
  /\ registry' = [registry EXCEPT ![item.s][item.t] = item.v]
  /\ pending' = [pending EXCEPT ![w] = Tail(@)]
  /\ UNCHANGED <<data, last>>

\* With nothing pending, the oldest data flowset of w is decoded.
Decode(w) ==
  LET d == Head(data[w]) IN
  /\ pending[w] = <<>>
  /\ data[w] # <<>>
  /\ data' = [data EXCEPT ![w] = Tail(@)]
  /\ last' = [d |-> d, used |-> registry[d.s][d.t]]
  /\ UNCHANGED <<registry, pending>>

Next == Hand \/ \E w \in Workers : Apply(w) \/ Decode(w)

Spec == /\ registry = [s \in Sensors |-> [t \in TemplateIds |-> 0]]
        /\ pending = [w \in Workers |-> <<>>]
        /\ data = [w \in Workers |-> <<>>]
        /\ last = [d |-> NoData, used |-> 0]
        /\ [][Next]_vars
        /\ \A w \in Workers : WF_vars(Apply(w)) /\ WF_vars(Decode(w))
=============================================================================
