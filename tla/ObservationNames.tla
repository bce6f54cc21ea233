-------------------------- MODULE ObservationNames --------------------------
(***************************************************************************)
(* The name tables of an observation domain, filled from option data       *)
(* (observation_id_add_application_id, _add_selector_id,                   *)
(* _add_new_interface) and read back through the lookups of sensors.c,     *)
(* composed with the record assembler's application_id_name key, which     *)
(* print_application_id_name renders (Render.tla).                         *)
(*                                                                         *)
(* The *_new constructors of the dynamic-sensors library copy the name and *)
(* may fail to allocate; the sensors.c wrappers then return silently.      *)
(* Adding an entry whose id is already present replaces it (spec 4.2).     *)
(* Ids are the 4 bytes of the APP_ID field; net2number is injective on     *)
(* them, so a byte tuple stands for its number.                            *)
(***************************************************************************)
EXTENDS Naturals, Sequences, SequencesExt

CONSTANTS
  Ids,           \* application, selector and interface ids (4-byte tuples)
  Names,         \* names and descriptions carried by option data
  AppNameDb,     \* apps_name_as_list: APP_ID bytes -> name
  AllocCanFail   \* whether application_new & co. may return NULL

NULL == "NULL"

ASSUME NULL \notin Names /\ AllocCanFail \in BOOLEAN

\* The handler of Render.tla, with the width and tables it does not use
\* fixed to unused values.
RD == INSTANCE Render WITH
        Width <- 28, NumberSamples <- {}, Bytes <- 0..255, MacNameDb <- <<>>,
        VendorDb <- <<>>, EngineNameDb <- <<>>, EngineIds <- {},
        ProtoNameDb <- <<>>, Protos <- {}, AsChars <- {}, MaxRsp <- 0,
        FieldLens <- {4}, StrChars <- {}, Nul <- "~", MaxStr <- 0,
        CountryDb <- <<>>, CountryIps <- {}, HomeNets <- <<>>,
        GlobalNets <- <<>>, NetIps <- {}, call <- "none", arg <- <<>>,
        res <- [out |-> <<>>, ret |-> 0]

VARIABLES
  apps,        \* apps[id]: the observation's application name, or NULL
  selectors,   \* selectors[id]: selector name, or NULL
  interfaces,  \* interfaces[id]: [name, description], both NULL if absent
  listLoaded,  \* apps_name_as_list != NULL
  line         \* the application_id_name key of the last record, if any

vars == <<apps, selectors, interfaces, listLoaded, line>>

\* Whether the constructor returns an object.
AllocResults == IF AllocCanFail THEN BOOLEAN ELSE {TRUE}

NoInterface == [name |-> NULL, description |-> NULL]

NoLine == [id |-> CHOOSE i \in Ids : TRUE, key |-> FALSE, text |-> ""]

Init ==
  /\ apps = [i \in Ids |-> NULL]
  /\ selectors = [i \in Ids |-> NULL]
  /\ interfaces = [i \in Ids |-> NoInterface]
  /\ listLoaded \in BOOLEAN
  /\ line = NoLine

observation_id_add_application_id(id, name, ok) ==
  /\ apps' = IF ok THEN [apps EXCEPT ![id] = name] ELSE apps
  /\ UNCHANGED <<selectors, interfaces, listLoaded, line>>

observation_id_add_selector_id(id, name, ok) ==
  /\ selectors' = IF ok THEN [selectors EXCEPT ![id] = name] ELSE selectors
  /\ UNCHANGED <<apps, interfaces, listLoaded, line>>

\* Mutant: the NULL check after interface_new is dropped.
observation_id_add_new_interface_noCheck(id, name, descr, ok) ==
  /\ interfaces' = [interfaces EXCEPT ![id] = IF ok THEN [name |-> name, description |-> descr]
                                                  ELSE [name |-> NULL, description |-> descr]]
  /\ UNCHANGED <<apps, selectors, listLoaded, line>>

observation_id_add_new_interface(id, name, descr, ok) ==
  /\ interfaces' = IF ok THEN [interfaces EXCEPT ![id] = [name |-> name, description |-> descr]]
                         ELSE interfaces
  /\ UNCHANGED <<apps, selectors, listLoaded, line>>

\* The lookups return NULL for an id no option record named.
observation_id_application_name(id) == apps[id]
observation_id_selector_name(id) == selectors[id]
observation_id_interface_name(id) == interfaces[id].name
observation_id_interface_description(id) == interfaces[id].description

\* A data record carrying APP_ID b: the assembler appends the
\* "application_id_name" key only when the handler returns > 0.
RenderAppName(b) ==
  LET r == RD!print_application_id_name0(listLoaded, b, 4) IN
  /\ line' = [id |-> b, key |-> r.ret > 0, text |-> RD!Text(r.out)]
  /\ UNCHANGED <<apps, selectors, interfaces, listLoaded>>

Next ==
  \/ \E id \in Ids, n \in Names, ok \in AllocResults :
       \/ observation_id_add_application_id(id, n, ok)
       \/ observation_id_add_selector_id(id, n, ok)
  \/ \E id \in Ids, n, d \in Names, ok \in AllocResults :
       observation_id_add_new_interface(id, n, d, ok)
  \/ \E b \in Ids : RenderAppName(b)

Spec == Init /\ [][Next]_vars

-----------------------------------------------------------------------------
(* Properties *)

TypeOK ==
  /\ apps \in [Ids -> Names \cup {NULL}]
  /\ selectors \in [Ids -> Names \cup {NULL}]
  /\ interfaces \in [Ids -> [name : Names, description : Names] \cup {NoInterface}]
  /\ listLoaded \in BOOLEAN
  /\ line \in [id : Ids, key : BOOLEAN, text : STRING]

\* Spec S4: once option data has named an application id, a data record
\* carrying that id is printed with "application_id_name" set to the name.
OptionNameRendered ==
  apps[line.id] # NULL /\ line # NoLine => line.key /\ line.text = apps[line.id]
=============================================================================
