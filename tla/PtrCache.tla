------------------------------ MODULE PtrCache ------------------------------
(***************************************************************************)
(* Reverse-DNS names for the client_name and target_name keys (spec 4.4,   *)
(* 4.6, 5).  Workers assemble records concurrently.  A record's flow cache *)
(* holds a src and a dst address and a direction; the client side is       *)
(* chosen by get_direction_based_client_ip, the target side by             *)
(* get_direction_based_target_ip.  Each side the observation wants a name  *)
(* for is looked up in the shared PTR cache: a hit gives the flow cache a  *)
(* weak reference to the entry (the _name_cache field), a miss submits a   *)
(* request to the DNS poller, and a completion seen before the record's    *)
(* deadline gives an owning copy (the _name field).  Completions are       *)
(* published with a TTL, shorter for a negative answer; an expired entry   *)
(* no flow cache references is evicted.  Time is a tick that decrements    *)
(* every TTL and deadline.                                                 *)
(*                                                                         *)
(* The cache, the poller and the waiting are modelled from the spec (the   *)
(* resolver code is not in the repository); the side selection and what   *)
(* the record prints are export.c.                                         *)
(***************************************************************************)
EXTENDS Naturals, FiniteSets

CONSTANTS
  Workers,     \* worker threads assembling records
  Ips,         \* addresses of the records
  Flows,       \* [src, dst] address pairs of the records
  Directions,  \* directions the records' fields leave (a subset of Dirs)
  PtrAnswer,   \* PtrAnswer[ip]: the PTR name, or NoName for NXDOMAIN
  NoName,      \* NULL (a name or an address pointer)
  WantClient,  \* observation_id_want_client_dns
  WantTarget,  \* observation_id_want_target_dns
  TTL,         \* ticks a positive entry lives
  NegTTL,      \* ticks a negative entry lives (shorter)
  Deadline     \* ticks a record waits for its completions

ASSUME /\ NegTTL < TTL /\ Deadline \in Nat \ {0}
       /\ PtrAnswer \in [Ips -> STRING \cup {NoName}]
       /\ Flows \subseteq [src : Ips, dst : Ips]
       /\ Directions \subseteq {"unset", "ingress", "egress", "internal"}
       /\ {WantClient, WantTarget} \subseteq BOOLEAN

Dirs == {"unset", "ingress", "egress", "internal"}
Sides == {"client", "target"}

VARIABLES
  cache,   \* cache[ip]: [kind, name, ttl, refs]; kind "absent", "positive", "negative"
  req,     \* IPs submitted to the poller and not yet completed
  rec      \* rec[w]: the record worker w is assembling

vars == <<cache, req, rec>>

Absent == [kind |-> "absent", name |-> NoName, ttl |-> 0, refs |-> 0]
\* A name slot of the flow cache: "off" (not wanted), "new", "waiting", "ready".
NoSlot == [st |-> "off", ip |-> NoName, owned |-> NoName, handle |-> NoName]
AnyFlow == CHOOSE f \in Flows : TRUE
Idle == [phase |-> "idle", flow |-> AnyFlow, dir |-> "unset", left |-> 0,
         slot |-> [s \in Sides |-> NoSlot]]

Valid(e) == e.kind # "absent" /\ e.ttl > 0
Answer(ip) == IF PtrAnswer[ip] = NoName THEN "negative" ELSE "positive"

\* get_direction_based_client_ip(): which address of the flow cache, as a
\* field name, or "none" for NULL.  src and dst are arrays, never NULL.
get_direction_based_client_ip(dir) ==
  CASE dir = "ingress"             -> "src"
    [] dir \in {"egress", "internal"} -> "dst"
    [] OTHER                       -> "none"

\* get_direction_based_target_ip(): dst if the client pointer is src, else
\* src, NULL client included.
get_direction_based_target_ip(dir) ==
  IF get_direction_based_client_ip(dir) = "src" THEN "dst" ELSE "src"

Want(s) == IF s = "client" THEN WantClient ELSE WantTarget
SideOf(s, dir) ==
  IF s = "client" THEN get_direction_based_client_ip(dir) ELSE get_direction_based_target_ip(dir)

Init ==
  /\ cache = [i \in Ips |-> Absent]
  /\ req = {}
  /\ rec = [w \in Workers |-> Idle]

\* Worker w starts a record with flow f whose fields left direction dir;
\* a lookup is pending for every wanted side that has an address.
Start(w, f, dir) ==
  /\ rec[w].phase = "idle"
  /\ rec' = [rec EXCEPT ![w] =
               [phase |-> "lookup", flow |-> f, dir |-> dir, left |-> Deadline,
                slot |-> [s \in Sides |->
                           IF Want(s) /\ SideOf(s, dir) # "none"
                           THEN [NoSlot EXCEPT !.st = "new", !.ip = f[SideOf(s, dir)]]
                           ELSE NoSlot]]]
  /\ UNCHANGED <<cache, req>>

\* The PTR cache is asked for side s.  A valid positive entry is referenced
\* weakly; a valid negative one means no name; else a request is submitted
\* (once per IP) and the side waits.
Lookup(w, s) ==
  LET sl == rec[w].slot[s]
      e == cache[sl.ip]
  IN /\ sl.st = "new"
     /\ \/ /\ Valid(e) /\ e.kind = "positive"
           /\ cache' = [cache EXCEPT ![sl.ip].refs = @ + 1]
           /\ rec' = [rec EXCEPT ![w].slot[s].st = "ready", ![w].slot[s].handle = sl.ip]
           /\ UNCHANGED req
        \/ /\ Valid(e) /\ e.kind = "negative"
           /\ rec' = [rec EXCEPT ![w].slot[s].st = "ready"]
           /\ UNCHANGED <<cache, req>>
        \/ /\ ~Valid(e)
           /\ req' = req \cup {sl.ip}
           /\ rec' = [rec EXCEPT ![w].slot[s].st = "waiting"]
           /\ UNCHANGED cache

\* The poller publishes the answer for ip, inserting or refreshing the entry.
Resolve(ip) ==
  /\ ip \in req
  /\ req' = req \ {ip}
  /\ cache' = [cache EXCEPT ![ip] = [kind |-> Answer(ip), name |-> PtrAnswer[ip],
                                     ttl |-> IF Answer(ip) = "positive" THEN TTL ELSE NegTTL,
                                     refs |-> @.refs]]
  /\ UNCHANGED rec

\* A waiting side sees the completion: an owning copy of the name.
Wakeup(w, s) ==
  LET sl == rec[w].slot[s] IN
  /\ sl.st = "waiting"
  /\ Valid(cache[sl.ip])
  /\ rec' = [rec EXCEPT ![w].slot[s].st = "ready", ![w].slot[s].owned = PtrAnswer[sl.ip]]
  /\ UNCHANGED <<cache, req>>

Waiting(w) == {s \in Sides : rec[w].slot[s].st = "waiting"}

\* The record's deadline lapses: every side still waiting goes on without
\* a DNS name.
Timeout(w) ==
  /\ rec[w].phase = "lookup" /\ rec[w].left = 0 /\ Waiting(w) # {}
  /\ rec' = [rec EXCEPT ![w].slot = [s \in Sides |->
               IF s \in Waiting(w) THEN [@[s] EXCEPT !.st = "ready"] ELSE @[s]]]
  /\ UNCHANGED <<cache, req>>

\* One tick of the clock.
Dec(n) == IF n > 0 THEN n - 1 ELSE 0

Tick ==
  /\ \/ \E i \in Ips : cache[i].ttl > 0
     \/ \E w \in Workers : Waiting(w) # {} /\ rec[w].left > 0
  /\ cache' = [i \in Ips |-> [cache[i] EXCEPT !.ttl = Dec(@)]]
  /\ rec' = [w \in Workers |-> IF Waiting(w) # {}
                                THEN [rec[w] EXCEPT !.left = Dec(@)] ELSE rec[w]]
  /\ UNCHANGED req

\* An expired entry no flow cache references is evicted.
Evict(ip) ==
  /\ cache[ip].kind # "absent" /\ cache[ip].ttl = 0 /\ cache[ip].refs = 0
  /\ cache' = [cache EXCEPT ![ip] = Absent]
  /\ UNCHANGED <<req, rec>>

\* get_direction_based_client_hostname() and _target_hostname(): the owning
\* name, else the name of the referenced cache entry, else NULL.
get_direction_based_client_hostname(sl) ==
  IF sl.owned # NoName THEN sl.owned
  ELSE IF sl.handle # NoName THEN cache[sl.handle].name
  ELSE NoName

get_direction_based_target_hostname(sl) == get_direction_based_client_hostname(sl)

\* References the flow cache of worker w holds to entry i.
Refs(w, i) == Cardinality({s \in Sides : rec[w].slot[s].handle = i})

\* The names print_client_name() and print_target_name() write for the
\* record of worker w.
Line(w) ==
  [client |-> get_direction_based_client_hostname(rec[w].slot["client"]),
   target |-> get_direction_based_target_hostname(rec[w].slot["target"])]

\* Every side has its answer, or none is coming: the line can be printed.
Printable(w) ==
  rec[w].phase = "lookup" /\ \A s \in Sides : rec[w].slot[s].st \in {"off", "ready"}

\* The line is printed (Line(w)) and the flow cache is discarded,
\* releasing its references.
Emit(w) ==
  /\ Printable(w)
  /\ cache' = [i \in Ips |-> [cache[i] EXCEPT !.refs = @ - Refs(w, i)]]
  /\ rec' = [rec EXCEPT ![w] = Idle]
  /\ UNCHANGED req

Next ==
  \/ \E w \in Workers, f \in Flows, d \in Directions : Start(w, f, d)
  \/ \E w \in Workers, s \in Sides : Lookup(w, s) \/ Wakeup(w, s)
  \/ \E ip \in Ips : Resolve(ip) \/ Evict(ip)
  \/ \E w \in Workers : Timeout(w) \/ Emit(w)
  \/ Tick

\* Time passes, and a worker is never stuck on a record it can finish.  The
\* poller has no fairness: a DNS server may never answer.  Records arrive
\* when exporters send them.
Fairness ==
  /\ WF_vars(Tick)
  /\ \A w \in Workers : WF_vars(Timeout(w)) /\ WF_vars(Emit(w))
  /\ \A w \in Workers, s \in Sides : WF_vars(Lookup(w, s)) /\ WF_vars(Wakeup(w, s))

Spec == Init /\ [][Next]_vars /\ Fairness

-----------------------------------------------------------------------------
(* Properties *)

Slots == [st : {"off", "new", "waiting", "ready"}, ip : Ips \cup {NoName},
          owned : STRING \cup {NoName}, handle : Ips \cup {NoName}]

TypeOK ==
  /\ cache \in [Ips -> [kind : {"absent", "positive", "negative"}, name : STRING \cup {NoName},
                        ttl : 0..TTL, refs : 0..2 * Cardinality(Workers)]]
  /\ req \subseteq Ips
  /\ rec \in [Workers -> [phase : {"idle", "lookup"}, flow : Flows, dir : Dirs,
                          left : 0..Deadline, slot : [Sides -> Slots]]]

\* Spec 4.3 (handler ordering): a direction-dependent handler emits nothing
\* while the direction is unset.  print_target_name() is such a handler: it
\* prints the PTR name of get_direction_based_target_ip(), and the target
\* of a record whose direction was never resolved has no defined end.
TargetNameNeedsDirection ==
  \A w \in Workers :
    (Printable(w) /\ rec[w].dir = "unset") => Line(w).target = NoName
=============================================================================
