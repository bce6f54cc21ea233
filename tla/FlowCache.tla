------------------------------ MODULE FlowCache ------------------------------
(***************************************************************************)
(* One data record walked field by field (export.c): the per-record flow   *)
(* cache (struct flowCache), the handlers that fill it from wire fields,   *)
(* direction inference (guessDirection), and the direction-dependent keys  *)
(* printed from it (direction, client_mac) followed by the sensor          *)
(* enrichment.  The line is a sequence of <<key, value>> pairs; byte       *)
(* formatting is abstracted away, byte offsets are kept where a handler    *)
(* reads the wrong ones.                                                   *)
(*                                                                         *)
(* The caller that walks the template (collect.c) is not in the            *)
(* repository: the walk itself follows spec.md 4.3/4.7 (fields in template *)
(* order, then direction inference, then the direction-dependent keys).    *)
(***************************************************************************)
EXTENDS Naturals, Sequences, SequencesExt

CONSTANTS
  Macs,          \* MAC values a field can carry
  ZeroMac,       \* 00:00:00:00:00:00, net2number() = 0
  RouterMacs,    \* the sensor's router MACs (sensor_has_router_mac)
  MulticastMacs, \* MACs rejected by valid_mac()
  Addrs,         \* non-zero IP addresses (IPv4 ones are stored IPv4-mapped)
  HomeAddrs,     \* addresses inside a home net of the sensor (network_ip)
  NoAddr,        \* the all-zero 16-byte address of a fresh cache
  BadLen,        \* a field whose template length is not the handler's
  OtherBytes,    \* six record bytes that are not a MAC field
  Enrichment,    \* the sensor's enrichment string, or NoEnrichment
  NoEnrichment,
  MaxFields      \* bound on wire fields per record

ASSUME /\ ZeroMac \in Macs /\ RouterMacs \subseteq Macs \ {ZeroMac}
       /\ MulticastMacs \subseteq Macs \ {ZeroMac}
       /\ HomeAddrs \subseteq Addrs /\ NoAddr \notin Addrs
       /\ MaxFields \in Nat \ {0}

Dirs == {"unset", "ingress", "egress", "internal"}

\* Wire field kinds, each bound to its handler in export.c.
FieldKinds == {"DIRECTION", "IN_SRC_MAC", "IN_DST_MAC", "OUT_DST_MAC",
               "IPV4_SRC_ADDR", "IPV4_DST_ADDR", "IPV6_SRC_ADDR",
               "IPV6_DST_ADDR", "CLIENT_MAC"}
MacKinds == {"IN_SRC_MAC", "IN_DST_MAC", "OUT_DST_MAC", "CLIENT_MAC"}

\* The values a field of each kind can carry on the wire.
FieldValues(k) ==
  CASE k = "DIRECTION"     -> {0, 1, 2}
    [] k \in MacKinds      -> Macs \cup {BadLen}
    [] k \in {"IPV4_SRC_ADDR", "IPV4_DST_ADDR"} -> Addrs \cup {BadLen}
    [] OTHER               -> Addrs \cup {NoAddr, BadLen}

VARIABLES
  sensor,   \* [span, macDb]: is_span_sensor / sensor_has_mac_db
  cache,    \* struct flowCache of the record being decoded
  line,     \* keys appended to the record's output line so far
  phase,    \* "fields" -> "guessed" -> "done"
  nfields,  \* wire fields walked so far
  head,     \* the first six bytes of the record
  explicit  \* direction of the last DIRECTION field of the record (history)

vars == <<sensor, cache, line, phase, nfields, head, explicit>>

\* new_flowCache(): calloc, every slot zero.
EmptyCache ==
  [direction |-> "unset", src_mac |-> ZeroMac, dst_mac |-> ZeroMac,
   post_dst_mac |-> ZeroMac, src |-> NoAddr, dst |-> NoAddr,
   client_mac |-> ZeroMac]

-----------------------------------------------------------------------------
(* Direction inference *)

ip_direction(known_src, known_dst) ==
  CASE ~known_src /\ known_dst -> "egress"
    [] known_src /\ ~known_dst -> "ingress"
    [] known_src /\ known_dst  -> "internal"
    [] OTHER                   -> "unset"

mac_direction(known_src, known_dst) ==
  CASE known_src /\ ~known_dst -> "egress"
    [] ~known_src /\ known_dst -> "ingress"
    [] OTHER                   -> "unset"

valid_mac(m) == m \notin MulticastMacs

\* The MAC on the destination side: pre-routing in span mode, else post-routing.
DstSideMac(c, s) == IF s.span THEN c.dst_mac ELSE c.post_dst_mac

\* Mutant: the guard on the IP-inferred direction dropped, so an "unset"
\* result overwrites what was there.
GuessDirection_noUnsetGuard(c, s) ==
  LET src == c.src_mac
      dst == DstSideMac(c, s)
      md  == mac_direction(src \in RouterMacs, dst \in RouterMacs)
  IN IF /\ s.macDb /\ src # ZeroMac /\ valid_mac(src)
        /\ dst # ZeroMac /\ valid_mac(dst) /\ md # "unset"
     THEN [c EXCEPT !.direction = md]
     ELSE IF c.src = NoAddr \/ c.dst = NoAddr THEN c
     ELSE [c EXCEPT !.direction = ip_direction(c.src \in HomeAddrs,
                                                c.dst \in HomeAddrs)]

\* Mutant: home-net inference tried before MAC inference.
GuessDirection_ipFirst(c, s) ==
  LET src == c.src_mac
      dst == DstSideMac(c, s)
      md  == mac_direction(src \in RouterMacs, dst \in RouterMacs)
      id  == ip_direction(c.src \in HomeAddrs, c.dst \in HomeAddrs)
  IN IF c.src # NoAddr /\ c.dst # NoAddr /\ id # "unset"
     THEN [c EXCEPT !.direction = id]
     ELSE IF /\ s.macDb /\ src # ZeroMac /\ valid_mac(src)
             /\ dst # ZeroMac /\ valid_mac(dst) /\ md # "unset"
     THEN [c EXCEPT !.direction = md]
     ELSE c

\* guessDirection(): MAC inference when the sensor has router MACs and both
\* MACs are non-zero unicast, else home-net inference when both addresses are
\* set.  The early return on an already set direction is commented out.
GuessDirection(c, s) ==
  LET src == c.src_mac
      dst == DstSideMac(c, s)
      md  == mac_direction(src \in RouterMacs, dst \in RouterMacs)
      id  == ip_direction(c.src \in HomeAddrs, c.dst \in HomeAddrs)
  IN IF /\ s.macDb /\ src # ZeroMac /\ valid_mac(src)
        /\ dst # ZeroMac /\ valid_mac(dst) /\ md # "unset"
     THEN [c EXCEPT !.direction = md]
     ELSE IF c.src = NoAddr \/ c.dst = NoAddr \/ id = "unset" THEN c
     ELSE [c EXCEPT !.direction = id]

\* empty_mac(): NULL or all six bytes zero.
empty_mac(m) == m = ZeroMac

\* Mutant: for an internal flow the src MAC is preferred.
ClientMacSide_internalSrcFirst(c, s) ==
  CASE c.direction = "ingress"  -> IF ~empty_mac(c.src_mac) THEN "src" ELSE "none"
    [] c.direction = "egress"   -> IF ~empty_mac(DstSideMac(c, s)) THEN "dst" ELSE "none"
    [] c.direction = "internal" -> IF ~empty_mac(c.src_mac) THEN "src"
                                   ELSE IF ~empty_mac(DstSideMac(c, s)) THEN "dst"
                                   ELSE "none"
    [] c.direction = "unset"    -> "none"

\* get_direction_based_client_mac(): the side the client is on, or "none".
ClientMacSide(c, s) ==
  CASE c.direction = "ingress"  -> IF ~empty_mac(c.src_mac) THEN "src" ELSE "none"
    [] c.direction = "egress"   -> IF ~empty_mac(DstSideMac(c, s)) THEN "dst" ELSE "none"
    [] c.direction = "internal" -> IF ~empty_mac(DstSideMac(c, s)) THEN "dst"
                                   ELSE IF ~empty_mac(c.src_mac) THEN "src"
                                   ELSE "none"
    [] c.direction = "unset"    -> "none"

SideMac(c, s, side) == IF side = "src" THEN c.src_mac ELSE DstSideMac(c, s)

\* get_direction_based_client_ip(): src and dst are arrays, never NULL.
ClientIpSide(c) ==
  CASE c.direction = "ingress"  -> "src"
    [] c.direction = "egress"   -> "dst"
    [] c.direction = "internal" -> "dst"
    [] OTHER                    -> "none"

-----------------------------------------------------------------------------
(* Field handlers.  Each returns [c |-> new cache, out |-> keys appended]. *)

Result(c, out) == [c |-> c, out |-> out]

\* save_direction(): 0 is ingress, 1 egress, anything else is ignored.
\* Mutant: an unknown DIRECTION value resets the direction.
save_direction_defaultUnset(c, v) ==
  Result(CASE v = 0 -> [c EXCEPT !.direction = "ingress"]
           [] v = 1 -> [c EXCEPT !.direction = "egress"]
           [] OTHER -> [c EXCEPT !.direction = "unset"], <<>>)

save_direction(c, v) ==
  Result(CASE v = 0 -> [c EXCEPT !.direction = "ingress"]
           [] v = 1 -> [c EXCEPT !.direction = "egress"]
           [] OTHER -> c, <<>>)

\* save_mac() into one slot: the value is kept only if the length is 6.
save_mac(c, slot, v) ==
  Result(IF v = BadLen THEN c ELSE [c EXCEPT ![slot] = v], <<>>)

\* print_ipv4_addr(): store IPv4-mapped, print dotted quad; length must be 4.
print_ipv4_addr(c, slot, key, v) ==
  IF v = BadLen THEN Result(c, <<>>)
  ELSE Result([c EXCEPT ![slot] = v], <<<<key, v>>>>)

\* Mutant: the length check dropped.
print_ipv6_noLenCheck(c, slot, key, v) ==
  Result([c EXCEPT ![slot] = v], <<<<key, v>>>>)

\* print_ipv6(): store the 16 bytes (all-zero included) and print them.
print_ipv6(c, slot, key, v) ==
  IF v = BadLen THEN Result(c, <<>>)
  ELSE Result([c EXCEPT ![slot] = v], <<<<key, v>>>>)

\* print_client_mac(): save the field's MAC as client_mac unless one was
\* already saved (client_mac != 0), then print six bytes from the start of
\* the record buffer (print_mac0(buffer), the offset is not added).
print_client_mac(c, v, recordHead) ==
  IF v = BadLen \/ c.client_mac # ZeroMac THEN Result(c, <<>>)
  ELSE Result([c EXCEPT !.client_mac = v], <<<<"client_mac", recordHead>>>>)

\* The handler the field dictionary binds to each wire field kind.
Handle(c, k, v, recordHead) ==
  CASE k = "DIRECTION"     -> save_direction(c, v)
    [] k = "IN_SRC_MAC"    -> save_mac(c, "src_mac", v)
    [] k = "IN_DST_MAC"    -> save_mac(c, "dst_mac", v)
    [] k = "OUT_DST_MAC"   -> save_mac(c, "post_dst_mac", v)
    [] k = "IPV4_SRC_ADDR" -> print_ipv4_addr(c, "src", "src", v)
    [] k = "IPV4_DST_ADDR" -> print_ipv4_addr(c, "dst", "dst", v)
    [] k = "IPV6_SRC_ADDR" -> print_ipv6(c, "src", "src", v)
    [] k = "IPV6_DST_ADDR" -> print_ipv6(c, "dst", "dst", v)
    [] k = "CLIENT_MAC"    -> print_client_mac(c, v, recordHead)

\* print_direction(): nothing while unset.
print_direction(c) ==
  IF c.direction = "unset" THEN <<>> ELSE <<<<"direction", c.direction>>>>

\* print_direction_based_client_mac(): once per record, from the client side.
print_direction_based_client_mac(c, s) ==
  LET side == ClientMacSide(c, s) IN
  IF c.client_mac # ZeroMac \/ side = "none" THEN Result(c, <<>>)
  ELSE Result([c EXCEPT !.client_mac = SideMac(c, s, side)],
              <<<<"client_mac", SideMac(c, s, side)>>>>)

\* print_sensor_enrichment(): ",<enrichment>" when configured and non-empty.
print_sensor_enrichment ==
  IF Enrichment = NoEnrichment THEN <<>> ELSE <<<<"enrichment", Enrichment>>>>

-----------------------------------------------------------------------------
(* The record walk *)

Init ==
  /\ sensor \in [span : BOOLEAN, macDb : BOOLEAN]
  /\ cache = EmptyCache
  /\ line = <<>>
  /\ phase = "fields"
  /\ nfields = 0
  /\ head = OtherBytes
  /\ explicit = "unset"

\* The six bytes at the record start once its first field is known.
HeadAfter(k, v) ==
  IF nfields = 0 /\ k \in MacKinds /\ v \in Macs THEN v
  ELSE IF nfields = 0 THEN OtherBytes ELSE head

\* The next wire field of the template is decoded by its handler.
DecodeField(k, v) ==
  LET h == HeadAfter(k, v)
      r == Handle(cache, k, v, h)
  IN /\ phase = "fields"
     /\ nfields < MaxFields
     /\ cache' = r.c
     /\ line' = line \o r.out
     /\ nfields' = nfields + 1
     /\ head' = h
     /\ explicit' = IF k = "DIRECTION" /\ v \in {0, 1}
                    THEN r.c.direction ELSE explicit
     /\ UNCHANGED <<sensor, phase>>

\* After the last wire field: guessDirection().
EndOfFields ==
  /\ phase = "fields"
  /\ cache' = GuessDirection(cache, sensor)
  /\ phase' = "guessed"
  /\ UNCHANGED <<sensor, line, nfields, head, explicit>>

\* The direction-dependent keys, then the enrichment; the line is emitted.
EmitRecord ==
  LET r == print_direction_based_client_mac(cache, sensor) IN
  /\ phase = "guessed"
  /\ cache' = r.c
  /\ line' = line \o print_direction(cache) \o r.out \o print_sensor_enrichment
  /\ phase' = "done"
  /\ UNCHANGED <<sensor, nfields, head, explicit>>

\* The next record starts with a fresh cache.
NextRecord ==
  /\ phase = "done"
  /\ cache' = EmptyCache
  /\ line' = <<>>
  /\ phase' = "fields"
  /\ nfields' = 0
  /\ head' = OtherBytes
  /\ explicit' = "unset"
  /\ UNCHANGED sensor

Next ==
  \/ \E k \in FieldKinds : \E v \in FieldValues(k) : DecodeField(k, v)
  \/ EndOfFields
  \/ EmitRecord
  \/ NextRecord

Spec == Init /\ [][Next]_vars

-----------------------------------------------------------------------------
(* Properties *)

Keys == {"src", "dst", "client_mac", "direction", "enrichment"}

TypeOK ==
  /\ sensor \in [span : BOOLEAN, macDb : BOOLEAN]
  /\ cache \in [direction : Dirs, src_mac : Macs, dst_mac : Macs,
                post_dst_mac : Macs, src : Addrs \cup {NoAddr},
                dst : Addrs \cup {NoAddr}, client_mac : Macs]
  /\ line \in Seq(Keys \X (Macs \cup Addrs \cup {NoAddr, OtherBytes, Enrichment} \cup Dirs))
  /\ phase \in {"fields", "guessed", "done"}
  /\ nfields \in 0..MaxFields
  /\ head \in Macs \cup {OtherBytes}
  /\ explicit \in Dirs

\* Spec 3 (iii): a direction set on the flow cache is never reverted to unset
\* within the record: not by save_direction() on a later DIRECTION field with
\* an unknown value, not by guessDirection() when its MAC and home-net
\* evidence is inconclusive, not by the direction-dependent keys.  Only the
\* next record's fresh cache (NextRecord) starts unset again.
DirectionNeverReverted ==
  [][~(phase = "done" /\ phase' = "fields") =>
       (cache.direction # "unset" => cache'.direction # "unset")]_vars

\* When the sensor has router MACs and the record carries a non-zero unicast
\* source MAC and destination-side MAC (post-routing, or pre-routing in span
\* mode) of which exactly one is a router's, the emitted line's direction is
\* the MAC-inferred one, whatever DIRECTION fields and addresses it carried.
MacEvidenceDecides ==
  LET src == cache.src_mac
      dst == DstSideMac(cache, sensor)
      md  == mac_direction(src \in RouterMacs, dst \in RouterMacs)
  IN (/\ phase = "done" /\ sensor.macDb
      /\ src \notin {ZeroMac} \cup MulticastMacs
      /\ dst \notin {ZeroMac} \cup MulticastMacs /\ md # "unset")
     => \E i \in 1..Len(line) : line[i] = <<"direction", md>>

\* Spec 3 (iv): the client_mac key is printed at most once per record, by
\* print_client_mac() for a CLIENT_MAC field or by the direction-based
\* handler; both use client_mac != 0 as the "already printed" mark.
ClientMacAtMostOnce ==
  \A i, j \in 1..Len(line) :
    (line[i][1] = "client_mac" /\ line[j][1] = "client_mac") => i = j

\* Every client_mac value printed is the MAC the handler saved as the
\* record's client MAC (print_client_mac() saves the field's MAC).
ClientMacPrintedIsSaved ==
  \A i \in 1..Len(line) :
    line[i][1] = "client_mac" => line[i][2] = cache.client_mac

\* Spec 4.4: an explicit DIRECTION field wins over MAC and home-net
\* inference; the line carries the direction of the last such field.
ExplicitDirectionWins ==
  (phase = "done" /\ explicit # "unset") => cache.direction = explicit

\* Spec 4.4: client MAC and client IP are chosen by the same rule, so that
\* client_mac and the client IP looked up for client_name name one host:
\* get_direction_based_client_mac() and get_direction_based_client_ip()
\* pick the same side whenever the MAC one picks any.
ClientMacAndIpSameSide ==
  (phase = "done" /\ ClientMacSide(cache, sensor) # "none")
    => ClientMacSide(cache, sensor) = ClientIpSide(cache)

\* Spec 4.5, 7.3: client_mac and the client IP looked up for client_name
\* name one host.  get_direction_based_client_mac() and
\* get_direction_based_client_ip() are separate functions; whenever the MAC
\* on the side the IP function picks is present, the MAC function picks that
\* same side.  (They part only through the MAC function's fallback to the
\* other side when that MAC is empty: ClientMacAndIpSameSide.)
ClientMacOnIpSide ==
  (phase = "done" /\ ClientMacSide(cache, sensor) # "none"
                  /\ ~empty_mac(SideMac(cache, sensor, ClientIpSide(cache))))
    => ClientMacSide(cache, sensor) = ClientIpSide(cache)
=============================================================================
