------------------------------- MODULE Render -------------------------------
(***************************************************************************)
(* The value handlers of export.c that render one wire field into the line *)
(* buffer without touching the flow cache.  A handler call is one step:    *)
(* "out" is the sequence of chunks the handler appends (one chunk per      *)
(* printbuf_memappend call) and "ret" the length it returns, which the     *)
(* record assembler takes for the number of bytes appended (spec 4.3).     *)
(*                                                                         *)
(* Numbers: net2number() yields a uint64_t that printbuf_memappend_fast_n10 *)
(* hands to _itoa10(int64_t).  The 64-bit width is scaled to Width bits;   *)
(* the input values are boundary samples of that range.                    *)
(***************************************************************************)
EXTENDS Naturals, Integers, Sequences, SequencesExt

CONSTANTS
  Width,         \* scaled width of uint64_t / int64_t
  NumberSamples, \* values of net2number() fed to the decimal handlers
  Bytes,         \* byte values of MAC and APP_ID fields
  MacNameDb,     \* mac_name_database: MAC -> label
  VendorDb,      \* mac_vendor_database: OUI (first 3 bytes) -> vendor
  EngineNameDb,  \* engines_name_as_list: engine id -> name
  EngineIds,     \* engine id byte values
  AppNameDb,     \* apps_name_as_list: 4 APP_ID bytes -> name
  ProtoNameDb,   \* proto2name(): IANA number -> name
  Protos,        \* protocol numbers
  AsChars,       \* characters of GeoIP_name_by_ipnum() answers
  MaxRsp,        \* bound on the length of an answer
  FieldLens,     \* real_field_len values offered to length-checked handlers
  StrChars,      \* bytes of string fields; Nul stands for the 0 byte
  Nul,
  MaxStr,        \* bound on the length of a string field
  CountryDb,     \* GeoIP_country_code_by_ipnum(_v6): address -> answer
  CountryIps,    \* IPv4 addresses found in a record's 4-byte slots
  HomeNets,      \* the sensor's home nets: IPv6 address -> [ip, name]
  GlobalNets,    \* nets_name_as_list: IPv6 address -> [number, name]
  NetIps         \* IPv4 addresses (4 bytes) of net fields

Full == 2^Width
Half == 2^(Width - 1)
ASSUME /\ Width \in Nat \ {0} /\ NumberSamples \subseteq 0..Full-1
       /\ Bytes \subseteq 0..255

Macs == [1..6 -> Bytes]
ZeroMac == [i \in 1..6 |-> 0]
AppIds == [1..4 -> Bytes]

DigitChar == <<"0","1","2","3","4","5","6","7","8","9">>
HexChar == DigitChar \o <<"a","b","c","d","e","f">>

\* A handler's effect: the chunks appended and the length returned.
R(o, n) == [out |-> o, ret |-> n]
Nothing == R(<<>>, 0)
Appended(r) == FoldLeft(LAMBDA a, c : a + Len(c), 0, r.out)
Text(s) == FoldLeft(LAMBDA a, c : a \o c, "", s)

-----------------------------------------------------------------------------
(* _itoa10: digits are produced from the least significant end with C's    *)
(* truncating division, each remainder (-9..9) indexing the mirrored       *)
(* table at 35 + r; a '-' is prepended when the last tmp_value is < 0.     *)

CDiv(a, b) == IF a >= 0 THEN a \div b ELSE -((-a) \div b)
AbsI(a) == IF a < 0 THEN -a ELSE a

RECURSIVE ItoaDigits(_)
ItoaDigits(v) ==
  LET q == CDiv(v, 10)
      d == DigitChar[AbsI(v - q * 10) + 1]
  IN IF q = 0 THEN d ELSE ItoaDigits(q) \o d

\* The most significant tmp_value, the one the sign test reads.
RECURSIVE LastTmp(_)
LastTmp(v) == IF CDiv(v, 10) = 0 THEN v ELSE LastTmp(CDiv(v, 10))

\* Mutant: the sign is read from value, which is 0 once the loop ends.
Itoa10_signFromValue(v) == ItoaDigits(v)

Itoa10(v) == IF LastTmp(v) < 0 THEN "-" \o ItoaDigits(v) ELSE ItoaDigits(v)

\* The implicit uint64_t -> int64_t conversion of the argument.
ToInt64(u) == IF u >= Half THEN u - Full ELSE u

printbuf_memappend_fast_n10(u) ==
  LET s == Itoa10(ToInt64(u)) IN R(<<s>>, Len(s))

printbuf_memappend_fast_string(s) == R(<<s>>, Len(s))

Seq2(a, b) == R(a.out \o b.out, a.ret + b.ret)

-----------------------------------------------------------------------------
(* Handlers *)

print_number(u) == printbuf_memappend_fast_n10(u)

print_netflow_type(u) ==
  LET n == printbuf_memappend_fast_n10(u)
  IN R(<<"netflowv">> \o n.out, Len("netflowv") + n.ret)

FlowEndReasons == <<"idle timeout", "active timeout", "end of flow",
                    "forced end", "lack of resources">>

print_flow_end_reason(reason) ==
  IF reason > 0 /\ reason <= Len(FlowEndReasons)
  THEN printbuf_memappend_fast_string(FlowEndReasons[reason])
  ELSE Nothing

BiflowDirections == <<"arbitrary", "initiator", "reverse initiator", "perimeter">>

print_biflow_direction(d) ==
  IF d < Len(BiflowDirections)
  THEN printbuf_memappend_fast_string(BiflowDirections[d + 1])
  ELSE Nothing

Hex2(b) == HexChar[b \div 16 + 1] \o HexChar[(b % 16) + 1]

print_mac0(m) ==
  R(FlattenSeq([i \in 1..6 |-> IF i < 6 THEN <<Hex2(m[i]), ":">> ELSE <<Hex2(m[i])>>]),
    Len("ff:ff:ff:ff:ff:ff"))

Oui(m) == <<m[1], m[2], m[3]>>

print_mac_vendor0(m) ==
  IF m # ZeroMac /\ Oui(m) \in DOMAIN VendorDb
  THEN printbuf_memappend_fast_string(VendorDb[Oui(m)])
  ELSE Nothing

print_mac_vendor_addr_format0(m) ==
  LET v == print_mac_vendor0(m) IN
  IF v.ret > 0
  THEN R(v.out \o <<":", Hex2(m[4]), ":", Hex2(m[5]), ":", Hex2(m[6])>>,
         v.ret + Len(":ff:ff:ff"))
  ELSE Nothing

\* print_mac_map0(): a named MAC appends its name and falls through to
\* print_mac0; else the vendor format is tried, and whatever it appended
\* stays in the buffer when print_mac0 follows.
print_mac_map0(m) ==
  LET tried == IF m # ZeroMac /\ m \notin DOMAIN MacNameDb
               THEN print_mac_vendor_addr_format0(m) ELSE Nothing
      named == IF m # ZeroMac /\ m \in DOMAIN MacNameDb
               THEN <<MacNameDb[m]>> ELSE <<>>
  IN IF tried.ret > 0 THEN tried
     ELSE R(named \o tried.out \o print_mac0(m).out, print_mac0(m).ret)

print_mac_map(len, m) == IF len # 6 THEN Nothing ELSE print_mac_map0(m)

print_mac_vendor(len, m) == IF len # 6 THEN Nothing ELSE print_mac_vendor0(m)

print_engine_id0(e) == IF e = 0 THEN Nothing ELSE printbuf_memappend_fast_n10(e)

print_engine_id_name0(e) ==
  IF e = 0 THEN Nothing
  ELSE IF e \in DOMAIN EngineNameDb THEN printbuf_memappend_fast_string(EngineNameDb[e])
  ELSE print_engine_id0(e)

\* net2number(buffer,4) & 0x00FFFFFF: the three low-order bytes.
MinorProto(b) == b[2] * 65536 + b[3] * 256 + b[4]

print_application_id0(b, len) ==
  IF len # 4 \/ (b[1] = 0 /\ MinorProto(b) = 0) THEN Nothing
  ELSE Seq2(Seq2(printbuf_memappend_fast_n10(b[1]), R(<<":">>, 1)),
            printbuf_memappend_fast_n10(MinorProto(b)))

print_application_id_name0(loaded, b, len) ==
  IF ~loaded \/ len # 4 \/ b = [i \in 1..4 |-> 0] THEN Nothing
  ELSE IF b \in DOMAIN AppNameDb THEN printbuf_memappend_fast_string(AppNameDb[b])
  ELSE print_application_id0(b, len)

print_proto_name(len, p) ==
  IF len # 2 THEN Nothing
  ELSE IF p \in DOMAIN ProtoNameDb THEN printbuf_memappend_fast_string(ProtoNameDb[p])
  ELSE printbuf_memappend_fast_n10(p)

-----------------------------------------------------------------------------
(* Ports.  print_src_port and print_dst_port save the port in the flow     *)
(* cache and print it; print_srv_port prints the smaller of the two saved  *)
(* ports, 0 meaning "not saved" (the cache is calloc'ed).  A port handler  *)
(* reads the cache left by the fields before it, so a template's port      *)
(* fields are walked in order from a fresh cache.                          *)

\* Ports are uint16_t: every value is below the scaled int64_t range.
PortSamples == {0, 53, 443}
NoPorts == [src |-> 0, dst |-> 0]

print_port0(port) == printbuf_memappend_fast_n10(port)

\* save_and_print_port(): a field that is not two bytes long is neither
\* saved nor printed.
save_and_print_port(ports, slot, len, port) ==
  IF len # 2 THEN [ports |-> ports, r |-> Nothing]
  ELSE [ports |-> [ports EXCEPT ![slot] = port], r |-> print_port0(port)]

\* Mutant: the larger of the two ports.
print_srv_port_max(ports) ==
  IF ports.src # 0 /\ ports.dst # 0
  THEN print_port0(IF ports.src > ports.dst THEN ports.src ELSE ports.dst)
  ELSE Nothing

print_srv_port(ports) ==
  IF ports.src # 0 /\ ports.dst # 0
  THEN print_port0(IF ports.src < ports.dst THEN ports.src ELSE ports.dst)
  ELSE Nothing

\* One port field through the handler the dictionary binds to it.
PortStep(ports, f) ==
  CASE f.h = "print_src_port" -> save_and_print_port(ports, "src", f.len, f.port)
    [] f.h = "print_dst_port" -> save_and_print_port(ports, "dst", f.len, f.port)
    [] OTHER                  -> [ports |-> ports, r |-> print_srv_port(ports)]

\* The results of the port fields of template t, in template order.
RECURSIVE PortWalk(_, _)
PortWalk(ports, t) ==
  IF t = <<>> THEN <<>>
  ELSE LET st == PortStep(ports, Head(t))
       IN <<st.r>> \o PortWalk(st.ports, Tail(t))

PortFields ==
  {[h |-> h, len |-> l, port |-> p] :
     h \in {"print_src_port", "print_dst_port"}, l \in {2, 4}, p \in PortSamples}
  \cup {[h |-> "print_srv_port", len |-> 2, port |-> 0]}

print_ports(t) == FoldLeft(Seq2, Nothing, PortWalk(NoPorts, t))

-----------------------------------------------------------------------------
(* GeoIP AS answers, "ASDDDDD SSSSSSS".  The number is cut out of the      *)
(* first strtok_r(rsp, " ") token; the name is what follows the first      *)
(* space (strchr).  Positions below are 1-based indices of rsp.            *)

AsAnswers == BoundedSeq(AsChars, MaxRsp)
Space(c) == c = " "
Substr(rsp, from, n) == Text(SubSeq(rsp, from, from + n - 1))

\* Outcome of extract_as_from_geoip_response + the append: "none" when
\* strtok_r finds no token; "overread" when number_len, computed as
\* aux - rsp - 3 in size_t, is negative or runs past the answer.
\* strtok_r skips leading spaces; aux points after the token's space, or
\* at the terminating NUL when there is none.
extract_as_from_geoip_response(rsp) ==
  LET p   == SelectInSeq(rsp, LAMBDA c : ~Space(c))
      q   == IF p = 0 THEN 0 ELSE SelectInSubSeq(rsp, p, Len(rsp), Space)
      aux == IF q = 0 THEN Len(rsp) ELSE q
      len == aux - 3
  IN IF p = 0 THEN [kind |-> "none"]
     ELSE IF len < 0 \/ p + 1 + len > Len(rsp) THEN [kind |-> "overread", len |-> len]
     ELSE [kind |-> "number", text |-> Substr(rsp, p + 2, len), len |-> len]

\* Mutant: the length left to the strtok_r token's end, off by one.
print_AS0_offByOne(rsp) ==
  LET p == SelectInSeq(rsp, LAMBDA c : ~Space(c))
      q == IF p = 0 THEN 0 ELSE SelectInSubSeq(rsp, p, Len(rsp), Space)
      len == (IF q = 0 THEN Len(rsp) ELSE q) - 2
  IN IF p = 0 \/ p + 1 + len > Len(rsp) THEN Nothing
     ELSE R(<<Substr(rsp, p + 2, len)>>, len)

\* Mutant: the number is appended but bytes_printed (written_len) is never set.
print_AS0_noLen(rsp) ==
  LET a == extract_as_from_geoip_response(rsp) IN
  CASE a.kind = "number" -> R(<<a.text>>, 0)
    [] a.kind = "overread" -> R(<<"?">>, -1)
    [] OTHER -> Nothing

\* The result of a call whose append reads outside the answer.
Overread == -1

\* print_AS_ipv4 / print_AS6_0 after the lookup answered rsp.
print_AS0(rsp) ==
  LET a == extract_as_from_geoip_response(rsp) IN
  CASE a.kind = "number" -> R(<<a.text>>, a.len)
    [] a.kind = "overread" -> R(<<"?">>, Overread)
    [] OTHER -> Nothing

\* print_buffer_geoip_AS_name: what follows the first space, if anything.
\* append_escaped is the identity on the letters of AsChars.
print_buffer_geoip_AS_name(rsp) ==
  LET sp == SelectInSeq(rsp, Space) IN
  IF sp = 0 \/ sp = Len(rsp) THEN Nothing
  ELSE printbuf_memappend_fast_string(Substr(rsp, sp + 1, Len(rsp) - sp))

print_AS_ipv4(len, ipv4, rsp) ==
  IF len # 4 \/ ipv4 = 0 THEN Nothing ELSE print_AS0(rsp)

print_AS_ipv4_name(len, rsp) ==
  IF len # 4 THEN Nothing ELSE print_buffer_geoip_AS_name(rsp)

-----------------------------------------------------------------------------
(* String fields and GeoIP country codes.  A field is the sequence of its  *)
(* bytes; a GeoIP answer is a C string, so it holds no Nul.                *)

StrFields == BoundedSeq(StrChars, MaxStr)

\* print_string: real_field_len bytes appended as they are.
print_string(f) == R(<<Text(f)>>, Len(f))

\* print_ssid_name0: strnlen(buffer, real_field_len) bytes.
print_ssid_name0(f) ==
  LET n == IF \E i \in 1..Len(f) : f[i] = Nul
             THEN SelectInSeq(f, LAMBDA c : c = Nul) - 1 ELSE Len(f)
  IN R(<<Text(SubSeq(f, 1, n))>>, n)

\* Mutant: the characters are appended as they are.
append_and_change_quotes_raw(s) == R(s, Len(s))

\* One append per character, '"' replaced by '\''; returns the count.
append_and_change_quotes(s) ==
  R([i \in 1..Len(s) |-> IF s[i] = "\"" THEN "'" ELSE s[i]], Len(s))

\* A record whose 4-byte slots hold the addresses rec; the field is the slot
\* at real_field_offset off.  print_country_code reads net2number(buffer, 4)
\* from the record start and leaves real_field_offset unused.
Slot(rec, off) == rec[off \div 4 + 1]

print_country_code(loaded, len, rec, off) ==
  IF len = 4 /\ loaded /\ rec[1] \in DOMAIN CountryDb
  THEN append_and_change_quotes(CountryDb[rec[1]])
  ELSE Nothing

\* print_country6_code takes the address at buffer + real_field_offset.
print_country6_code(loaded, len, ip6) ==
  IF len = 16 /\ loaded /\ ip6 \in DOMAIN CountryDb
  THEN append_and_change_quotes(CountryDb[ip6])
  ELSE Nothing

Records == [1..2 -> CountryIps]

-----------------------------------------------------------------------------
(* Networks.  A lookup answers NULL for an address in no net; network_name *)
(* also answers NULL for a home net configured without a name.             *)

NULL == "NULL"

\* The IPv4-mapped IPv6 address ::ffff:a.b.c.d.
ipv4buf_to_6(b) == [i \in 1..10 |-> 0] \o <<255, 255>> \o b

network_ip(ip6) == IF ip6 \in DOMAIN HomeNets THEN HomeNets[ip6].ip ELSE NULL
network_name(ip6) == IF ip6 \in DOMAIN HomeNets THEN HomeNets[ip6].name ELSE NULL
global_net_list_number(assoc) == assoc.number
global_net_list_name(assoc) == assoc.name

\* The callback pairs print_net_v6 and print_net_name_v6 hand to print_net0:
\* cb "number" is network_ip / global_net_list_number, cb "name" is
\* network_name / global_net_list_name.
sensor_list_search_cb(cb, ip6) == IF cb = "number" THEN network_ip(ip6) ELSE network_name(ip6)
global_net_list_cb(cb, assoc) ==
  IF cb = "number" THEN global_net_list_number(assoc) ELSE global_net_list_name(assoc)

\* The sensor's home net first, then the global nets list (ipInList).
print_net0(len, ip6, cb) ==
  LET home == sensor_list_search_cb(cb, ip6) IN
  IF len # 16 THEN Nothing
  ELSE IF home # NULL THEN printbuf_memappend_fast_string(home)
  ELSE IF ip6 \in DOMAIN GlobalNets
       THEN printbuf_memappend_fast_string(global_net_list_cb(cb, GlobalNets[ip6]))
  ELSE Nothing

\* Mutant: the global list is searched before the sensor's home nets.
print_net_v6_globalFirst(len, ip6) ==
  IF len # 16 THEN Nothing
  ELSE IF ip6 \in DOMAIN GlobalNets
       THEN printbuf_memappend_fast_string(global_net_list_number(GlobalNets[ip6]))
  ELSE IF network_ip(ip6) # NULL THEN printbuf_memappend_fast_string(network_ip(ip6))
  ELSE Nothing

print_net_v6(len, ip6) == print_net0(len, ip6, "number")
print_net_name_v6(len, ip6) == print_net0(len, ip6, "name")

\* cb is the IPv6 handler the decorator wraps.
ipv4_to_6_decorator(len, b, cb) ==
  IF len # 4 THEN Nothing
  ELSE IF cb = "print_net_v6" THEN print_net_v6(16, ipv4buf_to_6(b))
  ELSE print_net_name_v6(16, ipv4buf_to_6(b))

-----------------------------------------------------------------------------
(* Cisco NBAR private fields: a 6-byte identifier, then the value.  Value  *)
(* bytes are letters, on which append_escaped is the identity.             *)

PayloadChar == 97 :> "a" @@ 98 :> "b"

append_escaped(bytes) ==
  LET t == Text([i \in 1..Len(bytes) |-> PayloadChar[bytes[i]]]) IN R(<<t>>, Len(t))

\* Mutant: the memcmp against the identifier is dropped.
print_cisco_private_buffer_noIdCheck(f, expected_identifier) ==
  IF Len(f) <= Len(expected_identifier) THEN Nothing
  ELSE append_escaped(SubSeq(f, 7, Len(f)))

\* The identifier is compared over its length; the value is what follows
\* the 6th byte, real_field_len - 6 bytes of it.
print_cisco_private_buffer(f, expected_identifier) ==
  IF Len(f) <= Len(expected_identifier) THEN Nothing
  ELSE IF SubSeq(f, 1, Len(expected_identifier)) # expected_identifier THEN Nothing
  ELSE append_escaped(SubSeq(f, 7, Len(f)))

\* The identifiers print_http_url, _host, _user_agent, _referer and
\* print_https_common_name pass.
CiscoIds ==
  [print_http_url          |-> <<3, 0, 0, 80, 52, 1>>,
   print_http_host         |-> <<3, 0, 0, 80, 52, 2>>,
   print_http_user_agent   |-> <<3, 0, 0, 80, 52, 3>>,
   print_http_referer      |-> <<3, 0, 0, 80, 52, 4>>,
   print_https_common_name |-> <<13, 0, 1, 197, 52, 1>>]

\* Fields offered: each identifier, or a truncated one, followed by up to
\* two value bytes.
CiscoFields ==
  { id \o v : id \in {CiscoIds[h] : h \in DOMAIN CiscoIds} \cup {<<3, 0, 0, 80>>},
              v \in BoundedSeq({97, 98}, 2) }

print_net(len, b) == ipv4_to_6_decorator(len, b, "print_net_v6")
print_net_name(len, b) == ipv4_to_6_decorator(len, b, "print_net_name_v6")

-----------------------------------------------------------------------------
(* One handler call per step. *)

VARIABLES
  call,  \* the handler called last
  arg,   \* its argument
  res    \* what it appended and returned

vars == <<call, arg, res>>

Init == call = "none" /\ arg = <<>> /\ res = Nothing

Call(h, a, r) == call' = h /\ arg' = a /\ res' = r

\* The assembler takes the result and moves on to the next field.
Return == call # "none" /\ call' = "none" /\ arg' = <<>> /\ res' = Nothing

Next ==
  \/ Return
  \/ /\ call = "none"
     /\ \/ \E u \in NumberSamples : Call("print_number", u, print_number(u))
        \/ \E u \in NumberSamples : Call("print_netflow_type", u, print_netflow_type(u))
        \/ \E n \in 0..6 : Call("print_flow_end_reason", n, print_flow_end_reason(n))
        \/ \E n \in 0..4 : Call("print_biflow_direction", n, print_biflow_direction(n))
        \/ \E l \in FieldLens, m \in Macs : Call("print_mac_map", m, print_mac_map(l, m))
        \/ \E l \in FieldLens, m \in Macs : Call("print_mac_vendor", m, print_mac_vendor(l, m))
        \/ \E e \in EngineIds : Call("print_engine_id_name", e, print_engine_id_name0(e))
        \/ \E l \in FieldLens, b \in AppIds :
              Call("print_application_id", b, print_application_id0(b, l))
        \/ \E l \in FieldLens, b \in AppIds, loaded \in BOOLEAN :
              Call("print_application_id_name", b, print_application_id_name0(loaded, b, l))
        \/ \E l \in FieldLens, p \in Protos : Call("print_proto_name", p, print_proto_name(l, p))
        \/ \E l \in FieldLens, ip \in {0, 1}, rsp \in AsAnswers :
              Call("print_AS_ipv4", rsp, print_AS_ipv4(l, ip, rsp))
        \/ \E l \in FieldLens, rsp \in AsAnswers :
              Call("print_AS_ipv4_name", rsp, print_AS_ipv4_name(l, rsp))
        \/ \E f \in StrFields : Call("print_string", f, print_string(f))
        \/ \E f \in StrFields : Call("print_ssid_name", f, print_ssid_name0(f))
        \/ \E ld \in BOOLEAN, l \in FieldLens, rec \in Records, off \in {0, 4} :
              Call("print_country_code", Slot(rec, off), print_country_code(ld, l, rec, off))
        \/ \E ld \in BOOLEAN, l \in FieldLens \cup {16}, ip6 \in CountryIps :
              Call("print_country6_code", ip6, print_country6_code(ld, l, ip6))
        \/ \E l \in FieldLens, b \in NetIps : Call("print_net", <<l, b>>, print_net(l, b))
        \/ \E l \in FieldLens, b \in NetIps :
              Call("print_net_name", <<l, b>>, print_net_name(l, b))
        \/ \E h \in DOMAIN CiscoIds, f \in CiscoFields :
              Call(h, f, print_cisco_private_buffer(f, CiscoIds[h]))
        \/ \E t \in BoundedSeq(PortFields, 3) : Call("print_ports", t, print_ports(t))

Spec == Init /\ [][Next]_vars

-----------------------------------------------------------------------------
(* Properties *)

\* Reference rendering: the decimal numeral of an integer.
RECURSIVE Decimal(_)
Decimal(n) == IF n < 10 THEN DigitChar[n + 1] ELSE Decimal(n \div 10) \o DigitChar[(n % 10) + 1]
SignedDecimal(v) == IF v < 0 THEN "-" \o Decimal(-v) ELSE Decimal(v)

\* _itoa10's mirrored digit table, truncating division and late sign test
\* render every int64_t value, INT64_MIN included, as its decimal numeral.
NumberRendersValue ==
  call = "print_number" => Text(res.out) = SignedDecimal(ToInt64(arg))

\* What the spec asks of a counter (spec 4.3, S1: "bytes":1500): the
\* decimal numeral of the unsigned value net2number() read off the wire.
NumberIsUnsignedDecimal ==
  call = "print_number" => Text(res.out) = Decimal(arg)

Digits == {"0","1","2","3","4","5","6","7","8","9"}

\* An answer of the documented form "AS<digits> <name>".
WellFormedAs(rsp) ==
  \E k \in 4..Len(rsp) - 1 :
    /\ rsp[1] = "A" /\ rsp[2] = "S" /\ rsp[k] = " "
    /\ \A i \in 3..k-1 : rsp[i] \in Digits

\* For a well-formed GeoIP answer, the AS number print_AS_ipv4 cuts out by
\* strtok_r/pointer arithmetic and the AS name print_AS_ipv4_name takes
\* after strchr(' ') reassemble the answer: neither loses nor repeats a
\* character at the boundary.
AsAnswerSplit ==
  call = "print_AS_ipv4" /\ res.ret # 0 /\ WellFormedAs(arg) =>
    "AS" \o Text(res.out) \o " " \o Text(print_buffer_geoip_AS_name(arg).out)
      = Text(arg)

\* Spec 4.3: a string is copied up to its first NUL, and embedded double
\* quotes are converted to single quotes for downstream JSON safety.
SpecString(f) ==
  LET n == IF \E i \in 1..Len(f) : f[i] = Nul
             THEN SelectInSeq(f, LAMBDA c : c = Nul) - 1 ELSE Len(f)
  IN Text([i \in 1..n |-> IF f[i] = "\"" THEN "'" ELSE f[i]])

\* GeoIP country codes are appended JSON-safe by append_and_change_quotes:
\* no double quote of the answer reaches the line, and the count returned
\* is the number of characters of the answer.
CountryCodeJsonSafe ==
  call \in {"print_country_code", "print_country6_code"} =>
    /\ \A i \in 1..Len(res.out) : res.out[i] # "\""
    /\ res.ret = Appended(res)

\* The string handlers (print_string, print_ssid_name) render a field as
\* spec 4.3 states: up to the first NUL, double quotes made single.
StringFieldAsSpecified ==
  call \in {"print_string", "print_ssid_name"} => Text(res.out) = SpecString(arg)

\* The country printed for an IPv4 address field is the country of that
\* field, wherever the field sits in the record.
CountryOfField ==
  call = "print_country_code" /\ res.ret > 0 =>
    Text(res.out) = Text(append_and_change_quotes(CountryDb[arg]).out)

\* Spec 4.5, S3: an address inside one of the sensor's home nets gets that
\* net as src_net/dst_net, and its name as *_net_name when it has one,
\* whatever the global nets list says of the address; print_net and
\* print_net_name reach the lookups through ipv4_to_6_decorator.
HomeNetShadowsGlobal ==
  LET ip6 == ipv4buf_to_6(arg[2]) IN
  /\ call = "print_net" /\ arg[1] = 4 /\ ip6 \in DOMAIN HomeNets =>
       Text(res.out) = HomeNets[ip6].ip
  /\ call = "print_net_name" /\ arg[1] = 4 /\ ip6 \in DOMAIN HomeNets
     /\ HomeNets[ip6].name # NULL =>
       Text(res.out) = HomeNets[ip6].name

\* An NBAR http_url/host/user_agent/referer/https_common_name field yields
\* its key exactly when it starts with that handler's own identifier and
\* carries a value, and the value printed is every byte after the
\* identifier: none of the identifier leaks in, none of the value is lost.
CiscoValueAfterId ==
  call \in DOMAIN CiscoIds =>
    IF Len(arg) > 6 /\ SubSeq(arg, 1, 6) = CiscoIds[call]
    THEN Text(res.out) = Text([i \in 1..Len(arg) - 6 |-> PayloadChar[arg[i + 6]]])
         /\ res.ret = Len(arg) - 6
    ELSE res.ret = 0

\* src_net and src_net_name describe one net: when both are printed for an
\* address, they come from the same table, the sensor's or the global one.
NetAndNameSameNet ==
  LET ip6 == ipv4buf_to_6(arg[2]) IN
  call = "print_net" /\ res.ret > 0 /\ print_net_name(arg[1], arg[2]).ret > 0 =>
    \/ ip6 \in DOMAIN HomeNets /\ Text(res.out) = HomeNets[ip6].ip
       /\ Text(print_net_name(arg[1], arg[2]).out) = HomeNets[ip6].name
    \/ ip6 \in DOMAIN GlobalNets /\ Text(res.out) = GlobalNets[ip6].number
       /\ Text(print_net_name(arg[1], arg[2]).out) = GlobalNets[ip6].name

\* The srv_port key of a record is the smaller of the src and dst ports the
\* record carried in two-byte fields before it, the last of each kind, and
\* it is left out unless both were carried and non-zero: print_srv_port
\* reads what save_and_print_port left in the flow cache.
LastPort(t, i, h) ==
  LET js == {j \in 1..(i - 1) : t[j].h = h /\ t[j].len = 2}
  IN IF js = {} THEN 0 ELSE t[Max(js)].port

SrvPortIsMinOfPorts ==
  call = "print_ports" =>
    \A i \in 1..Len(arg) : arg[i].h = "print_srv_port" =>
      LET a == LastPort(arg, i, "print_src_port")
          b == LastPort(arg, i, "print_dst_port")
          r == PortWalk(NoPorts, arg)[i]
      IN IF a = 0 \/ b = 0 THEN r.ret = 0
         ELSE Text(r.out) = Decimal(IF a < b THEN a ELSE b)

\* The handler contract (spec 4.3): a handler returns the number of bytes
\* it appended, for every call that stays inside its input.
ReturnedIsAppended == res.ret # Overread => res.ret = Appended(res)

\* What the emitter relies on (spec 4.3): a handler returns 0 exactly when
\* it appended nothing, so a key is suppressed only when its value is empty
\* and never printed with nothing after it.  print_mac_map0's return value
\* differs from what it appends for a named MAC, but never in this respect.
KeySuppressedIffEmpty ==
  res.ret # Overread => (res.ret = 0 <=> Appended(res) = 0)
=============================================================================
