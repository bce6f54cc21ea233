# TLA+ models of f2k

f2k receives NetFlow v5/v9 and IPFIX datagrams from exporters ("sensors"). It decodes each data
flowset against the exporter's templates, enriches every flow record, and writes one JSON line per
flow. This directory holds TLA+ models of the parts of the repository whose control is worth
checking, and the TLC configurations that check them.

## The system and its parts

| Part | Code | State | Interacts with |
|---|---|---|---|
| Flow cache and direction inference | `src/export.c` 50-140, 314-414, 559-733, 988-1033, 1317-1341, 1443-1470 | per-record `flowCache`: direction, src/dst/post-dst MAC, src/dst address, client MAC | the record assembler, which calls one handler per wire field, then the direction-based handlers |
| Value rendering handlers | `src/export.c` 177-312, 416-557, 604-926, 1037-1412; `network_ip`/`network_name` (sensors.c 153-169) | none; each appends text and returns a length | the assembler, which writes `"key":` only when the return is > 0 |
| Template registry and workers | `src/src/sensors/sensors.c` 66-79, 106-111, 226-263; the worker loop (collect.c, not in the repository) | sensor→worker map; per-observation template table; per-worker templates and packets queues | receiver thread → worker queues → registry → decoder |
| Observation name tables | `src/src/sensors/sensors.c` 117-224; `print_application_id_name` (export.c 899-926) | per-observation application, selector and interface names | option-data decoding fills them; the assembler should read them |
| DNS PTR cache and client_name | `src/export.c` 1417-1490; the cache and poller (not in the repository) | shared cache entries with TTL and refcount; per-worker wait | worker threads, the DNS poller |
| Flow tests | `src/tests/rb_netflow_test.c` 205-320 | test thread phase; templates queue | the collect worker |
| Decoder, Kafka, config and DB loaders | collect.c (absent), external libraries | | not modelled; see below |

The hard behaviours:
- the order in which a record's fields arrive, relative to the inference that runs after them;
- the interleaving of exporters, the receiver and a worker over two queues, with allocation failure;
- the race between the test thread and the worker;
- two workers sharing the PTR cache while entries expire and are evicted, and a DNS server that never answers;
- integer width at the 2^63 boundary;
- pointer arithmetic on GeoIP answers and on the record buffer.

## Modules

- **FlowCache.tla**: one flow record.
  - Variables: `sensor` (span flag, MAC-vendor DB loaded), `cache` (the flowCache), `line` (keys appended so far, as `<<key, value>>`), `phase`, `nfields`, `head` (the six bytes at the record start), `explicit` (the DIRECTION the exporter sent).
  - Actions: `DecodeField(k, v)` runs one wire field through the handler `Handle` binds to its kind (`save_direction`, `save_mac`, `print_ipv4_addr`, `print_ipv6`, `print_client_mac`); `EndOfFields` is `guessDirection`; `EmitRecord` is `print_direction`, `print_direction_based_client_mac` and `print_sensor_enrichment`; `NextRecord` resets.
  - Field values are model values: MACs (zero, router, host, multicast), addresses (home, external, none) and `BadLen` for a field of the wrong length.
  - The walk order (wire fields, inference, direction-dependent keys) is spec 4.3/4.6/4.7; collect.c implements it and is absent, so these actions are spec-modelled.
- **Render.tla**: the handlers that touch only the line buffer.
  - A step is one handler call (`call`, `arg`, `res`). `res.out` is the sequence of chunks appended, one per `printbuf_memappend`; `res.ret` is the length returned. `Return` hands the result back.
  - `_itoa10` is a RECURSIVE operator keeping C's truncating division and the sign test on the last `tmp_value`; it is checked against the reference `Decimal`/`SignedDecimal`.
  - MACs: `print_mac_map0` follows the code's fall-through: a named MAC appends its name and then the MAC; otherwise the vendor format is tried and, when it returns 0, the MAC is printed after whatever it appended.
  - Strings: `print_string`, `print_ssid_name` (stops at the first NUL), `append_and_change_quotes` (one chunk per character, `"` → `'`).
  - Networks: `print_net`/`print_net_name` go through `ipv4_to_6_decorator` (a length check, then `ipv4buf_to_6`) to `print_net0`, which asks the sensor's home nets (`network_ip`/`network_name`) first and the global nets list second. `HomeNets` and `GlobalNets` are constant tables keyed by the mapped address.
  - NBAR fields: `print_http_url`, `_host`, `_user_agent`, `_referer` and `print_https_common_name` pass their 6-byte identifier (`CiscoIds`) to `print_cisco_private_buffer`, which checks the length and the identifier and appends what follows. Value bytes are letters, on which `append_escaped` (not in the repository) is the identity.
  - Ports: `print_src_port` and `print_dst_port` go through `save_and_print_port` (a two-byte length check, then save and print); `print_srv_port` prints the smaller saved port when both are non-zero. The port slots are the only flow-cache state these handlers share, so a call `print_ports` walks a template's port fields (`PortWalk`) from a fresh cache (`NoPorts`), every sequence of up to three fields over src/dst with lengths 2 and 4 and ports 0, 53, 443, and srv. `SrvPortIsMinOfPorts` compares each srv field's result with a reference computed from the template alone (`LastPort`).
  - GeoIP: `print_AS_ipv4_num`/`_name` split an answer string; `print_country_code`/`print_country6_code` look an address up in `CountryDb`. `print_country_code` is given the record and an offset, as the C is, and `Slot(rec, off)` is the four bytes at `off`.
  - A handler's early returns are an IF/ELSE chain in the code's order (`print_net0`, `print_application_id_name0`, `print_proto_name`, `ipv4_to_6_decorator`, ...), and the CASEs left have disjoint arms, so no result depends on which arm TLC tries first. `print_AS0` stands for `print_AS6_0` and for the same extraction inlined in `print_AS_ipv4`.
  - The 64-bit width is scaled to `Width` = 16 bits; samples 0, 9, 10, 99, 100, 2^15-1, 2^15, 2^15+1, 2^16-10, 2^16-1. GeoIP AS answers are every string of up to 5 characters over `A S 1 2 space G` (9,331 answers). MACs are every 6-tuple over {0, 0xab}. Strings are every sequence of up to 3 characters over `a`, `"` and the NUL stand-in `~`.
- **WorkerQueues.tla**: sensors, their workers and the template registry.
  - Variables: `worker` (`set_workers`, round robin over the list index), `exporter` (template versions each exporter defines), `registry` (what `save_template` stored), `tq`/`pq` (per-worker templates and packets queues), `pc`/`held` (a template popped, not yet saved), history variables `sent` and `last`.
  - Actions: `Redefine(s, t)`; `Receive(s, T, D)` queues a datagram's templates before its data (spec 4.8); `PopTemplate(w)`; `SaveTemplate(w)` is `save_template`, whose copy may fail to allocate when `AllocCanFail` (the template is then dropped, sensors.c:239); `DecodeData(w)` runs only with the templates queue empty and uses `find_observation_id_template`.
  - A template is abstracted to a version number.
  - `pendingBar` maps the worker's state onto **TemplateQueue.tla**, the abstract contract: templates handed to a worker are applied atomically and in order, data is decoded only when nothing handed before it is pending, and every pending item is eventually processed. A template popped but not saved is still pending in the abstraction.
- **ObservationNames.tla**: the per-observation name tables filled from option data, and the lookups. Each add takes `ok`, the constructor's allocation result. It INSTANCEs Render and composes the tables with `print_application_id_name` through `RenderAppName`.
- **PtrCache.tla**: the shared PTR cache and the `client_name`/`target_name` keys. `Start` builds a record's flow cache from a flow (src, dst) and a direction; for each wanted side it selects the address with `get_direction_based_client_ip` (ingress: src; egress, internal: dst; unset: none) or `get_direction_based_target_ip` (dst when the client pointer is src, else src: a pointer comparison, so an unset direction gives src). Each side is a slot: `Lookup` takes a weak reference on a hit or submits a request and waits; `Resolve` is the poller; `Wakeup` takes an owning copy; `Timeout` gives up at the record's deadline for every waiting side; `Tick` advances time; `Evict` drops an expired unreferenced entry. `Line(w)` is what `print_client_name` and `print_target_name` write through the two hostname getters, and `Emit` discards the flow cache, releasing one reference per slot. The cache, poller and flow-cache lifecycle are not in src/ and are spec-modelled (spec 4.4, 4.6, 5); the export.c functions are translated from the code.
- **TestHarness.tla**: `test_flow_i`: `LoadTemplates`, the `rfq_cnt` spin `WaitTemplates`, `DissectNetFlow` (under both queue locks), and the worker's pop and save.
- **MC_*.tla**: model values and finite definitions for the constants of each module.

## Runs

| Run | Checks | Result |
|---|---|---|
| flow_pass | `TypeOK`, `MacEvidenceDecides`, `DirectionNeverReverted`, `ClientMacOnIpSide` | pass, 570,780 states: every template of up to 4 fields, both span settings, with and without a MAC DB. `ClientMacOnIpSide`: whenever the MAC on the side `get_direction_based_client_ip` picks is present, `get_direction_based_client_mac` picks that side too. |
| flow_client_mac_once | `ClientMacAtMostOnce` | violation: an all-zero CLIENT_MAC is printed twice (export.c:726). |
| flow_client_mac_saved | `ClientMacPrintedIsSaved` | violation: `print_client_mac` prints the record start, not the field (export.c:732). |
| worker_pass | `TypeOK`, `TemplateBeforeData`, `RegistryMonotone`, `ImplementsTemplateQueue`, `TemplatesConverge` | pass: two sensors, one worker, two template ids, versions ≤ 2, ≤ 2 datagrams, allocation never fails. The worker refines TemplateQueue, fairness included, and the registry converges to the last versions sent. |
| worker_oom | `TemplatesConverge` | violation: when `save_template` cannot allocate its copy, the older version stays stored for good and later data is decoded with it. |
| test_wait | `TestSeesLoadedTemplates` | violation: the test dissects while the worker holds a popped, unsaved template. |
| render_pass | `NumberRendersValue`, `AsAnswerSplit`, `CountryCodeJsonSafe`, `HomeNetShadowsGlobal`, `CiscoValueAfterId`, `SrvPortIsMinOfPorts`, `KeySuppressedIffEmpty` | pass, 35,647 states. `KeySuppressedIffEmpty`: every handler returns 0 exactly when it appended nothing, the emitter's rule for dropping a key (spec 4.3). |
| render_unsigned | `NumberIsUnsignedDecimal` | violation: 2^(Width-1) prints as `-32768`; 2^63 at the real width. |
| render_country_offset | `CountryOfField` | violation: `print_country_code` looks up the first four bytes of the record, not the field at its offset (export.c:1065). |
| names_pass | `TypeOK` | pass, 10,125 states, with allocation failure enabled: no failed constructor leaves a NULL name or a half-built interface in the tables. |
| names_s4 | `OptionNameRendered` | violation: an application name learned from option data is never printed; `print_application_id_name` reads only the global list (export.c:899). |
| ptr_target_unset | `TargetNameNeedsDirection` | violation: a record of unset direction gets a `target_name`, the PTR name of its source address. `get_direction_based_target_ip` falls back to src when the client pointer is NULL (export.c:1478); spec 4.3 says a direction-dependent handler emits nothing while the direction is unset. |

Each property of a passing run is killed by a mutant of the code it is about (PROJECT.json lists them): a dropped length check; `save_direction` resetting the direction on an unknown value; IP inference before MAC inference; an off-by-one in `set_workers`; a LIFO pop; decoding without draining templates; decoding that waits for a stored template; `save_template` keeping the old version; the `_itoa10` sign read from `value`; an off-by-one and a size_t underflow in the AS length; quotes not replaced; the global nets list searched before the home nets; the NBAR identifier check dropped; a dropped NULL check after `interface_new`; the internal-direction client MAC tried on the source side first; ports maximised instead of minimised; a handler that appends without setting its length.

### Disagreements checked but outside the run budget

These properties are defined in the modules and were violated by TLC; they are not in a run of their own because the project keeps its run list to the distinct questions above.
- `FlowCache!ExplicitDirectionWins`: inference overrides an explicit DIRECTION field (export.c:135), against spec 4.4's tie-break.
- `FlowCache!ClientMacAndIpSameSide`: an internal flow with no destination MAC takes the client MAC from the source and the client IP from the destination. `ClientMacOnIpSide` (flow_pass) shows this fallback is the only case where the two functions part.
- `WorkerQueues!InOrderDecode`: data queued before a redefinition of its template is decoded with the new version. TemplateQueue states the per-worker contract the code does meet.
- `Render!ReturnedIsAppended`: `print_mac_map` with a label appends `"gw"` and the MAC but returns 17. `KeySuppressedIffEmpty` (render_pass) shows the wrong length never makes a key be dropped or printed empty.
- `Render!NetAndNameSameNet`: for an address in a home net configured without a name, `network_name` answers NULL, so `src_net` comes from the sensor ("10.0.0.0/8") and `src_net_name` from the global list ("dmz"): the two keys describe different nets.
- `Render!StringFieldAsSpecified`: `print_string` passes NUL bytes and double quotes through, and `print_ssid_name` keeps double quotes.

## Bounds

- **FlowCache.** `MaxFields` = 4 builds both MACs, both addresses and a DIRECTION, or CLIENT_MAC twice, in one record. The walk is the same for every record, so one record per behaviour suffices.
- **WorkerQueues.** With two datagrams one exporter can send a template and redefine it with data still queued, and two sensors can share a worker. Three datagrams exceed the 5-minute budget and add no ordering.
- **Render.** The samples cover every digit count, the signed boundary and the maximum. AS answers of length 5 include the shortest well-formed one (`AS1 G`) and every malformation. Strings of length 3 put a quote or a NUL before, between and after ordinary characters. Three net addresses cover a named home net that the global list also knows, an address only in the global list, and an unnamed home net. NBAR fields are each identifier and a truncated one, followed by 0 to 2 value bytes, so the length boundary at 6 is reached.
- **ObservationNames.** Two ids (one in the global list), two names: enough to add, replace and fail to add.
- **PtrCache.** Two workers, two IPs (one with no PTR record), flows A→B and A→A, directions ingress and unset: the unset direction reaches `print_target_name` through the NULL-client fallback within five steps.

## Fairness

- `WorkerQueues.Spec`: weak fairness on `PopTemplate`, `SaveTemplate` and `DecodeData`. A worker blocks on its queues and runs whenever an item is there. The exporters are the environment and have none. `ImplementsTemplateQueue` and `TemplatesConverge` are checked under it.
- `PtrCache.Spec`: weak fairness on `Tick` (time passes), on each worker's `Timeout` and `Emit`, and on each worker's `Lookup` and `Wakeup` per side (a worker runs when it can). The DNS poller (`Resolve`), eviction and new records (`Start`) have none: a server may never answer. No liveness property is checked over it: the cache and poller are spec-modelled.
- `worker_pass` and `test_wait` set `CHECK_DEADLOCK FALSE`: once the bounded exporters stop, the worker waits on empty queues, and the test thread ends. The other runs check deadlock.

## Not modelled, and why

- **collect.c** (the decoder, the worker loop, `loadTemplates`) is not in the repository. Its queueing is modelled from spec 4.8 and marked spec_modelled in PROJECT.json.
- **The PTR cache and poller** are not in the repository; only their contract (spec 4.4, 5) is modelled, and no property is stated over that contract alone (refcounts, eviction, the deadline), as it would check the spec against itself.
- **Dynamic sensor addition** after `set_workers` (sensors.c:66): the repository's only caller loads every sensor before it.
- **Library and I/O code**: the sensors DB library internals, GeoIP and MAC databases, the Kafka producer, the JSON config loaders. Only their lookups enter the model, as constant functions.
- **Sensor accessors** (sensors.c 40-104) and the headers (sensors.h, sensor.h, observation_id.h, dsensorsdb.h, sensors_db.h, file_loader.h): one-line wrappers and declarations of a library that is not in the repository; the lookups they stand for enter the models as constant functions.

## Plan for later sittings

1. Malformed GeoIP answers as assertions rather than outputs.
