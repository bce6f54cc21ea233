------------------------------ MODULE MC_Render ------------------------------
EXTENDS Render, TLC

MC_NumberSamples == {0, 1, 9, 10, 99, 100, Half - 1, Half, Half + 1, Full - 10, Full - 1}
MC_Bytes == {0, 171}
MC_MacNameDb == [m \in {<<171, 171, 171, 171, 171, 171>>} |-> "gw"]
MC_VendorDb == <<0, 0, 171>> :> "Cisco" @@ <<171, 0, 0>> :> ""
MC_EngineNameDb == 1 :> "ipfix"
MC_AppNameDb == <<0, 0, 0, 171>> :> "http"
MC_ProtoNameDb == 6 :> "tcp" @@ 17 :> "udp"
MC_AsChars == {"A", "S", "1", "2", " ", "G"}
\* Two addresses with answers, one with none; one answer carries a quote.
MC_CountryDb == 1 :> <<"U", "S">> @@ 2 :> <<"\"", "X">>
\* A LAN host (in a named home net and in the global list), an external
\* host (global list only), and a host in an unnamed home net.
MC_Lan == <<192, 168, 1, 5>>
MC_Ext == <<8, 8, 8, 8>>
MC_Dmz == <<10, 0, 0, 1>>
MC_NetIps == {MC_Lan, MC_Ext, MC_Dmz}
MC_HomeNets ==
  ipv4buf_to_6(MC_Lan) :> [ip |-> "192.168.0.0/16", name |-> "lan"] @@
  ipv4buf_to_6(MC_Dmz) :> [ip |-> "10.0.0.0/8", name |-> NULL]
MC_GlobalNets ==
  ipv4buf_to_6(MC_Lan) :> [number |-> "192.168.1.0/24", name |-> "office"] @@
  ipv4buf_to_6(MC_Ext) :> [number |-> "8.8.8.0/24", name |-> "dns"] @@
  ipv4buf_to_6(MC_Dmz) :> [number |-> "10.0.0.0/24", name |-> "dmz"]
=============================================================================
