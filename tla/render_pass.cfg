\* Handler calls are independent steps; the model never stops.
CONSTANTS
  Width = 16
  NumberSamples <- MC_NumberSamples
  Bytes <- MC_Bytes
  MacNameDb <- MC_MacNameDb
  VendorDb <- MC_VendorDb
  EngineNameDb <- MC_EngineNameDb
  EngineIds = {0, 1, 2}
  AppNameDb <- MC_AppNameDb
  ProtoNameDb <- MC_ProtoNameDb
  Protos = {6, 17, 99}
  AsChars <- MC_AsChars
  MaxRsp = 5
  FieldLens = {4, 6, 2}
  StrChars = {"a", "\"", "~"}
  Nul = "~"
  MaxStr = 3
  CountryDb <- MC_CountryDb
  CountryIps = {1, 2, 3}
  HomeNets <- MC_HomeNets
  GlobalNets <- MC_GlobalNets
  NetIps <- MC_NetIps
SPECIFICATION Spec
INVARIANT NumberRendersValue
INVARIANT AsAnswerSplit
INVARIANT CountryCodeJsonSafe
INVARIANT HomeNetShadowsGlobal
INVARIANT CiscoValueAfterId
INVARIANT SrvPortIsMinOfPorts
INVARIANT KeySuppressedIffEmpty
