CONSTANTS
  mZero = mZero
  mRouter = mRouter
  mHost = mHost
  mMcast = mMcast
  aHome = aHome
  aExt = aExt
  Macs <- MC_Macs
  ZeroMac = mZero
  RouterMacs <- MC_RouterMacs
  MulticastMacs <- MC_MulticastMacs
  Addrs <- MC_Addrs
  HomeAddrs <- MC_HomeAddrs
  NoAddr = NoAddr
  BadLen = BadLen
  OtherBytes = OtherBytes
  Enrichment = Enrichment
  NoEnrichment = NoEnrichment
  MaxFields = 4

SPECIFICATION Spec
INVARIANT ClientMacAtMostOnce
