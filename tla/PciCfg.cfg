SPECIFICATION CfgSpec
CONSTANTS
  Devs <- MCDevs
  BarsOf <- MCBarsOf
  Size <- MCSize
  MemBase = 1
  EcfgBase = 6
  CfgAddr = 1
  Window <- MCWindow
  Addrs <- MCAddrs
  MsiDev = "ahci"
  Mmc <- MCMmc
  Guests = {"bars", "caps"}
  Accesses <- MCAccesses
  Values <- MCValues
INVARIANTS CfgInv TreeIsDecoded RoutedToDecoder MsiAsConfigured
