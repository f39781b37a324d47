SPECIFICATION FairSysSpec
CONSTANTS
  Button <- MCButton
  Half = 8
  FixedScale = 4
  PacketSize = 12
  TestsFixed = TRUE
  Family = {"v4"}
  Fam <- MCFam
  Cred <- MCCred
  PSK_ID = "wlr-remote"
  psk_key = "password"
  psk_key_len = 8
  MaxKeyLen = 8
  Client = {"mate"}
  MdnsSock = {}
  Bodies <- MCBodies
  Noise = {}
  MAX_EVENTS = 2
  RxCap = 2
  WlCap = 2
  MaxSend = 2
  MaxArrivals = 4
  ITERATIONS = 1
  Typed <- MCTyped
  DEFAULT_PORT = 2
  MaxPort = 3
  Extra = 1
  MaxFaults = 0
PROPERTIES
  Retransmitted
