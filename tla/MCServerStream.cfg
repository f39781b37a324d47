SPECIFICATION Spec
CONSTANTS
  Button <- MCButton
  Half = 8
  FixedScale = 4
  PacketSize = 12
  TestsFixed = TRUE
  Family = {"v4", "v6"}
  Fam <- MCFam
  Cred <- MCCred
  PSK_ID = "wlr-remote"
  psk_key = "password"
  psk_key_len = 8
  MaxKeyLen = 16
  Client = {"good"}
  MdnsSock = {}
  Bodies <- MCBodies
  Noise = {"oversize"}
  MAX_EVENTS = 2
  RxCap = 2
  WlCap = 3
  MaxSend = 2
  MaxArrivals = 4
INVARIANTS
  TypeOK
  FramesComplete
  WaitsFlushed
PROPERTIES
  Refines
