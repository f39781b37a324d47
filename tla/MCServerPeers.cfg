SPECIFICATION Spec
CONSTANTS
  Button <- MCButton
  Half = 8
  FixedScale = 4
  PacketSize = 12
  TestsFixed = TRUE
  Family = {"v4", "v6"}
  Fam <- MCFam
  Cred <- MCCred
  PSK_ID = "wlr-remote"
  psk_key = "password"
  psk_key_len = 8
  MaxKeyLen = 16
  Client = {"good", "typo", "stranger"}
  MdnsSock = {"mdns4"}
  Bodies <- MCOneBody
  Noise = {"junk"}
  MAX_EVENTS = 5
  RxCap = 2
  WlCap = 3
  MaxSend = 1
  MaxArrivals = 3
INVARIANTS
  OnlyPaired
  SendsOnOpenSocket
  CleanExit
PROPERTIES
  ClosesAreAnnounced
