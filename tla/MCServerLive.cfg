SPECIFICATION FairSpec
CONSTANTS
  Button <- MCButton
  Half = 8
  FixedScale = 4
  PacketSize = 12
  TestsFixed = TRUE
  Family = {"v4", "v6"}
  Fam <- MCFam
  Cred <- MCCred
  PSK_ID = "wlr-remote"
  psk_key = "password"
  psk_key_len = 8
  MaxKeyLen = 16
  Client = {"mate"}
  MdnsSock = {"mdns4"}
  Bodies <- MCOneBody
  Noise = {}
  MAX_EVENTS = 2
  RxCap = 2
  WlCap = 6
  MaxSend = 1
  MaxArrivals = 4
PROPERTIES
  QuitHeeded
  DatagramsTaken
  QueriesTaken
  RequestsShown
