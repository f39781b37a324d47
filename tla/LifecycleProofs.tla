-------------------------- MODULE LifecycleProofs --------------------------
(***************************************************************************)
(* Lifecycle for any number of addresses and seats and any length of       *)
(* password: the types, the terminal, the password, the Wayland objects    *)
(* and the sockets.                                                        *)
(***************************************************************************)
EXTENDS Lifecycle, TLAPS, FiniteSetTheorems

Labels == {"port", "password", "fgets", "display", "globals", "pointer", "wl_fd", "addresses",
           "bind", "epoll", "context", "service", "service_epoll", "loop",
           "free_all", "free_pointer", "free_registry", "exited"}

Calls == {"", "signal", "interrupt", "setup_password", "wl_display_connect",
          "wl_display_roundtrip", "wl_display_get_fd", "getaddrinfo", "bind",
          "epoll_create1", "epoll_ctl", "dtls_new_context", "loop"}

\* The steps that change none of prompt, the others grouped by what they
\* leave alone.
WaylandStep ==
  Connect \/ Roundtrip \/ CreatePointer \/ SeatAppears \/ FreePointer \/ FreeRegistry

BindStep == SocketFails \/ BindFails \/ Bind

EpollStep == EpollCtlFails \/ Epoll

ServiceStep == NoService \/ CreateService \/ ServiceEpollFails \/ Announce \/ FreeAll

\* Steps that change pc and the way main ends, nothing else.
ControlStep ==
  \/ ConnectFails \/ GetFdFails \/ GetFd \/ GetAddressesFails \/ GetAddresses \/ BindDone
  \/ EpollCreateFails \/ NewContextFails \/ NewContext \/ LoopEnds \/ LoopFails \/ SignalKills

PromptStep == ParsePort \/ AskPassword \/ RejectPassword \/ AcceptPassword \/ Signal

\* Every step of main is of one of these kinds.
LEMMA Kinds ==
  Next => PromptStep \/ WaylandStep \/ BindStep \/ EpollStep \/ ServiceStep \/ ControlStep \/ Exited
  BY DEF Next, Startup, Shutdown, PromptStep, WaylandStep, BindStep, EpollStep, ServiceStep,
         ControlStep

\* What each kind of step leaves alone.
LEMMA Frames ==
  /\ PromptStep => UNCHANGED <<net, wl, mdns>>
  /\ WaylandStep => UNCHANGED <<prompt, net, mdns>>
  /\ BindStep => UNCHANGED <<pc, infos, registered, prompt, wl, mdns, end>>
  /\ EpollStep => UNCHANGED <<infos, next, socks, prompt, wl, mdns>>
  /\ ServiceStep => UNCHANGED <<infos, next, socks, prompt, wl>>
  /\ ControlStep => UNCHANGED <<prompt, net, wl, mdns>>
<1>1. PromptStep => UNCHANGED <<net, wl, mdns>>
  BY DEF PromptStep, ParsePort, AskPassword, RejectPassword, AcceptPassword, Signal
<1>2. WaylandStep => UNCHANGED <<prompt, net, mdns>>
  BY DEF WaylandStep, Connect, Roundtrip, CreatePointer, SeatAppears, FreePointer, FreeRegistry
<1>3. BindStep => UNCHANGED <<pc, infos, registered, prompt, wl, mdns, end>>
  BY DEF BindStep, SocketFails, BindFails, Bind
<1>4. EpollStep => UNCHANGED <<infos, next, socks, prompt, wl, mdns>>
  BY DEF EpollStep, EpollCtlFails, Epoll
<1>5. ServiceStep => UNCHANGED <<infos, next, socks, prompt, wl>>
  BY DEF ServiceStep, NoService, CreateService, ServiceEpollFails, Announce, FreeAll, mdns
<1>6. ControlStep => UNCHANGED <<prompt, net, wl, mdns>>
  BY DEF ControlStep, ConnectFails, GetFdFails, GetFd, GetAddressesFails, GetAddresses, BindDone,
         EpollCreateFails, NewContextFails, NewContext, LoopEnds, LoopFails, SignalKills
<1> QED
  BY <1>1, <1>2, <1>3, <1>4, <1>5, <1>6

-----------------------------------------------------------------------------
(***************************************************************************)
(* Types.                                                                  *)
(***************************************************************************)
\* A password that is accepted has a length of at least one that net_get_psk_info
\* has room for, and is what was typed unless that has a NUL; a line without
\* NUL is refused just if it is empty or too long.
LEMMA Lines ==
  ASSUME NEW l \in Line
  PROVE  /\ ~Refused(l) => strcspn(l) \in 1 .. MaxKeyLen
         /\ l.nul = 0 => (Refused(l) <=> l.n \notin 1 .. MaxKeyLen)
         /\ ~Refused(l) /\ l.nul = 0 => strcspn(l) = l.n
<1>1. /\ l.n \in Nat /\ l.nul \in Nat /\ l.nl \in BOOLEAN /\ l.nul <= l.n
      /\ MaxKeyLen \in Nat /\ MaxKeyLen > 0 /\ PSK_BUFFER_SIZE = MaxKeyLen + 2
  BY SetupAssumption DEF Line, PSK_BUFFER_SIZE
<1> DEFINE k == Copied(l)
<1>2. /\ k \in Nat /\ k <= MaxKeyLen + 1
      /\ l.n <= MaxKeyLen + 1 => k = l.n
      /\ l.n > MaxKeyLen + 1 => k = MaxKeyLen + 1
  BY <1>1 DEF Copied
<1>3. /\ strcspn(l) \in Nat /\ strcspn(l) <= MaxKeyLen + 1
      /\ l.nul = 0 => strcspn(l) = k
  <2>1. CASE l.nul \in 1 .. k
    BY <1>1, <1>2, <2>1 DEF strcspn
  <2>2. CASE l.nul \notin 1 .. k
    BY <1>1, <1>2, <2>2 DEF strcspn
  <2> QED
    BY <2>1, <2>2
<1>4. Refused(l) <=> EndOfInput(l) \/ strcspn(l) = 0 \/ strcspn(l) = MaxKeyLen + 1
  BY <1>1, <1>3 DEF Refused
<1>5. EndOfInput(l) => l.n = 0
  BY DEF EndOfInput
<1> QED
  BY <1>1, <1>2, <1>3, <1>4, <1>5

ControlType == pc \in Labels /\ success \in BOOLEAN /\ failed \in Calls

PromptType ==
  /\ argv \in Seq(Args) /\ port \in 0 .. MaxPort
  /\ typed \in Line \cup {<<>>} /\ psk_key_len \in 0 .. MaxKeyLen
  /\ quit \in BOOLEAN /\ echo \in BOOLEAN

NetType ==
  /\ infos \in Seq(Family) /\ Len(infos) \in 1 .. MaxInfos
  /\ next \in 1 .. Len(infos) + 1
  /\ socks \in [Family -> 0 .. Len(infos)]
  /\ registered \subseteq Fd \cup {wl_fd}

FdType == fds \in [Fd -> {"unused", "open", "closed", "closed twice"}]

OthersType ==
  /\ proxies \subseteq Proxy /\ seat \subseteq Seat
  /\ service \subseteq MdnsFd /\ announced \in BOOLEAN

LEMMA Types == TypeOK <=> ControlType /\ PromptType /\ NetType /\ FdType /\ OthersType
  BY DEF TypeOK, Labels, Calls, ControlType, PromptType, NetType, FdType, OthersType

LEMMA TypeInit == Init => TypeOK
<1> SUFFICES ASSUME Init PROVE ControlType /\ PromptType /\ NetType /\ FdType /\ OthersType
  BY Types
<1>1. ControlType
  BY DEF ControlType, Labels, Calls, Init
<1>2. PromptType
  <2>1. <<>> \in Seq(Args) /\ \A a \in Args : <<a>> \in Seq(Args)
    OBVIOUS
  <2>2. argv \in Seq(Args)
    BY <2>1 DEF Init
  <2>3. port = 0 /\ typed = <<>> /\ psk_key_len = 0 /\ quit = FALSE /\ echo = TRUE
    BY DEF Init
  <2>4. port \in 0 .. MaxPort /\ psk_key_len \in 0 .. MaxKeyLen
    BY <2>3, SetupAssumption
  <2>5. typed \in Line \cup {<<>>} /\ quit \in BOOLEAN /\ echo \in BOOLEAN
    BY <2>3
  <2> QED
    BY <2>2, <2>4, <2>5 DEF PromptType
<1>3. NetType
  <2>1. infos \in UNION {[1 .. n -> Family] : n \in 1 .. MaxInfos}
    BY DEF Init
  <2>2. PICK n \in 1 .. MaxInfos : infos \in [1 .. n -> Family]
    BY <2>1
  <2>3. n \in Nat /\ 1 <= n /\ n <= MaxInfos
    BY LifecycleAssumption
  <2>4. infos \in Seq(Family) /\ Len(infos) = n
    BY <2>2, <2>3
  <2>5. next = 1 /\ registered = {} /\ socks = [f \in Family |-> 0]
    BY DEF Init
  <2>6. socks \in [Family -> 0 .. Len(infos)]
    BY <2>3, <2>4, <2>5
  <2> QED
    BY <2>3, <2>4, <2>5, <2>6, LifecycleAssumption DEF NetType
<1>4. FdType
  BY DEF FdType, Init
<1>5. OthersType
  BY DEF OthersType, Init
<1> QED
  BY <1>1, <1>2, <1>3, <1>4, <1>5

LEMMA ControlTypeStep == ControlType /\ [Next]_vars => ControlType'
<1> SUFFICES ASSUME ControlType, [Next]_vars PROVE ControlType'
  OBVIOUS
<1> USE DEF ControlType, Labels, Calls, At, Goto, end
<1>1. CASE PromptStep
  BY <1>1 DEF PromptStep, ParsePort, AskPassword, RejectPassword, AcceptPassword, Signal
<1>2. CASE WaylandStep
  BY <1>2 DEF WaylandStep, Connect, Roundtrip, CreatePointer, SeatAppears, FreePointer, FreeRegistry
<1>3. CASE BindStep
  BY <1>3, Frames
<1>4. CASE EpollStep
  BY <1>4 DEF EpollStep, EpollCtlFails, Epoll
<1>5. CASE ServiceStep
  BY <1>5 DEF ServiceStep, NoService, CreateService, ServiceEpollFails, Announce, FreeAll
<1>6. CASE ControlStep
  BY <1>6 DEF ControlStep, ConnectFails, GetFdFails, GetFd, GetAddressesFails, GetAddresses,
     BindDone, EpollCreateFails, NewContextFails, NewContext, LoopEnds, LoopFails, SignalKills
<1>7. CASE Exited \/ UNCHANGED vars
  BY <1>7 DEF Exited, vars
<1> QED
  BY <1>1, <1>2, <1>3, <1>4, <1>5, <1>6, <1>7, Kinds

LEMMA PromptTypeStep == PromptType /\ [Next]_vars => PromptType'
<1> SUFFICES ASSUME PromptType, [Next]_vars PROVE PromptType'
  OBVIOUS
<1> USE DEF PromptType, prompt, password
<1>1. CASE PromptStep
  <2>1. CASE ParsePort
    <3>1. setup_parse_port(argv) \in 1 .. MaxPort
      BY SetupAssumption DEF setup_parse_port
    <3> QED
      BY <2>1, <3>1, SetupAssumption DEF ParsePort
  <2>2. CASE AskPassword
    BY <2>2 DEF AskPassword
  <2>3. CASE RejectPassword
    BY <2>3 DEF RejectPassword
  <2>4. CASE AcceptPassword
    <3>1. PICK l \in Line : ~Refused(l) /\ typed' = l /\ psk_key_len' = strcspn(l)
      BY <2>4 DEF AcceptPassword
    <3>2. psk_key_len' \in 0 .. MaxKeyLen
      BY <3>1, Lines, SetupAssumption
    <3> QED
      BY <2>4, <3>1, <3>2 DEF AcceptPassword
  <2>5. CASE Signal
    BY <2>5 DEF Signal
  <2> QED
    BY <1>1, <2>1, <2>2, <2>3, <2>4, <2>5 DEF PromptStep
<1>2. CASE UNCHANGED prompt
  BY <1>2
<1> QED
  BY <1>1, <1>2, Kinds, Frames DEF Exited, vars


LEMMA OthersTypeStep == OthersType /\ [Next]_vars => OthersType'
<1> SUFFICES ASSUME OthersType, [Next]_vars PROVE OthersType'
  OBVIOUS
<1>1. UNCHANGED wl => proxies' \subseteq Proxy /\ seat' \subseteq Seat
  BY DEF wl, OthersType
<1>2. UNCHANGED mdns => service' \subseteq MdnsFd /\ announced' \in BOOLEAN
  BY DEF mdns, OthersType
<1>3. WaylandStep => proxies' \subseteq Proxy /\ seat' \subseteq Seat
  <2> USE DEF OthersType
  <2>1. CASE Connect
    BY <2>1 DEF Connect, Proxy
  <2>2. CASE Roundtrip
    <3>1. PICK n \in 0 .. MaxSeats, has_manager \in BOOLEAN :
            /\ proxies' = proxies \cup {<<"seat", i>> : i \in 1 .. n}
                                  \cup (IF has_manager THEN {manager} ELSE {})
            /\ seat' = IF n = 0 THEN {} ELSE {<<"seat", n>>}
      BY <2>2 DEF Roundtrip
    <3>2. n \in Nat /\ n <= MaxSeats /\ MaxSeats \in Nat
      BY LifecycleAssumption
    <3>3. \A i \in 1 .. n : <<"seat", i>> \in Seat
      BY <3>2 DEF Seat
    <3>4. proxies' \subseteq Proxy
      BY <3>1, <3>3 DEF Proxy
    <3>5. seat' \subseteq Seat
      BY <3>1, <3>2, <3>3
    <3> QED
      BY <3>4, <3>5
  <2>3. CASE CreatePointer
    BY <2>3 DEF CreatePointer, Proxy
  <2>4. CASE SeatAppears
    BY <2>4 DEF SeatAppears, Proxy
  <2>5. CASE FreePointer
    BY <2>5 DEF FreePointer
  <2>6. CASE FreeRegistry
    BY <2>6 DEF FreeRegistry
  <2> QED
    BY <2>1, <2>2, <2>3, <2>4, <2>5, <2>6 DEF WaylandStep
<1>4. ServiceStep => service' \subseteq MdnsFd /\ announced' \in BOOLEAN
  <2> USE DEF OthersType, mdns
  <2>1. CASE NoService
    BY <2>1 DEF NoService
  <2>2. CASE CreateService
    BY <2>2 DEF CreateService
  <2>3. CASE ServiceEpollFails
    BY <2>3 DEF ServiceEpollFails
  <2>4. CASE Announce
    BY <2>4 DEF Announce
  <2>5. CASE FreeAll
    <3>1. (announced /\ service = {}) \in BOOLEAN
      OBVIOUS
    <3> QED
      BY <2>5, <3>1 DEF FreeAll
  <2> QED
    BY <2>1, <2>2, <2>3, <2>4, <2>5 DEF ServiceStep
<1>5. CASE PromptStep
  BY <1>1, <1>2, <1>5, Frames DEF OthersType
<1>6. CASE WaylandStep
  BY <1>2, <1>3, <1>6, Frames DEF OthersType
<1>7. CASE BindStep
  BY <1>1, <1>2, <1>7, Frames DEF OthersType
<1>8. CASE EpollStep
  BY <1>1, <1>2, <1>8, Frames DEF OthersType
<1>9. CASE ServiceStep
  BY <1>1, <1>4, <1>9, Frames DEF OthersType
<1>10. CASE ControlStep
  BY <1>1, <1>2, <1>10, Frames DEF OthersType
<1>11. CASE UNCHANGED vars
  BY <1>1, <1>2, <1>11 DEF OthersType, vars
<1> QED
  BY <1>5, <1>6, <1>7, <1>8, <1>9, <1>10, <1>11, Kinds DEF Exited

LEMMA BindStepType ==
  ASSUME NetType, FdType, BindStep
  PROVE  NetType' /\ FdType' /\ udp(next) \in UdpFd /\ next \in 1 .. Len(infos)
<1> USE DEF NetType
<1>1. next \in 1 .. Len(infos) /\ next' = next + 1
  BY DEF BindStep, SocketFails, BindFails, Bind, MoreInfos
<1>2. Len(infos) \in Nat /\ infos[next] \in Family
  BY <1>1
<1>3. next' \in 1 .. Len(infos) + 1
  BY <1>1, <1>2
<1>4. udp(next) \in UdpFd /\ udp(next) \in Fd
  BY <1>1, <1>2, LifecycleAssumption DEF udp, UdpFd, Fd
<1>5. UNCHANGED infos /\ UNCHANGED registered
  BY Frames
<1>6. socks' \in [Family -> 0 .. Len(infos)] /\ FdType'
  <2>1. CASE SocketFails
    BY <2>1 DEF SocketFails, FdType
  <2>2. CASE BindFails
    BY <2>2, <1>4 DEF BindFails, FdType
  <2>3. CASE Bind
    <3>1. fds' \in {[fds EXCEPT ![udp(next)] = "open"], [fds EXCEPT ![udp(next)] = "closed"]}
      BY <2>3 DEF Bind
    <3>2. socks' \in {socks, [socks EXCEPT ![infos[next]] = next]}
      BY <2>3 DEF Bind
    <3>3. FdType'
      BY <3>1, <1>4 DEF FdType
    <3>4. next \in 0 .. Len(infos)
      BY <1>1, <1>2
    <3>5. socks' \in [Family -> 0 .. Len(infos)]
      BY <3>2, <3>4, <1>2
    <3> QED
      BY <3>3, <3>5
  <2> QED
    BY <2>1, <2>2, <2>3 DEF BindStep
<1> QED
  BY <1>1, <1>3, <1>4, <1>5, <1>6

LEMMA SockFdsType == NetType => SockFds \subseteq UdpFd
<1> SUFFICES ASSUME NetType, NEW f \in Family, socks[f] # 0 PROVE udp(socks[f]) \in UdpFd
  BY DEF SockFds
<1>1. socks[f] \in 0 .. Len(infos) /\ Len(infos) \in 1 .. MaxInfos
  BY DEF NetType
<1>2. socks[f] \in 1 .. MaxInfos
  BY <1>1, LifecycleAssumption
<1> QED
  BY <1>2 DEF UdpFd, udp

LEMMA NetTypeStep ==
  ASSUME NetType, FdType, OthersType, [Next]_vars
  PROVE  NetType' /\ FdType'
<1>1. UNCHANGED net => NetType' /\ FdType'
  BY DEF net, NetType, FdType
<1>2. CASE BindStep
  BY <1>2, BindStepType
<1>3. SockFds \subseteq UdpFd
  BY SockFdsType
<1>4. \A S : Closed(S) \in [Fd -> {"unused", "open", "closed", "closed twice"}]
  BY DEF Closed, FdType
<1>5. \A S : Opened(S) \in [Fd -> {"unused", "open", "closed", "closed twice"}]
  BY DEF Opened, FdType
<1>6. CASE EpollStep
  <2>1. UNCHANGED <<infos, next, socks>>
    BY <1>6, Frames
  <2>2. FdType' /\ registered' \subseteq Fd \cup {wl_fd}
    <3>1. CASE EpollCtlFails
      <4>1. fds' = [Closed(SockFds) EXCEPT ![epoll_fd] = "closed"] /\ registered' = {}
        BY <3>1 DEF EpollCtlFails
      <4> QED
        BY <4>1, <1>4 DEF FdType
    <3>2. CASE Epoll
      BY <3>2, <1>3 DEF Epoll, FdType, Fd
    <3> QED
      BY <1>6, <3>1, <3>2 DEF EpollStep
  <2> QED
    BY <2>1, <2>2 DEF NetType
<1>7. CASE ServiceStep
  <2>1. UNCHANGED <<infos, next, socks>>
    BY <1>7, Frames
  <2>2. service \subseteq Fd /\ service \subseteq MdnsFd
    BY DEF OthersType, Fd
  <2>3. FdType' /\ registered' \subseteq Fd \cup {wl_fd}
    <3> USE DEF NetType, FdType
    <3>1. CASE NoService
      BY <3>1 DEF NoService
    <3>2. CASE CreateService
      BY <3>2, <1>5 DEF CreateService
    <3>3. CASE ServiceEpollFails
      BY <3>3, <2>2 DEF ServiceEpollFails
    <3>4. CASE Announce
      BY <3>4, <2>2 DEF Announce
    <3>5. CASE FreeAll
      BY <3>5, <1>4 DEF FreeAll
    <3> QED
      BY <1>7, <3>1, <3>2, <3>3, <3>4, <3>5 DEF ServiceStep
  <2> QED
    BY <2>1, <2>3 DEF NetType
<1> QED
  BY <1>1, <1>2, <1>6, <1>7, Kinds, Frames DEF Exited, vars

\* Every variable of Lifecycle keeps its type, whatever fails.
THEOREM TypeCorrect == Spec => []TypeOK
<1>1. TypeOK /\ [Next]_vars => TypeOK'
  <2> SUFFICES ASSUME TypeOK, [Next]_vars
               PROVE  ControlType' /\ PromptType' /\ NetType' /\ FdType' /\ OthersType'
    BY DEF TypeOK, Labels, Calls, ControlType, PromptType, NetType, FdType, OthersType
  <2> QED
    BY Types, ControlTypeStep, PromptTypeStep, NetTypeStep, OthersTypeStep
<1> QED
  BY <1>1, TypeInit, PTL DEF Spec


-----------------------------------------------------------------------------
(***************************************************************************)
(* The terminal and the password.                                          *)
(***************************************************************************)
\* Only the prompt turns echoing off, and every way out of it turns it on.
THEOREM EchoComesBack == Spec => []EchoRestored
<1>1. Init => EchoRestored
  BY DEF Init, EchoRestored
<1>2. EchoRestored /\ [Next]_vars => EchoRestored'
  <2> SUFFICES ASSUME EchoRestored, [Next]_vars PROVE EchoRestored'
    OBVIOUS
  <2> USE DEF EchoRestored, At, Goto, end, prompt
  <2>1. CASE PromptStep
    BY <2>1 DEF PromptStep, ParsePort, AskPassword, RejectPassword, AcceptPassword, Signal
  <2>2. (WaylandStep \/ EpollStep \/ ServiceStep \/ ControlStep) => pc # "fgets"
    BY DEF WaylandStep, Connect, Roundtrip, CreatePointer, SeatAppears, FreePointer,
       FreeRegistry, EpollStep, EpollCtlFails, Epoll, ServiceStep, NoService, CreateService,
       ServiceEpollFails, Announce, FreeAll, ControlStep, ConnectFails, GetFdFails, GetFd,
       GetAddressesFails, GetAddresses, BindDone, EpollCreateFails, NewContextFails,
       NewContext, LoopEnds, LoopFails, SignalKills
  <2>3. BindStep => UNCHANGED <<pc, echo>>
    BY Frames
  <2>4. (WaylandStep \/ EpollStep \/ ServiceStep \/ ControlStep) => UNCHANGED echo
    BY Frames
  <2> QED
    BY <2>1, <2>2, <2>3, <2>4, Kinds DEF Exited, vars
<1> QED
  BY <1>1, <1>2, PTL DEF Spec

\* Nothing is typed before the prompt, and a refused password ends main.
PasswordInv ==
  /\ pc \in {"port", "password", "fgets"} => typed = <<>> /\ psk_key_len = 0
  /\ failed = "setup_password" => pc = "exited"
  /\ PasswordWhole

\* Steps that go on after the prompt neither touch the password nor pretend
\* that it was refused.
LEMMA PasswordKept ==
  ASSUME WaylandStep \/ BindStep \/ EpollStep \/ ServiceStep \/ ControlStep
  PROVE  /\ UNCHANGED password
         /\ failed' = "setup_password" => failed = "setup_password"
         /\ pc # "exited"
         /\ pc' \notin {"port", "password", "fgets"}
<1> USE DEF At, Goto, end
<1>1. UNCHANGED password
  BY Frames DEF prompt
<1>2. CASE WaylandStep
  BY <1>2, <1>1 DEF WaylandStep, Connect, Roundtrip, CreatePointer, SeatAppears, FreePointer,
     FreeRegistry
<1>3. CASE BindStep
  BY <1>3, <1>1 DEF BindStep, SocketFails, BindFails, Bind
<1>4. CASE EpollStep
  BY <1>4, <1>1 DEF EpollStep, EpollCtlFails, Epoll
<1>5. CASE ServiceStep
  BY <1>5, <1>1 DEF ServiceStep, NoService, CreateService, ServiceEpollFails, Announce, FreeAll
<1>6. CASE ControlStep
  BY <1>6, <1>1 DEF ControlStep, ConnectFails, GetFdFails, GetFd, GetAddressesFails,
     GetAddresses, BindDone, EpollCreateFails, NewContextFails, NewContext, LoopEnds, LoopFails,
     SignalKills
<1> QED
  BY <1>2, <1>3, <1>4, <1>5, <1>6


\* A password of the right length is accepted whole and no other is.
THEOREM PasswordTaken == Spec => []PasswordWhole
<1>1. Init => PasswordInv
  <2> SUFFICES ASSUME Init PROVE PasswordInv
    OBVIOUS
  <2>1. typed = <<>> /\ psk_key_len = 0 /\ failed = ""
    BY DEF Init
  <2> QED
    BY <2>1 DEF PasswordInv, PasswordWhole
<1>2. TypeOK /\ PasswordInv /\ [Next]_vars => PasswordInv'
  <2> SUFFICES ASSUME TypeOK, PasswordInv, [Next]_vars PROVE PasswordInv'
    OBVIOUS
  <2>1. CASE UNCHANGED <<pc, failed, password>>
    BY <2>1 DEF PasswordInv, PasswordWhole, password
  <2>2. CASE WaylandStep \/ BindStep \/ EpollStep \/ ServiceStep \/ ControlStep
    <3>1. UNCHANGED <<typed, psk_key_len>> /\ pc # "exited"
          /\ (failed' = "setup_password" => failed = "setup_password")
          /\ pc' \notin {"port", "password", "fgets"}
      BY <2>2, PasswordKept DEF password
    <3>2. failed # "setup_password" /\ failed' # "setup_password"
      BY <3>1 DEF PasswordInv
    <3>3. PasswordWhole'
      BY <3>1, <3>2 DEF PasswordInv, PasswordWhole
    <3> QED
      BY <3>1, <3>2, <3>3 DEF PasswordInv
  <2>3. CASE ParsePort \/ AskPassword
    <3>1. UNCHANGED <<typed, psk_key_len, failed>> /\ pc \in {"port", "password"}
      BY <2>3 DEF ParsePort, AskPassword, At, end, password
    <3>2. typed = <<>> /\ psk_key_len = 0 /\ failed # "setup_password"
      BY <3>1 DEF PasswordInv
    <3> QED
      BY <3>1, <3>2 DEF PasswordInv, PasswordWhole
  <2>4. CASE RejectPassword
    <3>1. PICK l \in Line : Refused(l) /\ typed' = l
      BY <2>4 DEF RejectPassword
    <3>2. pc' = "exited" /\ failed' = "setup_password" /\ psk_key_len' = 0
      BY <2>4 DEF RejectPassword, Goto, PasswordInv
    <3>3. l.nul = 0 => l.n \notin 1 .. MaxKeyLen
      BY <3>1, Lines
    <3> QED
      BY <3>1, <3>2, <3>3 DEF PasswordInv, PasswordWhole
  <2>5. CASE AcceptPassword
    <3>1. PICK l \in Line : ~Refused(l) /\ typed' = l /\ psk_key_len' = strcspn(l)
      BY <2>5 DEF AcceptPassword
    <3>2. pc' = "display" /\ failed' = failed /\ failed # "setup_password"
      BY <2>5 DEF AcceptPassword, At, end, PasswordInv
    <3>3. l.nul = 0 => l.n \in 1 .. MaxKeyLen /\ strcspn(l) = l.n
      BY <3>1, Lines
    <3> QED
      BY <3>1, <3>2, <3>3 DEF PasswordInv, PasswordWhole
  <2>6. CASE Signal
    <3>1. UNCHANGED password
      BY <2>6 DEF Signal
    <3>2. CASE UNCHANGED <<pc, failed>>
      BY <3>1, <3>2, <2>1
    <3>3. CASE pc = "fgets" /\ pc' = "exited" /\ failed' = "interrupt"
      BY <3>1, <3>3 DEF PasswordInv, PasswordWhole, password
    <3> QED
      BY <2>6, <3>2, <3>3 DEF Signal, Goto, end
  <2>7. CASE Exited \/ UNCHANGED vars
    BY <2>7, <2>1 DEF Exited, vars, prompt, end
  <2> QED
    BY <2>2, <2>3, <2>4, <2>5, <2>6, <2>7, Kinds DEF PromptStep
<1>3. PasswordInv => PasswordWhole
  BY DEF PasswordInv
<1> QED
  BY <1>1, <1>2, <1>3, TypeCorrect, PTL DEF Spec

-----------------------------------------------------------------------------
(***************************************************************************)
(* The Wayland objects.                                                    *)
(***************************************************************************)
\* Nothing exists before the connection; once the pointer, the manager and the
\* seat are destroyed only the registry and seats that were replaced remain.
ProxyInv ==
  /\ pc \in {"port", "password", "fgets", "display"} => proxies = {} /\ seat = {}
  /\ pc = "globals" => proxies = {registry} /\ seat = {}
  /\ pc = "free_registry" /\ failed # "wl_display_roundtrip" =>
       proxies \subseteq {registry} \cup (Seat \ seat)
  /\ ProxiesDestroyed

\* The virtual pointer, its manager and its seat are destroyed on every way
\* out that created them.
THEOREM ProxiesGo == Spec => []ProxiesDestroyed
<1> USE DEF At, Goto, end
<1>1. Init => ProxyInv
  <2> SUFFICES ASSUME Init PROVE ProxyInv
    OBVIOUS
  <2>1. pc = "port" /\ proxies = {} /\ seat = {}
    BY DEF Init
  <2> QED
    BY <2>1 DEF ProxyInv, ProxiesDestroyed
<1>2. TypeOK /\ ProxyInv /\ [Next]_vars => ProxyInv'
  <2> SUFFICES ASSUME TypeOK, ProxyInv, [Next]_vars PROVE ProxyInv'
    OBVIOUS
  <2> USE DEF ProxyInv, ProxiesDestroyed, wl
  <2>1. CASE UNCHANGED <<pc, failed, wl>>
    BY <2>1
  <2>2. CASE PromptStep
    BY <2>2 DEF PromptStep, ParsePort, AskPassword, RejectPassword, AcceptPassword, Signal
  <2>3. CASE Connect
    BY <2>3 DEF Connect
  <2>4. CASE Roundtrip
    BY <2>4 DEF Roundtrip
  <2>5. CASE CreatePointer
    BY <2>5 DEF CreatePointer
  <2>6. CASE SeatAppears
    BY <2>6 DEF SeatAppears
  <2>7. CASE FreePointer
    <3>1. proxies \subseteq Proxy
      BY DEF TypeOK
    <3>2. proxies' \subseteq {registry} \cup (Seat \ seat)
      BY <2>7, <3>1 DEF FreePointer, Proxy
    <3> QED
      BY <2>7, <3>2 DEF FreePointer
  <2>8. CASE FreeRegistry
    <3>1. pc = "free_registry" /\ pc' = "exited" /\ failed' = failed /\ seat' = seat
          /\ proxies' = proxies \ {registry}
      BY <2>8 DEF FreeRegistry
    <3> QED
      BY <3>1
  <2>9. CASE EpollStep
    BY <2>9 DEF EpollStep, EpollCtlFails, Epoll
  <2>10. CASE ServiceStep
    BY <2>10 DEF ServiceStep, NoService, CreateService, ServiceEpollFails, Announce, FreeAll
  <2>11. CASE ControlStep
    BY <2>11 DEF ControlStep, ConnectFails, GetFdFails, GetFd, GetAddressesFails, GetAddresses,
       BindDone, EpollCreateFails, NewContextFails, NewContext, LoopEnds, LoopFails, SignalKills
  <2> QED
    BY <2>1, <2>2, <2>3, <2>4, <2>5, <2>6, <2>7, <2>8, <2>9, <2>10, <2>11, Kinds, Frames
       DEF WaylandStep, Exited, vars
<1>3. ProxyInv => ProxiesDestroyed
  BY DEF ProxyInv
<1> QED
  BY <1>1, <1>2, <1>3, TypeCorrect, PTL DEF Spec

-----------------------------------------------------------------------------
(***************************************************************************)
(* The sockets of main for any number of addresses, whichever call fails:  *)
(* what state.socks names, what is open and what epoll watches agree until *)
(* the way out, where all of it is closed, once, and the service has said  *)
(* goodbye.                                                                *)
(***************************************************************************)

Before == {"port", "password", "fgets", "display", "globals", "pointer", "wl_fd", "addresses"}
Serving == {"bind", "epoll", "context", "service", "service_epoll", "loop", "free_all"}
Ending == {"free_pointer", "free_registry", "exited"}

\* state.socks names addresses already tried, each of its family; a descriptor
\* is created for an address only when that is tried.
Kept ==
  /\ \A f \in Family : socks[f] # 0 => socks[f] < next /\ infos[socks[f]] = f
  /\ \A i \in 1 .. MaxInfos : i >= next => fds[udp(i)] = "unused"
  /\ pc \in Before => next = 1 /\ \A f \in Family : socks[f] = 0

\* Until main is on its way out the open UDP sockets are those of state.socks,
\* and it goes on only with one.
UdpOpen ==
  /\ pc \in Before \cup Serving => \A f \in UdpFd : fds[f] = "open" <=> f \in SockFds
  /\ pc \in Serving \ {"bind"} => SockFds # {}

\* The open mDNS sockets are those of the service; only a service announces.
MdnsOpen ==
  /\ pc \in Before \cup {"bind", "epoll", "context", "service"} =>
       service = {} /\ \A f \in MdnsFd : fds[f] = "unused"
  /\ pc \in {"service_epoll", "loop", "free_all"} =>
       \A f \in MdnsFd : fds[f] = "open" <=> f \in service
  /\ pc = "service_epoll" => service # {}
  /\ announced => pc \in {"loop", "free_all"} /\ service # {}

Watched ==
  /\ pc \in {"context", "service", "service_epoll"} => registered = {wl_fd} \cup SockFds
  /\ pc = "loop" => registered = {wl_fd} \cup SockFds \cup service

\* On the way out nothing is open, unless one of two calls failed.
Ended ==
  pc \in Ending /\ failed \notin {"epoll_create1", "dtls_new_context"} =>
    \A f \in UdpFd \cup MdnsFd : fds[f] # "open"

PortSet == pc \notin {"port", "exited"} => port \in 1 .. MaxPort

SocketInv == Kept /\ UdpOpen /\ MdnsOpen /\ Watched /\ Ended /\ PortSet /\ NoDoubleClose

LEMMA Descriptors ==
  /\ UdpFd \subseteq Fd /\ MdnsFd \subseteq Fd /\ UdpFd \cap MdnsFd = {}
  /\ epoll_fd \in Fd /\ epoll_fd \notin UdpFd \cup MdnsFd
  /\ \A i, j : udp(i) = udp(j) => i = j
  /\ \A f \in UdpFd : \E i \in 1 .. MaxInfos : f = udp(i)
  BY DEF Fd, UdpFd, MdnsFd, epoll_fd, udp

LEMMA SockFdsEmpty ==
  /\ SockFds = {} <=> \A f \in Family : socks[f] = 0
  /\ Count = 0 <=> SockFds = {}
<1>1. SockFds = {} <=> {f \in Family : socks[f] # 0} = {}
  BY DEF SockFds
<1>2. IsFiniteSet(Family)
  <2>1. IsFiniteSet({"v4"})
    BY FS_EmptySet, FS_AddElement
  <2>2. IsFiniteSet({"v4"} \cup {"v6"})
    BY <2>1, FS_AddElement
  <2>3. Family = {"v4"} \cup {"v6"}
    BY DEF Family
  <2> QED
    BY <2>2, <2>3
<1>3. IsFiniteSet({f \in Family : socks[f] # 0})
  BY <1>2, FS_Subset
<1>4. Count = 0 <=> {f \in Family : socks[f] # 0} = {}
  BY <1>3, FS_EmptySet DEF Count
<1> QED
  BY <1>1, <1>4

LEMMA SocketInit == Init => SocketInv
<1> SUFFICES ASSUME Init PROVE SocketInv
  OBVIOUS
<1>1. /\ pc = "port" /\ next = 1 /\ socks = [f \in Family |-> 0]
      /\ fds = [f \in Fd |-> "unused"] /\ service = {} /\ announced = FALSE
  BY DEF Init
<1>2. \A f \in Family : socks[f] = 0
  BY <1>1
<1>3. SockFds = {}
  BY <1>2, SockFdsEmpty
<1>4. \A f \in UdpFd \cup MdnsFd : fds[f] = "unused"
  BY <1>1, Descriptors
<1>5. \A i \in 1 .. MaxInfos : udp(i) \in UdpFd
  BY DEF UdpFd, udp
<1>6. Kept
  BY <1>1, <1>2, <1>4, <1>5 DEF Kept
<1>7. UdpOpen
  BY <1>1, <1>3, <1>4 DEF UdpOpen, Serving
<1>8. MdnsOpen
  BY <1>1, <1>4 DEF MdnsOpen
<1>9. Watched /\ Ended /\ PortSet /\ NoDoubleClose
  BY <1>1 DEF Watched, Ended, Ending, PortSet, NoDoubleClose
<1> QED
  BY <1>6, <1>7, <1>8, <1>9 DEF SocketInv

\* Where the steps that change no descriptor may lead.
Moves ==
  /\ pc' \in Before => pc \in Before
  /\ pc' \in Before \cup Serving => pc \in Before \cup Serving
  /\ pc' \in Serving \ {"bind"} => pc \in Serving \ {"bind"} \/ (pc = "bind" /\ Count # 0)
  /\ pc' \in Before \cup {"bind", "epoll", "context", "service"} =>
       pc \in Before \cup {"bind", "epoll", "context", "service"}
  /\ pc' \in {"service_epoll", "loop", "free_all"} => pc \in {"service_epoll", "loop", "free_all"}
  /\ pc' = "service_epoll" => pc = "service_epoll"
  /\ pc \in {"loop", "free_all"} => pc' \in {"loop", "free_all"}
  /\ pc' \in {"context", "service", "service_epoll"} => pc \in {"context", "service", "service_epoll"}
  /\ pc' = "loop" => pc = "loop"
  /\ pc' \in Ending /\ failed' \notin {"epoll_create1", "dtls_new_context"} =>
       \/ pc \in Before
       \/ pc = "bind" /\ Count = 0
       \/ pc \in Ending /\ failed' = failed
  /\ pc' \notin {"port", "exited"} => pc # "exited"

LEMMA QuietMoves ==
  ASSUME TypeOK, PromptStep \/ WaylandStep \/ ControlStep \/ UNCHANGED vars
  PROVE  Moves
<1> USE DEF Moves, Before, Serving, Ending, At, Goto, end
<1>1. CASE UNCHANGED vars
  BY <1>1 DEF vars, TypeOK
<1>2. CASE PromptStep
  BY <1>2 DEF PromptStep, ParsePort, AskPassword, RejectPassword, AcceptPassword, Signal, TypeOK
<1>3. CASE WaylandStep
  BY <1>3 DEF WaylandStep, Connect, Roundtrip, CreatePointer, SeatAppears, FreePointer,
     FreeRegistry
<1>4. CASE ControlStep
  BY <1>4 DEF ControlStep, ConnectFails, GetFdFails, GetFd, GetAddressesFails, GetAddresses,
     BindDone, EpollCreateFails, NewContextFails, NewContext, LoopEnds, LoopFails, SignalKills
<1> QED
  BY <1>1, <1>2, <1>3, <1>4


LEMMA QuietStep ==
  ASSUME TypeOK, SocketInv, PromptStep \/ WaylandStep \/ ControlStep \/ UNCHANGED vars
  PROVE  Kept' /\ UdpOpen' /\ MdnsOpen' /\ Watched' /\ Ended' /\ NoDoubleClose'
<1>1. UNCHANGED <<infos, next, socks, fds, registered, service, announced>>
  BY Frames DEF vars, net, mdns
<1>2. SockFds' = SockFds /\ Count' = Count
  BY <1>1 DEF SockFds, Count
<1>3. Moves
  BY QuietMoves
<1>4. Kept'
  BY <1>1, <1>3 DEF Kept, SocketInv, Moves
<1>5. UdpOpen'
  <2>1. pc' \in Serving \ {"bind"} => SockFds # {}
    BY <1>3, SockFdsEmpty DEF UdpOpen, SocketInv, Moves
  <2> QED
    BY <1>1, <1>2, <1>3, <2>1 DEF UdpOpen, SocketInv, Moves
<1>6. MdnsOpen'
  BY <1>1, <1>3 DEF MdnsOpen, SocketInv, Moves
<1>7. Watched'
  BY <1>1, <1>2, <1>3 DEF Watched, SocketInv, Moves
<1>8. Ended'
  <2> SUFFICES ASSUME pc' \in Ending, failed' \notin {"epoll_create1", "dtls_new_context"}
               PROVE  \A f \in UdpFd \cup MdnsFd : fds[f] # "open"
    BY <1>1 DEF Ended
  <2>1. CASE pc \in Before
    <3>1. \A f \in Family : socks[f] = 0
      BY <2>1 DEF SocketInv, Kept
    <3>2. SockFds = {}
      BY <3>1, SockFdsEmpty
    <3> QED
      BY <2>1, <3>2 DEF SocketInv, UdpOpen, MdnsOpen
  <2>2. CASE pc = "bind" /\ Count = 0
    <3>1. SockFds = {}
      BY <2>2, SockFdsEmpty
    <3> QED
      BY <2>2, <3>1 DEF SocketInv, UdpOpen, MdnsOpen, Serving
  <2>3. CASE pc \in Ending /\ failed' = failed
    BY <2>3 DEF SocketInv, Ended
  <2> QED
    BY <1>3, <2>1, <2>2, <2>3 DEF Moves
<1>9. NoDoubleClose'
  BY <1>1 DEF NoDoubleClose, SocketInv
<1> QED
  BY <1>4, <1>5, <1>6, <1>7, <1>8, <1>9

LEMMA BindKeeps ==
  ASSUME TypeOK, SocketInv, BindStep
  PROVE  Kept' /\ UdpOpen' /\ MdnsOpen' /\ Watched' /\ Ended' /\ NoDoubleClose'
<1>1. /\ udp(next) \in UdpFd /\ next \in 1 .. Len(infos)
      /\ next' = next + 1 /\ pc = "bind" /\ pc' = "bind"
      /\ UNCHANGED <<infos, registered, service, announced>>
  BY Types, BindStepType, Frames DEF BindStep, SocketFails, BindFails, Bind, mdns
<1>2. /\ next \in Nat /\ next # 0 /\ infos[next] \in Family /\ next \in 1 .. MaxInfos
      /\ \A f \in Family : socks[f] \in Nat
  <2>1. infos \in Seq(Family) /\ Len(infos) \in 1 .. MaxInfos /\ MaxInfos \in Nat
        /\ socks \in [Family -> 0 .. Len(infos)]
    BY LifecycleAssumption DEF TypeOK
  <2> QED
    BY <1>1, <2>1
<1>3. fds[udp(next)] = "unused" /\ fds \in [Fd -> {"unused", "open", "closed", "closed twice"}]
  <2>1. fds[udp(next)] = "unused"
    BY <1>2 DEF SocketInv, Kept
  <2> QED
    BY <2>1 DEF TypeOK
<1>4. udp(next) \notin SockFds
  <2>1. \A f \in Family : socks[f] # 0 => socks[f] # next
    BY <1>2 DEF SocketInv, Kept
  <2> QED
    BY <2>1, Descriptors DEF SockFds
<1>5. PICK kept \in BOOLEAN :
        /\ socks' = IF kept THEN [socks EXCEPT ![infos[next]] = next] ELSE socks
        /\ kept => fds' = [fds EXCEPT ![udp(next)] = "open"] /\ socks[infos[next]] = 0
        /\ ~kept => fds' = fds \/ fds' = [fds EXCEPT ![udp(next)] = "closed"]
  <2>1. CASE SocketFails
    BY <2>1 DEF SocketFails
  <2>2. CASE BindFails
    BY <2>2 DEF BindFails
  <2>3. CASE Bind /\ socks[infos[next]] = 0
    BY <2>3 DEF Bind
  <2>4. CASE Bind /\ socks[infos[next]] # 0
    BY <2>4 DEF Bind
  <2> QED
    BY <2>1, <2>2, <2>3, <2>4 DEF BindStep
<1>6. \A f \in Family : socks'[f] = IF kept /\ f = infos[next] THEN next ELSE socks[f]
  BY <1>2, <1>5 DEF TypeOK
<1>7. \A f \in Fd : f # udp(next) => fds'[f] = fds[f]
  BY <1>3, <1>5
<1>8. fds'[udp(next)] = "open" <=> kept
  BY <1>1, <1>3, <1>5, Descriptors
<1>9. SockFds' = IF kept THEN SockFds \cup {udp(next)} ELSE SockFds
  <2>1. CASE kept
    <3>1. socks[infos[next]] = 0
      BY <1>5, <2>1
    <3>2. \A x : x \in SockFds' <=> \E f \in Family : socks'[f] # 0 /\ x = udp(socks'[f])
      BY DEF SockFds
    <3>3. \A x : x \in SockFds <=> \E f \in Family : socks[f] # 0 /\ x = udp(socks[f])
      BY DEF SockFds
    <3>4. \A x : x \in SockFds' <=> x \in SockFds \/ x = udp(next)
      BY <1>2, <1>6, <2>1, <3>1, <3>2, <3>3
    <3> QED
      BY <2>1, <3>4
  <2>2. CASE ~kept
    BY <1>5, <2>2 DEF SockFds
  <2> QED
    BY <2>1, <2>2
<1>10. Kept'
  <2>1. \A f \in Family : socks'[f] # 0 => socks'[f] < next' /\ infos[socks'[f]] = f
    BY <1>1, <1>2, <1>6 DEF SocketInv, Kept
  <2>2. ASSUME NEW i \in 1 .. MaxInfos, i >= next' PROVE fds'[udp(i)] = "unused"
    <3>1. i >= next /\ i # next
      BY <1>1, <1>2, <2>2, LifecycleAssumption
    <3>2. udp(i) # udp(next) /\ udp(i) \in Fd
      BY <3>1, Descriptors DEF udp, UdpFd
    <3> QED
      BY <1>7, <3>1, <3>2 DEF SocketInv, Kept
  <2> QED
    BY <1>1, <2>1, <2>2 DEF Kept, Before
<1>11. UdpOpen'
  <2>1. ASSUME NEW f \in UdpFd PROVE fds'[f] = "open" <=> f \in SockFds'
    <3>1. fds[f] = "open" <=> f \in SockFds
      BY <1>1 DEF SocketInv, UdpOpen, Serving
    <3>2. CASE f = udp(next)
      BY <1>4, <1>8, <1>9, <3>2
    <3>3. CASE f # udp(next)
      BY <1>7, <1>9, <3>1, <3>3, Descriptors
    <3> QED
      BY <3>2, <3>3
  <2> QED
    BY <1>1, <2>1 DEF UdpOpen
<1>12. MdnsOpen'
  <2>1. \A f \in MdnsFd : fds'[f] = fds[f]
    BY <1>1, <1>7, Descriptors
  <2> QED
    BY <1>1, <2>1 DEF SocketInv, MdnsOpen
<1>13. Watched' /\ Ended'
  BY <1>1 DEF Watched, Ended, Ending
<1>14. NoDoubleClose'
  BY <1>3, <1>5 DEF SocketInv, NoDoubleClose
<1> QED
  BY <1>10, <1>11, <1>12, <1>13, <1>14


\* Closing open descriptors closes each once.
LEMMA Closing ==
  ASSUME NEW S \in SUBSET Fd, NoDoubleClose, \A f \in S : fds[f] = "open", TypeOK
  PROVE  /\ \A f \in S : Closed(S)[f] = "closed"
         /\ \A f \in Fd \ S : Closed(S)[f] = fds[f]
         /\ \A f \in Fd : Closed(S)[f] # "closed twice"
  BY DEF Closed, NoDoubleClose

LEMMA EpollKeeps ==
  ASSUME TypeOK, SocketInv, EpollStep
  PROVE  Kept' /\ UdpOpen' /\ MdnsOpen' /\ Watched' /\ Ended' /\ NoDoubleClose'
<1>1. /\ pc = "epoll" /\ pc' \in {"context", "free_pointer"}
      /\ UNCHANGED <<infos, next, socks, service, announced>>
  BY Frames DEF EpollStep, EpollCtlFails, Epoll, At, Goto, mdns
<1>2. SockFds' = SockFds /\ SockFds \subseteq UdpFd /\ SockFds # {}
  BY <1>1, SockFdsType, Types DEF SockFds, SocketInv, UdpOpen, Serving
<1>3. /\ \A f \in UdpFd : fds[f] = "open" <=> f \in SockFds
      /\ \A f \in MdnsFd : fds[f] = "unused"
      /\ service = {} /\ announced = FALSE
  BY <1>1 DEF SocketInv, UdpOpen, MdnsOpen, Serving, TypeOK
<1>4. FdType
  BY Types
<1>5. CASE EpollCtlFails
  <2>1. pc' = "free_pointer" /\ fds' = [Closed(SockFds) EXCEPT ![epoll_fd] = "closed"]
    BY <1>5 DEF EpollCtlFails, Goto
  <2>2. /\ \A f \in SockFds : Closed(SockFds)[f] = "closed"
        /\ \A f \in Fd \ SockFds : Closed(SockFds)[f] = fds[f]
        /\ \A f \in Fd : Closed(SockFds)[f] # "closed twice"
    BY <1>2, <1>3, Closing, Descriptors DEF SocketInv
  <2>3. DOMAIN Closed(SockFds) = Fd
    BY DEF Closed
  <2>4. /\ \A f \in SockFds : fds'[f] = "closed"
        /\ \A f \in (UdpFd \cup MdnsFd) \ SockFds : fds'[f] = fds[f]
        /\ \A f \in Fd : fds'[f] # "closed twice"
    BY <1>2, <2>1, <2>2, <2>3, Descriptors
  <2>5. Kept'
    <3>1. ASSUME NEW i \in 1 .. MaxInfos, i >= next PROVE fds'[udp(i)] = "unused"
      <4>1. fds[udp(i)] = "unused" /\ udp(i) \in UdpFd
        BY <3>1 DEF SocketInv, Kept, udp, UdpFd
      <4> QED
        BY <1>3, <2>4, <4>1
    <3> QED
      BY <1>1, <2>1, <3>1 DEF SocketInv, Kept, Before
  <2>6. UdpOpen' /\ MdnsOpen' /\ Watched'
    BY <1>1, <1>3, <2>1 DEF UdpOpen, MdnsOpen, Watched, Before, Serving
  <2>7. Ended'
    BY <1>3, <2>4 DEF Ended
  <2> QED
    BY <2>4, <2>5, <2>6, <2>7 DEF NoDoubleClose
<1>6. CASE Epoll
  <2>1. /\ pc' = "context" /\ fds' = [fds EXCEPT ![epoll_fd] = "open"]
        /\ registered' = {wl_fd} \cup SockFds
    BY <1>6 DEF Epoll, At
  <2>2. /\ \A f \in UdpFd \cup MdnsFd : fds'[f] = fds[f]
        /\ \A f \in Fd : fds'[f] # "closed twice"
    BY <1>4, <2>1, Descriptors DEF FdType, SocketInv, NoDoubleClose
  <2>3. Kept'
    <3>1. \A i \in 1 .. MaxInfos : udp(i) \in UdpFd
      BY DEF udp, UdpFd
    <3> QED
      BY <1>1, <2>1, <2>2, <3>1 DEF SocketInv, Kept, Before
  <2>4. UdpOpen'
    BY <1>2, <1>3, <2>2 DEF UdpOpen
  <2>5. MdnsOpen'
    BY <1>1, <1>3, <2>1, <2>2 DEF MdnsOpen
  <2>6. Watched' /\ Ended'
    BY <1>2, <2>1 DEF Watched, Ended, Ending
  <2> QED
    BY <2>2, <2>3, <2>4, <2>5, <2>6 DEF NoDoubleClose
<1> QED
  BY <1>5, <1>6 DEF EpollStep

LEMMA ServiceKeeps ==
  ASSUME TypeOK, SocketInv, ServiceStep
  PROVE  Kept' /\ UdpOpen' /\ MdnsOpen' /\ Watched' /\ Ended' /\ NoDoubleClose'
<1>1. UNCHANGED <<infos, next, socks>>
  BY Frames
<1>2. SockFds' = SockFds /\ SockFds \subseteq UdpFd
  BY <1>1, SockFdsType, Types DEF SockFds
<1>3. FdType /\ service \subseteq MdnsFd /\ announced \in BOOLEAN
  BY Types DEF TypeOK
<1>4. /\ pc \in {"service", "service_epoll", "free_all"}
      /\ \A f \in UdpFd : fds[f] = "open" <=> f \in SockFds
      /\ SockFds # {}
  <2>1. pc \in {"service", "service_epoll", "free_all"}
    BY DEF ServiceStep, NoService, CreateService, ServiceEpollFails, Announce, FreeAll, At, Goto
  <2> QED
    BY <2>1 DEF SocketInv, UdpOpen, Serving
<1>5. \A i \in 1 .. MaxInfos : udp(i) \in UdpFd
  BY DEF udp, UdpFd
<1>6. ASSUME \A f \in UdpFd : fds'[f] = fds[f], pc' \in {"service_epoll", "loop", "free_all"}
      PROVE  Kept' /\ UdpOpen' /\ Ended'
  <2>1. Kept'
    BY <1>1, <1>5, <1>6 DEF SocketInv, Kept, Before
  <2>2. UdpOpen'
    BY <1>2, <1>4, <1>6 DEF UdpOpen
  <2> QED
    BY <1>6, <2>1, <2>2 DEF Ended, Ending
<1>7. CASE NoService
  <2>1. PICK S \in SUBSET MdnsFd : fds' = [f \in Fd |-> IF f \in S THEN "closed" ELSE fds[f]]
    BY <1>7 DEF NoService
  <2>2. pc = "service" /\ pc' = "loop" /\ UNCHANGED <<registered, service, announced>>
    BY <1>7 DEF NoService, At, mdns
  <2>3. \A f \in UdpFd : fds'[f] = fds[f]
    BY <2>1, Descriptors
  <2>4. service = {} /\ ~announced /\ \A f \in MdnsFd : fds[f] = "unused"
    BY <2>2 DEF SocketInv, MdnsOpen
  <2>5. MdnsOpen'
    <3>1. \A f \in MdnsFd : fds'[f] # "open"
      BY <2>1, <2>4, Descriptors
    <3> QED
      BY <2>2, <2>4, <3>1 DEF MdnsOpen, Before
  <2>6. Watched'
    BY <1>2, <2>2, <2>4 DEF SocketInv, Watched
  <2>7. NoDoubleClose'
    BY <2>1 DEF SocketInv, NoDoubleClose
  <2> QED
    BY <1>6, <2>2, <2>3, <2>5, <2>6, <2>7
<1>8. CASE CreateService
  <2>1. /\ pc = "service" /\ pc' = "service_epoll" /\ UNCHANGED <<registered, announced>>
        /\ service' \subseteq MdnsFd /\ service' # {} /\ fds' = Opened(service')
    BY <1>8 DEF CreateService, At
  <2>2. \A f \in Fd : fds'[f] = IF f \in service' THEN "open" ELSE fds[f]
    BY <2>1 DEF Opened
  <2>3. \A f \in UdpFd : fds'[f] = fds[f]
    BY <2>1, <2>2, Descriptors
  <2>4. ~announced /\ \A f \in MdnsFd : fds[f] = "unused"
    BY <2>1 DEF SocketInv, MdnsOpen
  <2>5. MdnsOpen'
    <3>1. \A f \in MdnsFd : fds'[f] = "open" <=> f \in service'
      BY <2>2, <2>4, Descriptors
    <3> QED
      BY <2>1, <2>4, <3>1 DEF MdnsOpen, Before
  <2>6. Watched'
    BY <1>2, <2>1 DEF SocketInv, Watched
  <2>7. NoDoubleClose'
    BY <2>2 DEF SocketInv, NoDoubleClose
  <2> QED
    BY <1>6, <2>1, <2>3, <2>5, <2>6, <2>7
<1>9. CASE ServiceEpollFails \/ Announce
  <2>1. /\ pc = "service_epoll" /\ pc' \in {"free_all", "loop"} /\ UNCHANGED <<fds, service>>
        /\ pc' = "loop" => registered' = registered \cup service
    BY <1>9 DEF ServiceEpollFails, Announce, At, Goto, mdns
  <2>2. service # {} /\ \A f \in MdnsFd : fds[f] = "open" <=> f \in service
    BY <2>1 DEF SocketInv, MdnsOpen
  <2>3. MdnsOpen'
    BY <2>1, <2>2 DEF MdnsOpen, Before
  <2>4. Watched'
    BY <1>2, <2>1 DEF SocketInv, Watched
  <2>5. NoDoubleClose'
    BY <2>1 DEF SocketInv, NoDoubleClose
  <2> QED
    BY <1>6, <2>1, <2>3, <2>4, <2>5
<1>10. CASE FreeAll
  <2>1. /\ pc = "free_all" /\ pc' = "free_pointer" /\ service' = {}
        /\ announced' = (announced /\ service = {}) /\ fds' = Closed(service \cup SockFds)
    BY <1>10 DEF FreeAll, At
  <2>2. \A f \in MdnsFd : fds[f] = "open" <=> f \in service
    BY <2>1 DEF SocketInv, MdnsOpen
  <2>3. ~announced'
    BY <2>1 DEF SocketInv, MdnsOpen
  <2> DEFINE S == service \cup SockFds
  <2>4. S \in SUBSET Fd /\ \A f \in S : fds[f] = "open"
    BY <1>2, <1>3, <1>4, <2>2, Descriptors
  <2>5. /\ \A f \in S : fds'[f] = "closed"
        /\ \A f \in Fd \ S : fds'[f] = fds[f]
        /\ \A f \in Fd : fds'[f] # "closed twice"
    <3> HIDE DEF S
    <3>1. NoDoubleClose
      BY DEF SocketInv
    <3>2. fds' = Closed(S)
      BY <2>1 DEF S
    <3> QED
      BY <2>4, <3>1, <3>2, Closing
  <2>6. Kept'
    <3>1. ASSUME NEW i \in 1 .. MaxInfos, i >= next PROVE fds'[udp(i)] = "unused"
      <4>1. fds[udp(i)] = "unused" /\ udp(i) \in Fd
        BY <1>5, <3>1, Descriptors DEF SocketInv, Kept
      <4> QED
        BY <2>4, <2>5, <4>1
    <3> QED
      BY <1>1, <2>1, <3>1 DEF SocketInv, Kept, Before
  <2>7. UdpOpen' /\ MdnsOpen' /\ Watched'
    BY <2>1, <2>3 DEF UdpOpen, MdnsOpen, Watched, Before, Serving
  <2>8. Ended'
    <3>1. \A f \in UdpFd \cup MdnsFd : fds'[f] # "open"
      BY <1>2, <1>4, <2>2, <2>5, Descriptors
    <3> QED
      BY <3>1 DEF Ended
  <2>9. NoDoubleClose'
    BY <2>5 DEF NoDoubleClose
  <2> QED
    BY <2>6, <2>7, <2>8, <2>9
<1> QED
  BY <1>7, <1>8, <1>9, <1>10 DEF ServiceStep


LEMMA PortStep == PortSet /\ [Next]_vars => PortSet'
<1> SUFFICES ASSUME PortSet, [Next]_vars PROVE PortSet'
  OBVIOUS
<1> USE DEF PortSet, prompt, At, Goto, end
<1>1. CASE ParsePort
  <2>1. setup_parse_port(argv) \in 1 .. MaxPort
    BY SetupAssumption DEF setup_parse_port
  <2> QED
    BY <1>1, <2>1 DEF ParsePort
<1>2. CASE SignalKills
  BY <1>2 DEF SignalKills
<1>3. CASE UNCHANGED port /\ pc \notin {"port", "exited"}
  BY <1>3
<1>4. CASE AskPassword \/ RejectPassword \/ AcceptPassword \/ Signal
  BY <1>4 DEF AskPassword, RejectPassword, AcceptPassword, Signal
<1>5. (WaylandStep \/ BindStep \/ EpollStep \/ ServiceStep) => pc \notin {"port", "exited"}
  BY DEF WaylandStep, Connect, Roundtrip, CreatePointer, SeatAppears, FreePointer,
     FreeRegistry, BindStep, SocketFails, BindFails, Bind, EpollStep, EpollCtlFails, Epoll,
     ServiceStep, NoService, CreateService, ServiceEpollFails, Announce, FreeAll
<1>6. ControlStep => SignalKills \/ pc \notin {"port", "exited"}
  BY DEF ControlStep, ConnectFails, GetFdFails, GetFd, GetAddressesFails, GetAddresses, BindDone,
     EpollCreateFails, NewContextFails, NewContext, LoopEnds, LoopFails
<1>7. CASE Exited \/ UNCHANGED vars
  BY <1>7 DEF Exited, vars
<1> QED
  BY <1>1, <1>2, <1>3, <1>4, <1>5, <1>6, <1>7, Kinds, Frames DEF PromptStep

LEMMA SocketStep == TypeOK /\ SocketInv /\ [Next]_vars => SocketInv'
<1> SUFFICES ASSUME TypeOK, SocketInv, [Next]_vars PROVE SocketInv'
  OBVIOUS
<1>1. PortSet'
  BY PortStep DEF SocketInv
<1>2. CASE PromptStep \/ WaylandStep \/ ControlStep \/ UNCHANGED vars
  BY <1>1, <1>2, QuietStep DEF SocketInv
<1>3. CASE BindStep
  BY <1>1, <1>3, BindKeeps DEF SocketInv
<1>4. CASE EpollStep
  BY <1>1, <1>4, EpollKeeps DEF SocketInv
<1>5. CASE ServiceStep
  BY <1>1, <1>5, ServiceKeeps DEF SocketInv
<1> QED
  BY <1>2, <1>3, <1>4, <1>5, Kinds DEF Exited

LEMMA SocketInvariant == Spec => [](TypeOK /\ SocketInv)
  BY SocketInit, SocketStep, TypeCorrect, PTL DEF Spec

\* Two labels and net_setup_epoll may close the sockets, but never the same one.
THEOREM ClosedOnce == Spec => []NoDoubleClose
<1>1. SocketInv => NoDoubleClose
  BY DEF SocketInv
<1> QED
  BY <1>1, SocketInvariant, PTL

\* Whatever subset of the addresses could be bound, the loop starts with the
\* sockets of state.socks open and watched, and with a port.
THEOREM ReadyForLoop == Spec => []LoopReady
<1>1. TypeOK /\ SocketInv => LoopReady
  <2> SUFFICES ASSUME TypeOK, SocketInv, pc = "loop"
               PROVE  /\ port \in 1 .. MaxPort
                      /\ SockFds # {}
                      /\ SockFds = {f \in UdpFd : fds[f] = "open"}
                      /\ \A f \in Family : socks[f] # 0 => infos[socks[f]] = f
                      /\ registered = {wl_fd} \cup SockFds \cup service
                      /\ \A f \in service : fds[f] = "open"
    BY DEF LoopReady
  <2>1. port \in 1 .. MaxPort
    BY DEF SocketInv, PortSet
  <2>2. SockFds # {} /\ \A f \in UdpFd : fds[f] = "open" <=> f \in SockFds
    BY DEF SocketInv, UdpOpen, Serving
  <2>3. SockFds \subseteq UdpFd
    BY SockFdsType, Types
  <2>4. \A f \in Family : socks[f] # 0 => infos[socks[f]] = f
    BY DEF SocketInv, Kept
  <2>5. registered = {wl_fd} \cup SockFds \cup service
    BY DEF SocketInv, Watched
  <2>6. service \subseteq MdnsFd
    BY DEF TypeOK
  <2>7. \A f \in service : fds[f] = "open"
    BY <2>6 DEF SocketInv, MdnsOpen
  <2> QED
    BY <2>1, <2>2, <2>3, <2>4, <2>5, <2>7
<1> QED
  BY <1>1, SocketInvariant, PTL

\* Every way out closes every socket, two failed calls apart.
THEOREM NoneLeftOpen == Spec => []SocketsClosed
<1>1. SocketInv => SocketsClosed
  BY DEF SocketInv, Ended, Ending, SocketsClosed
<1> QED
  BY <1>1, SocketInvariant, PTL

\* No way out leaves listeners with a service that is gone.
THEOREM GoodbyeAlways == Spec => []GoodbyeSaid
<1>1. SocketInv => GoodbyeSaid
  BY DEF SocketInv, MdnsOpen, GoodbyeSaid
<1> QED
  BY <1>1, SocketInvariant, PTL


=============================================================================
