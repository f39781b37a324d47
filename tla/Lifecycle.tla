----------------------------- MODULE Lifecycle -----------------------------
(***************************************************************************)
(* main from its first line to its last, with every call that can fail     *)
(* failing: the password prompt, the Wayland globals, the list of          *)
(* addresses net_setup_udp_sockets walks, epoll, the DTLS context, the     *)
(* mDNS service, and the ladder of goto labels that undoes what was done.  *)
(* The loop itself is one label here; Server is what happens there.        *)
(***************************************************************************)
EXTENDS Setup, FiniteSets

CONSTANTS
  Args,      \* the numbers that may be given as port
  MaxInfos,  \* bound: the addresses getaddrinfo returns
  MaxSeats   \* bound: the wl_seat globals the compositor announces

ASSUME LifecycleAssumption ==
  Args \subseteq Int /\ MaxInfos \in Nat \ {0} /\ MaxSeats \in Nat

Family == {"v4", "v6"}

\* Descriptors: a UDP socket for the i-th address, epoll, two mDNS sockets.
UdpFd   == {"udp"} \X (1 .. MaxInfos)
MdnsFd  == {"mdns"} \X {4, 6}
epoll_fd == <<"epoll", 0>>
wl_fd    == <<"wl", 0>>
Fd == UdpFd \cup MdnsFd \cup {epoll_fd}

Seat == {"seat"} \X (1 .. MaxSeats)
manager  == <<"manager", 0>>
registry == <<"registry", 0>>
pointer  == <<"pointer", 0>>
Proxy == Seat \cup {manager, registry, pointer}

VARIABLES
  pc,         \* where main is
  quit,       \* set by the signal handler
  argv,       \* the number given as port, if any
  port,       \* what main takes it for
  typed,      \* history: the line typed at the prompt, <<>> before
  psk_key_len, \* the length of the password, 0 before it is known
  echo,       \* the terminal echoes what is typed
  infos,      \* the families of the addresses getaddrinfo returns
  next,       \* the first address not yet tried
  socks,      \* state.socks: the index of each family's address, 0 for -1
  fds,        \* what became of every descriptor
  registered, \* the descriptors added to epoll
  proxies,    \* the Wayland objects that exist on our side
  seat,       \* state.seat: the set of the proxy it points to, {} for NULL
  service,    \* the mDNS sockets of the service, {} if there is none
  announced,  \* listeners on the network hold our records
  success,    \* main's exit status
  failed      \* the call that sent main to a label, for the properties

password == <<typed, psk_key_len>>
prompt == <<argv, port, password, echo, quit>>
net == <<infos, next, socks, fds, registered>>
wl == <<proxies, seat>>
mdns == <<service, announced>>
end == <<success, failed>>
vars == <<pc, prompt, net, wl, mdns, end>>

TypeOK ==
  /\ pc \in {"port", "password", "fgets", "display", "globals", "pointer", "wl_fd", "addresses",
             "bind", "epoll", "context", "service", "service_epoll", "loop",
             "free_all", "free_pointer", "free_registry", "exited"}
  /\ argv \in Seq(Args) /\ port \in 0 .. MaxPort
  /\ typed \in Line \cup {<<>>} /\ psk_key_len \in 0 .. MaxKeyLen
  /\ quit \in BOOLEAN /\ echo \in BOOLEAN /\ announced \in BOOLEAN /\ success \in BOOLEAN
  /\ infos \in Seq(Family) /\ Len(infos) \in 1 .. MaxInfos
  /\ next \in 1 .. Len(infos) + 1
  /\ socks \in [Family -> 0 .. Len(infos)]
  /\ fds \in [Fd -> {"unused", "open", "closed", "closed twice"}]
  /\ registered \subseteq Fd \cup {wl_fd}
  /\ proxies \subseteq Proxy /\ seat \subseteq Seat
  /\ service \subseteq MdnsFd
  /\ failed \in {"", "signal", "interrupt", "setup_password", "wl_display_connect",
                 "wl_display_roundtrip", "wl_display_get_fd", "getaddrinfo", "bind",
                 "epoll_create1", "epoll_ctl", "dtls_new_context", "loop"}

Init ==
  /\ pc = "port" /\ quit = FALSE /\ echo = TRUE
  /\ argv \in {<<>>} \cup {<<a>> : a \in Args} /\ port = 0
  /\ typed = <<>> /\ psk_key_len = 0
  /\ infos \in UNION {[1 .. n -> Family] : n \in 1 .. MaxInfos} /\ next = 1
  /\ socks = [f \in Family |-> 0]
  /\ fds = [f \in Fd |-> "unused"] /\ registered = {}
  /\ proxies = {} /\ seat = {}
  /\ service = {} /\ announced = FALSE
  /\ success = FALSE /\ failed = ""

Opened(S) == [f \in Fd |-> IF f \in S THEN "open" ELSE fds[f]]
Closed(S) == [f \in Fd |-> IF f \notin S THEN fds[f]
                           ELSE IF fds[f] = "open" THEN "closed" ELSE "closed twice"]

udp(i) == <<"udp", i>>

\* The descriptors in state.socks.
SockFds == {udp(socks[f]) : f \in {f \in Family : socks[f] # 0}}

Goto(label, call) ==
  /\ pc' = label
  /\ failed' = call
  /\ UNCHANGED success

At(label, then) == pc = label /\ pc' = then /\ UNCHANGED end

-----------------------------------------------------------------------------
(***************************************************************************)
(* setup_parse_port, setup_signals and setup_password.                     *)
(***************************************************************************)
ParsePort ==
  /\ At("port", "password")
  /\ port' = setup_parse_port(argv)
  /\ UNCHANGED <<argv, password, echo, quit, net, wl, mdns>>

\* ECHO is cleared if tcsetattr lets it.
AskPassword ==
  /\ At("password", "fgets")
  /\ echo' \in {TRUE, FALSE}
  /\ UNCHANGED <<argv, port, password, quit, net, wl, mdns>>

\* Faulty: ECHO is set again only once the password has been accepted.
RejectPasswordEarly ==
  /\ pc = "fgets" /\ Goto("exited", "setup_password")
  /\ \E l \in Line : Refused(l) /\ typed' = l
  /\ UNCHANGED <<argv, port, psk_key_len, echo, quit, net, wl, mdns>>

\* ECHO is set again; the rest of a line that was too long is thrown away.
RejectPassword ==
  /\ pc = "fgets" /\ Goto("exited", "setup_password")
  /\ \E l \in Line : Refused(l) /\ typed' = l
  /\ echo' = TRUE
  /\ UNCHANGED <<argv, port, psk_key_len, quit, net, wl, mdns>>

AcceptPassword ==
  /\ At("fgets", "display")
  /\ \E l \in Line : ~Refused(l) /\ typed' = l /\ psk_key_len' = strcspn(l)
  /\ echo' = TRUE
  /\ UNCHANGED <<argv, port, quit, net, wl, mdns>>

-----------------------------------------------------------------------------
(***************************************************************************)
(* Wayland.                                                                *)
(***************************************************************************)
ConnectFails ==
  /\ pc = "display" /\ Goto("exited", "wl_display_connect")
  /\ UNCHANGED <<prompt, net, wl, mdns>>

Connect ==
  /\ At("display", "globals")
  /\ proxies' = {registry}
  /\ UNCHANGED <<seat, prompt, net, mdns>>

\* wl_display_roundtrip calls registry_handle_global for each global: every
\* seat is bound, and state.seat is the last of them.
Roundtrip ==
  /\ pc = "globals"
  /\ \E n \in 0 .. MaxSeats, has_manager \in BOOLEAN :
       /\ proxies' = proxies \cup {<<"seat", i>> : i \in 1 .. n}
                             \cup (IF has_manager THEN {manager} ELSE {})
       /\ seat' = IF n = 0 THEN {} ELSE {<<"seat", n>>}
       /\ IF n > 0 /\ has_manager
          THEN pc' = "pointer" /\ UNCHANGED end
          ELSE Goto("free_registry", "wl_display_roundtrip")
  /\ UNCHANGED <<prompt, net, mdns>>

CreatePointer ==
  /\ At("pointer", "wl_fd")
  /\ proxies' = proxies \cup {pointer}
  /\ UNCHANGED <<seat, prompt, net, mdns>>

GetFdFails ==
  /\ pc = "wl_fd" /\ Goto("free_pointer", "wl_display_get_fd")
  /\ UNCHANGED <<prompt, net, wl, mdns>>

GetFd ==
  /\ At("wl_fd", "addresses")
  /\ UNCHANGED <<prompt, net, wl, mdns>>

-----------------------------------------------------------------------------
(***************************************************************************)
(* net_setup_udp_sockets and net_setup_epoll.                              *)
(***************************************************************************)
GetAddressesFails ==
  /\ pc = "addresses" /\ Goto("free_pointer", "getaddrinfo")
  /\ UNCHANGED <<prompt, net, wl, mdns>>

GetAddresses ==
  /\ At("addresses", "bind")
  /\ UNCHANGED <<prompt, net, wl, mdns>>

Count == Cardinality({f \in Family : socks[f] # 0})

MoreInfos == next <= Len(infos) /\ Count < 2

\* socket() fails: nothing to close.
SocketFails ==
  /\ pc = "bind" /\ MoreInfos
  /\ next' = next + 1
  /\ UNCHANGED <<pc, infos, socks, fds, registered, prompt, wl, mdns, end>>

\* setsockopt (IPv6 only) or bind fails: the socket is closed again.
BindFails ==
  /\ pc = "bind" /\ MoreInfos
  /\ next' = next + 1
  /\ fds' = [fds EXCEPT ![udp(next)] = "closed"]
  /\ UNCHANGED <<pc, infos, socks, registered, prompt, wl, mdns, end>>

\* Faulty: a second socket of a family replaces the first.
BindReplaces ==
  /\ pc = "bind" /\ MoreInfos
  /\ next' = next + 1
  /\ socks' = [socks EXCEPT ![infos[next]] = next]
  /\ fds' = [fds EXCEPT ![udp(next)] = "open"]
  /\ UNCHANGED <<pc, infos, registered, prompt, wl, mdns, end>>

\* The first socket of each family is kept, any other is closed.
Bind ==
  /\ pc = "bind" /\ MoreInfos
  /\ next' = next + 1
  /\ IF socks[infos[next]] = 0
     THEN /\ socks' = [socks EXCEPT ![infos[next]] = next]
          /\ fds' = [fds EXCEPT ![udp(next)] = "open"]
     ELSE /\ fds' = [fds EXCEPT ![udp(next)] = "closed"]
          /\ UNCHANGED socks
  /\ UNCHANGED <<pc, infos, registered, prompt, wl, mdns, end>>

BindDone ==
  /\ pc = "bind" /\ ~MoreInfos
  /\ IF Count = 0 THEN Goto("free_pointer", "bind")
                  ELSE pc' = "epoll" /\ UNCHANGED end
  /\ UNCHANGED <<prompt, net, wl, mdns>>

EpollCreateFails ==
  /\ pc = "epoll" /\ Goto("free_pointer", "epoll_create1")
  /\ UNCHANGED <<prompt, net, wl, mdns>>

\* Faulty: main goes to the label that closes the sockets again.
EpollCtlFailsToFreeAll ==
  /\ pc = "epoll" /\ Goto("free_all", "epoll_ctl")
  /\ fds' = [Closed(SockFds) EXCEPT ![epoll_fd] = "closed"]
  /\ registered' = {}
  /\ UNCHANGED <<infos, next, socks, prompt, wl, mdns>>

\* err_close_fds: state.socks keeps the numbers of the closed sockets.
EpollCtlFails ==
  /\ pc = "epoll" /\ Goto("free_pointer", "epoll_ctl")
  /\ fds' = [Closed(SockFds) EXCEPT ![epoll_fd] = "closed"]
  /\ registered' = {}
  /\ UNCHANGED <<infos, next, socks, prompt, wl, mdns>>

Epoll ==
  /\ At("epoll", "context")
  /\ fds' = [fds EXCEPT ![epoll_fd] = "open"]
  /\ registered' = {wl_fd} \cup SockFds
  /\ UNCHANGED <<infos, next, socks, prompt, wl, mdns>>

-----------------------------------------------------------------------------
(***************************************************************************)
(* The DTLS context and the mDNS service.                                  *)
(***************************************************************************)
NewContextFails ==
  /\ pc = "context" /\ Goto("free_pointer", "dtls_new_context")
  /\ UNCHANGED <<prompt, net, wl, mdns>>

NewContext ==
  /\ At("context", "service")
  /\ UNCHANGED <<prompt, net, wl, mdns>>

\* advertise_create_service fails, having closed what it opened: main goes on
\* without.
NoService ==
  /\ At("service", "loop")
  /\ \E S \in SUBSET MdnsFd :
       fds' = [f \in Fd |-> IF f \in S THEN "closed" ELSE fds[f]]
  /\ UNCHANGED <<infos, next, socks, registered, prompt, wl, mdns>>

CreateService ==
  /\ At("service", "service_epoll")
  /\ service' \in (SUBSET MdnsFd) \ {{}}
  /\ fds' = Opened(service')
  /\ UNCHANGED <<infos, next, socks, registered, announced, prompt, wl>>

\* Either mDNS socket may be the one that epoll_ctl refuses.
ServiceEpollFails ==
  /\ pc = "service_epoll" /\ Goto("free_all", "epoll_ctl")
  /\ \E S \in (SUBSET service) \ {service} : registered' = registered \cup S
  /\ UNCHANGED <<infos, next, socks, fds, prompt, wl, mdns>>

\* Faulty: the IPv6 socket of the service is not registered.
AnnounceOneFamily ==
  /\ At("service_epoll", "loop")
  /\ registered' = registered \cup (service \ {<<"mdns", 6>>})
  /\ announced' = TRUE
  /\ UNCHANGED <<service, infos, next, socks, fds, prompt, wl>>

Announce ==
  /\ At("service_epoll", "loop")
  /\ registered' = registered \cup service
  /\ announced' = TRUE
  /\ UNCHANGED <<service, infos, next, socks, fds, prompt, wl>>

-----------------------------------------------------------------------------
(***************************************************************************)
(* The loop, and the way out.                                              *)
(***************************************************************************)
\* wl_display_dispatch calls registry_handle_global for a seat that appears
\* while the loop runs; the pointer stays with the seat it was created for.
SeatAppears ==
  /\ pc = "loop"
  /\ \E s \in Seat \ proxies : proxies' = proxies \cup {s} /\ seat' = {s}
  /\ UNCHANGED <<pc, prompt, net, mdns, end>>

LoopEnds ==
  /\ pc = "loop" /\ quit
  /\ pc' = "free_all" /\ success' = TRUE
  /\ UNCHANGED <<failed, prompt, net, wl, mdns>>

LoopFails ==
  /\ pc = "loop" /\ Goto("free_all", "loop")
  /\ UNCHANGED <<prompt, net, wl, mdns>>

\* Faulty: the service is destroyed without a goodbye.
FreeAllSilently ==
  /\ At("free_all", "free_pointer")
  /\ service' = {}
  /\ fds' = Closed(service \cup SockFds)
  /\ registered' = registered \ (service \cup SockFds)
  /\ UNCHANGED <<announced, infos, next, socks, prompt, wl>>

\* The goodbye, advertise_destroy_service, dtls_free_context and the sockets;
\* closing a descriptor takes it out of epoll.
FreeAll ==
  /\ At("free_all", "free_pointer")
  /\ service' = {}
  /\ announced' = (announced /\ service = {})
  /\ fds' = Closed(service \cup SockFds)
  /\ registered' = registered \ (service \cup SockFds)
  /\ UNCHANGED <<infos, next, socks, prompt, wl>>

\* Faulty: only the first two objects are destroyed.
FreePointerKeepsSeat ==
  /\ At("free_pointer", "free_registry")
  /\ proxies' = proxies \ {pointer, manager}
  /\ UNCHANGED <<seat, prompt, net, mdns>>

FreePointer ==
  /\ At("free_pointer", "free_registry")
  /\ proxies' = proxies \ ({pointer, manager} \cup seat)
  /\ UNCHANGED <<seat, prompt, net, mdns>>

FreeRegistry ==
  /\ At("free_registry", "exited")
  /\ proxies' = proxies \ {registry}
  /\ UNCHANGED <<seat, prompt, net, mdns>>

\* handle_signal.  fgets returns NULL if it is interrupted, unless the signal
\* came before it started to read; before setup_signals the signal kills.
Signal ==
  /\ pc \notin {"port", "exited"}
  /\ quit' = TRUE
  /\ \/ UNCHANGED <<pc, echo, end>>
     \/ pc = "fgets" /\ Goto("exited", "interrupt") /\ echo' = TRUE
  /\ UNCHANGED <<argv, port, password, net, wl, mdns>>

SignalKills ==
  /\ pc = "port" /\ Goto("exited", "signal")
  /\ UNCHANGED <<prompt, net, wl, mdns>>

Exited == pc = "exited" /\ UNCHANGED vars

Startup ==
  \/ ParsePort \/ AskPassword \/ RejectPassword \/ AcceptPassword
  \/ ConnectFails \/ Connect \/ Roundtrip \/ CreatePointer \/ GetFdFails \/ GetFd
  \/ GetAddressesFails \/ GetAddresses \/ SocketFails \/ BindFails \/ Bind \/ BindDone
  \/ EpollCreateFails \/ EpollCtlFails \/ Epoll \/ NewContextFails \/ NewContext
  \/ NoService \/ CreateService \/ ServiceEpollFails \/ Announce

Shutdown == LoopEnds \/ LoopFails \/ FreeAll \/ FreePointer \/ FreeRegistry

Next == Startup \/ SeatAppears \/ Shutdown \/ Signal \/ SignalKills \/ Exited

Spec == Init /\ [][Next]_vars

-----------------------------------------------------------------------------
(***************************************************************************)
(* Properties.                                                             *)
(***************************************************************************)

\* The terminal echoes again on every path, signals and refused passwords
\* included, once the prompt is over (setup_password calls exit itself).
EchoRestored == pc # "fgets" => echo

\* The passwords of 1 to MaxKeyLen characters are accepted and no others, and
\* net_get_psk_info, which has room for MaxKeyLen, gets all of what was typed.
\* Only a NUL that is typed shortens a password.
PasswordWhole ==
  typed # <<>> /\ typed.nul = 0 =>
    /\ failed = "setup_password" <=> typed.n \notin 1 .. MaxKeyLen
    /\ psk_key_len = IF failed = "setup_password" THEN 0 ELSE typed.n

\* No descriptor is closed twice, though net_setup_epoll closes sockets that
\* state.socks goes on naming and two labels could close them again.
NoDoubleClose == \A f \in Fd : fds[f] # "closed twice"

\* In the loop: the sockets of state.socks are the UDP sockets that are open,
\* at least one and each of its family, and epoll watches exactly these, the
\* Wayland connection and the service's sockets.  The port they are bound to
\* and the service announces is not 0, which would bind to any.
LoopReady ==
  pc = "loop" =>
    /\ port \in 1 .. MaxPort
    /\ SockFds # {}
    /\ SockFds = {f \in UdpFd : fds[f] = "open"}
    /\ \A f \in Family : socks[f] # 0 => infos[socks[f]] = f
    /\ registered = {wl_fd} \cup SockFds \cup service
    /\ \A f \in service : fds[f] = "open"

\* Only two calls leave UDP sockets to the end of the process when they fail;
\* every other path out of main closes all sockets it opened.
SocketsClosed ==
  pc = "exited" /\ failed \notin {"epoll_create1", "dtls_new_context"} =>
    \A f \in UdpFd \cup MdnsFd : fds[f] # "open"

\* Listeners that were told of the service are told of its end, also when the
\* loop fails or a signal comes during startup.
GoodbyeSaid == pc = "exited" => ~announced

\* The virtual pointer, its manager and its seat are destroyed before the
\* connection; what remains are seats that a later seat replaced, and the one
\* global that was there when the other was missing.
ProxiesDestroyed ==
  pc = "exited" /\ failed # "wl_display_roundtrip" =>
    proxies \subseteq Seat \ seat

=============================================================================
