------------------------------- MODULE Server -------------------------------
(***************************************************************************)
(* The wlr-remote process from its first test of quit to its exit: main's  *)
(* epoll loop and cleanup, the receive loop of net_handle_epoll, the DTLS  *)
(* callbacks, and the requests they leave for the compositor; around it    *)
(* the kernel's queues, the clients, mDNS queriers, the compositor and     *)
(* the signal handler, which act between any two of its steps.             *)
(*                                                                         *)
(* One action is one pass through the code between two points where the    *)
(* environment can make a difference: a system call or a test of quit.     *)
(***************************************************************************)
EXTENDS VirtualPointer, FiniteSets, Functions

CONSTANTS
  Client,       \* peers, each with its own address
  Family,       \* "v4", "v6": the address families
  Fam,          \* the family of each client's address
  Cred,         \* the identity string and key each client presents
  PSK_ID, psk_key,        \* the server's own
  psk_key_len, MaxKeyLen, \* its length, and the room tinydtls has for a key
  MdnsSock,     \* the mDNS sockets of the advertised service
  Bodies,       \* the record contents that clients send
  Noise,        \* which datagrams without meaning arrive: "junk", "oversize"
  MAX_EVENTS,   \* the events one epoll_wait can return
  RxCap,        \* datagrams a UDP socket can hold
  WlCap,        \* requests the Wayland socket can hold
  MaxSend,      \* bound: records each client sends
  MaxArrivals   \* bound: datagrams, queries and Wayland events that arrive

Credential == [id: STRING, key: STRING]

\* What net_get_psk_info answers instead of a key.
Alert == {"INTERNAL_ERROR", "ILLEGAL_PARAMETER"}

ASSUME ServerAssumption ==
  /\ Fam \in [Client -> Family]
  /\ Cred \in [Client -> Credential]
  /\ psk_key \notin Alert /\ \A c \in Client : Cred[c].key \notin Alert
  /\ psk_key_len \in Nat /\ MaxKeyLen \in Nat
  /\ Bodies \subseteq Body
  /\ Noise \subseteq {"junk", "oversize"}
  /\ "wl" \notin Family /\ MdnsSock \cap (Family \cup {"wl"}) = {}
  /\ MAX_EVENTS \in Nat \ {0} /\ RxCap \in Nat \ {0} /\ WlCap \in Nat \ {0}
  /\ MaxSend \in Nat /\ MaxArrivals \in Nat

Paired == {c \in Client : Cred[c].id = PSK_ID /\ Cred[c].key = psk_key}

VARIABLES
  pc,        \* where main is
  quit,      \* set by the signal handler
  late,      \* history: quit was set after main tested it and before epoll_wait
  success,   \* main's exit status
  batch,     \* events[i .. ready - 1]: the descriptors still to be handled
  open,      \* the families whose UDP socket is open
  rx,        \* the datagrams each UDP socket holds
  sessions,  \* tinydtls: the state of each peer
  epoch,     \* tinydtls: how many handshakes each peer has completed
  keys,      \* the last of them the client knows to be complete, 0 for none
  sent,      \* the records clients have protected and sent
  applied,   \* the records tinydtls has delivered to the callbacks
  out,       \* what the last step handed to sendto
  stream,    \* all requests made of the virtual pointer
  flushed,   \* how many of them have left for the compositor
  consumed,  \* how many the compositor has read
  full,      \* history: the last flush of main's loop filled the Wayland socket
  wl,        \* what the Wayland socket has for us
  service,   \* the mDNS service: "none" if it could not be created
  queries,   \* the queries each mDNS socket holds
  arrivals   \* what has arrived so far

loop == <<pc, quit, late, success, batch>>
dtls == <<sessions, epoch, keys, applied>>
wayland == <<stream, flushed, consumed, full, wl>>
mdns == <<service, queries>>
udp == <<open, rx, sent, arrivals>>
vars  == <<loop, dtls, wayland, mdns, udp, out>>

\* The abstract server: its peers are the paired clients, its state is part of
\* ours, and everything else is detail.
RP == INSTANCE RemotePointer
        WITH Client <- Client, Paired <- Paired,
             sent <- sent, applied <- applied, stream <- stream

Plain == [kind: {"hello", "key", "junk", "oversize"}, from: Client]
Datagram == Plain \cup RP!Record
SendResult == {"sent", "pretended", "failed"}
Attempt == [to: Client, kind: {"flight", "finished", "alert"},
            sock: Family, res: SendResult]

LoopType ==
  /\ pc \in {"check", "flush", "enter", "wait", "batch", "drain",
             "free", "close", "exited"}
  /\ quit \in BOOLEAN /\ late \in BOOLEAN /\ success \in BOOLEAN
  /\ batch \in Seq({"wl"} \cup Family \cup MdnsSock)
  /\ pc = "drain" => batch # <<>> /\ Head(batch) \in open

NetType ==
  /\ open \subseteq Family
  /\ rx \in [Family -> Seq(Datagram)]
  /\ sent \subseteq RP!Record /\ applied \subseteq sent
  /\ out \subseteq Attempt
  /\ arrivals \in Nat

DtlsType ==
  /\ sessions \in [Client -> {"none", "handshake", "connected"}]
  /\ epoch \in [Client -> Nat] /\ keys \in [Client -> Nat]

WaylandType ==
  /\ stream \in Seq(Request)
  /\ flushed \in 0 .. Len(stream) /\ consumed \in 0 .. flushed
  /\ full \in BOOLEAN /\ wl \in {"idle", "events", "gone"}

MdnsType ==
  /\ service \in {"none", "announced", "gone"}
  /\ queries \in [MdnsSock -> Nat]

TypeOK == LoopType /\ NetType /\ DtlsType /\ WaylandType /\ MdnsType

\* main reaches the loop with at least one UDP socket; advertising the
\* service is optional, so it may be there or not.
Init ==
  /\ pc = "check" /\ quit \in BOOLEAN /\ late = FALSE
  /\ success = FALSE /\ batch = <<>>
  /\ open \in (SUBSET Family) \ {{}}
  /\ rx = [s \in Family |-> <<>>]
  /\ sessions = [c \in Client |-> "none"]
  /\ epoch = [c \in Client |-> 0] /\ keys = [c \in Client |-> 0]
  /\ sent = {} /\ applied = {} /\ out = {}
  /\ stream = <<>> /\ flushed = 0 /\ consumed = 0 /\ full = FALSE
  /\ wl = "idle"
  /\ service \in {"none", "announced"}
  /\ queries = [m \in MdnsSock |-> 0]
  /\ arrivals = 0

-----------------------------------------------------------------------------
(***************************************************************************)
(* The event loop of main.                                                 *)
(***************************************************************************)

\* while (!quit), and the assignment after the loop.
CheckQuit ==
  /\ pc = "check"
  /\ pc' = IF quit THEN "free" ELSE "flush"
  /\ success' = quit
  /\ late' = FALSE
  /\ out' = {}
  /\ UNCHANGED <<quit, batch, dtls, wayland, mdns, udp>>

\* Faulty: main sleeps without having flushed.
DispatchWithoutFlush ==
  /\ pc = "flush"
  /\ full' = (flushed >= consumed + WlCap)
  /\ pc' = "enter"
  /\ out' = {}
  /\ UNCHANGED <<quit, late, success, batch, stream, flushed, consumed, wl,
                 dtls, mdns, udp>>

\* Faulty: once a flush has filled the socket the next one is not tried.
FlushGivesUp ==
  /\ pc = "flush"
  /\ \/ (full \/ wl = "gone") /\ flushed' = flushed
     \/ ~full /\ wl # "gone" /\ flushed' = IF Len(stream) <= consumed + WlCap
                                           THEN Len(stream) ELSE consumed + WlCap
  /\ full' = (flushed' >= consumed + WlCap)
  /\ pc' = "enter"
  /\ out' = {}
  /\ UNCHANGED <<quit, late, success, batch, stream, consumed, wl, dtls, mdns, udp>>

\* Faulty: counts what there was room for as written.
FlushOvercounts ==
  /\ pc = "flush"
  /\ flushed' = consumed + WlCap
  /\ full' = TRUE
  /\ pc' = "enter"
  /\ out' = {}
  /\ UNCHANGED <<quit, late, success, batch, stream, consumed, wl, dtls, mdns, udp>>

\* wl_display_flush writes what the socket has room for, or nothing if the
\* compositor is gone; main goes on either way.
DispatchAndFlush ==
  /\ pc = "flush"
  /\ \/ wl = "gone" /\ flushed' = flushed
     \/ wl # "gone" /\ flushed' = IF Len(stream) <= consumed + WlCap
                                  THEN Len(stream) ELSE consumed + WlCap
  /\ full' = (flushed' >= consumed + WlCap)
  /\ pc' = "enter"
  /\ out' = {}
  /\ UNCHANGED <<quit, late, success, batch, stream, consumed, wl, dtls, mdns, udp>>

\* The call of epoll_wait: a signal that came before it does not interrupt it.
EnterWait ==
  /\ pc = "enter"
  /\ pc' = "wait"
  /\ out' = {}
  /\ UNCHANGED <<quit, late, success, batch, dtls, wayland, mdns, udp>>

\* Faulty: net_setup_epoll leaves out the IPv6 socket, or
\* advertise_setup_epoll is not called.
ReadyWithoutV6 ==
       {f \in {"wl"} : wl # "idle"}
  \cup {s \in open \ {"v6"} : rx[s] # <<>>}
  \cup {m \in MdnsSock : service = "announced" /\ queries[m] > 0}
ReadyWithoutMdns ==
       {f \in {"wl"} : wl # "idle"} \cup {s \in open : rx[s] # <<>>}

\* The registered descriptors that are readable.
Ready ==
       {f \in {"wl"} : wl # "idle"}
  \cup {s \in open : rx[s] # <<>>}
  \cup {m \in MdnsSock : service = "announced" /\ queries[m] > 0}

\* Up to MAX_EVENTS ready descriptors in any order, all of them if they fit.
Returned(b) ==
  /\ IsInjective(b)
  /\ Len(b) = MAX_EVENTS \/ Ready \subseteq Range(b)

EpollReturns ==
  /\ pc = "wait"
  /\ \E n \in 1 .. MAX_EVENTS : \E b \in [1 .. n -> Ready] :
       Returned(b) /\ batch' = b
  /\ pc' = "batch"
  /\ out' = {}
  /\ UNCHANGED <<quit, late, success, dtls, wayland, mdns, udp>>

EpollFails ==
  /\ pc = "wait"
  /\ pc' = "free"
  /\ out' = {}
  /\ UNCHANGED <<quit, late, success, batch, dtls, wayland, mdns, udp>>

\* Faulty: the batch is abandoned as soon as quit is set.
BatchDoneOnQuit ==
  /\ pc = "batch" /\ (batch = <<>> \/ quit)
  /\ pc' = "check"
  /\ out' = {}
  /\ UNCHANGED <<quit, late, success, batch, dtls, wayland, mdns, udp>>

BatchDone ==
  /\ pc = "batch" /\ batch = <<>>
  /\ pc' = "check"
  /\ out' = {}
  /\ UNCHANGED <<quit, late, success, batch, dtls, wayland, mdns, udp>>

\* wl_display_dispatch first writes everything there is to write, waiting for
\* room if it must, and then reads.
DispatchWayland ==
  /\ pc = "batch" /\ batch # <<>> /\ Head(batch) = "wl"
  /\ wl # "gone" /\ Len(stream) <= consumed + WlCap
  /\ flushed' = Len(stream)
  /\ wl' = "idle"
  /\ batch' = Tail(batch)
  /\ out' = {}
  /\ UNCHANGED <<pc, quit, late, success, stream, consumed, full, dtls, mdns, udp>>

DispatchWaylandFails ==
  /\ pc = "batch" /\ batch # <<>> /\ Head(batch) = "wl"
  /\ wl = "gone"
  /\ pc' = "free"
  /\ out' = {}
  /\ UNCHANGED <<quit, late, success, batch, dtls, wayland, mdns, udp>>

HandleSocket ==
  /\ pc = "batch" /\ batch # <<>> /\ Head(batch) \in open
  /\ pc' = "drain"
  /\ out' = {}
  /\ UNCHANGED <<quit, late, success, batch, dtls, wayland, mdns, udp>>

\* advertise_respond_request takes one datagram; epoll reports the rest again.
RespondRequest ==
  /\ pc = "batch" /\ batch # <<>> /\ Head(batch) \in MdnsSock
  /\ queries' = [queries EXCEPT ![Head(batch)] = IF @ > 0 THEN @ - 1 ELSE 0]
  /\ batch' = Tail(batch)
  /\ out' = {}
  /\ UNCHANGED <<pc, quit, late, success, service, dtls, wayland, udp>>

-----------------------------------------------------------------------------
(***************************************************************************)
(* net_handle_epoll: receive on the socket at the head of the batch until  *)
(* it is empty, and hand each datagram to tinydtls, which calls            *)
(* net_get_psk_info, net_handle_receive and net_handle_send.  tinydtls is  *)
(* not part of the repository: what it does with a datagram is what these  *)
(* callbacks rely on, and where they rely on nothing, either outcome is    *)
(* possible.                                                               *)
(***************************************************************************)
sock == Head(batch)

\* net_handle_send: the socket of the peer's family, which may not be open; a
\* socket without room counts as a success ("pretended").
net_handle_send(c, kind, res) ==
  [to |-> c, kind |-> kind, sock |-> Fam[c], res |-> res]

Results(c) == IF Fam[c] \in open THEN SendResult ELSE {"failed"}

\* Faulty: the identity is not compared.
AnyIdentity(id) == IF MaxKeyLen < psk_key_len THEN "INTERNAL_ERROR" ELSE psk_key

\* Faulty: a key that just fits is refused.
KeyMustBeShorter(id) ==
  IF id # PSK_ID THEN "ILLEGAL_PARAMETER"
  ELSE IF MaxKeyLen <= psk_key_len THEN "INTERNAL_ERROR"
  ELSE psk_key

\* The key for a peer that presents this identity, or an alert.
net_get_psk_info(id) ==
  IF id # PSK_ID THEN "ILLEGAL_PARAMETER"
  ELSE IF MaxKeyLen < psk_key_len THEN "INTERNAL_ERROR"
  ELSE psk_key

\* dtls_handle_message returned: an error ends the receive loop and main's.
Continue == pc' = "drain"
Abort    == pc' = "free"

RecvEmpty ==
  /\ pc = "drain" /\ rx[sock] = <<>>
  /\ batch' = Tail(batch)
  /\ pc' = "batch"
  /\ out' = {}
  /\ UNCHANGED <<quit, late, success, dtls, wayland, mdns, udp>>

RecvFails ==
  /\ pc = "drain"
  /\ Abort
  /\ out' = {}
  /\ UNCHANGED <<quit, late, success, batch, dtls, wayland, mdns, udp>>

\* A datagram is taken from the socket; what is done with it is left open.
Take(d) ==
  /\ pc = "drain" /\ rx[sock] # <<>> /\ d = Head(rx[sock])
  /\ rx' = [rx EXCEPT ![sock] = Tail(@)]
  /\ UNCHANGED <<quit, late, success, batch, open, sent, arrivals, mdns>>

RecvOversize(d) ==
  /\ Take(d) /\ d.kind = "oversize"
  /\ Continue
  /\ out' = {}
  /\ UNCHANGED <<dtls, wayland>>

\* A handshake starts, over again if there was one; the server answers.
HandleHello(d) ==
  /\ Take(d) /\ d.kind = "hello"
  /\ sessions' = [sessions EXCEPT ![d.from] = "handshake"]
  /\ \E res \in Results(d.from) :
       /\ out' = {net_handle_send(d.from, "flight", res)}
       /\ IF res = "failed" THEN Abort ELSE Continue
  /\ UNCHANGED <<epoch, keys, applied, wayland>>

KeyMatches(c) == net_get_psk_info(Cred[c].id) = Cred[c].key

\* The client's key exchange and Finished, made with the key it has.  It knows
\* the handshake to be complete only if the server's Finished leaves the host.
HandleKey(d) ==
  /\ Take(d) /\ d.kind = "key"
  /\ sessions[d.from] = "handshake" /\ KeyMatches(d.from)
  /\ sessions' = [sessions EXCEPT ![d.from] = "connected"]
  /\ epoch' = [epoch EXCEPT ![d.from] = @ + 1]
  /\ \E res \in Results(d.from) :
       /\ out' = {net_handle_send(d.from, "finished", res)}
       /\ keys' = IF res = "sent" THEN [keys EXCEPT ![d.from] = epoch'[d.from]]
                                  ELSE keys
       /\ IF res = "failed" THEN Abort ELSE Continue
  /\ UNCHANGED <<applied, wayland>>

\* The alert of net_get_psk_info, or a Finished that does not verify.
RejectKey(d) ==
  /\ Take(d) /\ d.kind = "key"
  /\ sessions[d.from] = "handshake" /\ ~KeyMatches(d.from)
  /\ sessions' = [sessions EXCEPT ![d.from] = "none"]
  /\ \E res \in Results(d.from) :
       out' = {net_handle_send(d.from, "alert", res)}
  /\ Continue \/ Abort
  /\ UNCHANGED <<epoch, keys, applied, wayland>>

\* Record protection: of this session, and not seen before.
Accepts(d) == /\ sessions[d.from] = "connected"
              /\ d.ep = epoch[d.from]
              /\ d \notin applied

\* Faulty: a packet is dropped when the Wayland buffer looks full, though the
\* record counts as handled.
HandleDataDrops(d) ==
  /\ Take(d) /\ d.kind = "data" /\ Accepts(d)
  /\ applied' = applied \cup {d}
  /\ stream' = IF Len(stream) - flushed >= WlCap THEN stream
               ELSE stream \o net_handle_receive(d.body)
  /\ Continue
  /\ out' = {}
  /\ UNCHANGED <<sessions, epoch, keys, flushed, consumed, full, wl>>

HandleData(d) ==
  /\ Take(d) /\ d.kind = "data" /\ Accepts(d)
  /\ applied' = applied \cup {d}
  /\ stream' = stream \o net_handle_receive(d.body)
  /\ Continue
  /\ out' = {}
  /\ UNCHANGED <<sessions, epoch, keys, flushed, consumed, full, wl>>

\* close_notify: tinydtls answers in kind and forgets the peer.
HandleClose(d) ==
  /\ Take(d) /\ d.kind = "close" /\ Accepts(d)
  /\ applied' = applied \cup {d}
  /\ sessions' = [sessions EXCEPT ![d.from] = "none"]
  /\ \E res \in Results(d.from) :
       /\ out' = {net_handle_send(d.from, "alert", res)}
       /\ Continue \/ (res = "failed" /\ Abort)
  /\ UNCHANGED <<epoch, keys, wayland>>

\* What tinydtls cannot make sense of in the state the peer is in.
Reject(d) ==
  /\ Take(d)
  /\ \/ d.kind = "junk"
     \/ d.kind = "key" /\ sessions[d.from] # "handshake"
     \/ d.kind \in {"data", "close"} /\ ~Accepts(d)
  /\ Continue \/ Abort
  /\ out' = {}
  /\ UNCHANGED <<dtls, wayland>>

Receive == \E d \in Plain \cup sent :
  \/ RecvOversize(d) \/ HandleHello(d) \/ HandleKey(d) \/ RejectKey(d)
  \/ HandleData(d) \/ HandleClose(d) \/ Reject(d)

-----------------------------------------------------------------------------
(***************************************************************************)
(* err_free_all and what follows it.                                       *)
(***************************************************************************)

\* Faulty: the sockets are closed before dtls_free_context sends on them.
FreeContextLate ==
  /\ pc = "free"
  /\ service' = IF service = "announced" THEN "gone" ELSE service
  /\ open' = {}
  /\ out' = {net_handle_send(c, "alert", "failed") :
               c \in {c \in Client : sessions[c] = "connected"}}
  /\ sessions' = [c \in Client |-> "none"]
  /\ pc' = "close"
  /\ UNCHANGED <<quit, late, success, batch, epoch, keys, applied, queries,
                 wayland, rx, sent, arrivals>>

\* Faulty: the context is dropped without closing its sessions.
FreeContextSilently ==
  /\ pc = "free"
  /\ service' = IF service = "announced" THEN "gone" ELSE service
  /\ out' = {}
  /\ sessions' = [c \in Client |-> "none"]
  /\ pc' = "close"
  /\ UNCHANGED <<quit, late, success, batch, epoch, keys, applied, queries,
                 wayland, udp>>

\* The goodbye; then dtls_free_context closes the session of every peer.
FreeContext ==
  /\ pc = "free"
  /\ service' = IF service = "announced" THEN "gone" ELSE service
  /\ \E res \in [Client -> SendResult] :
       /\ \A c \in Client : res[c] \in Results(c)
       /\ out' = {net_handle_send(c, "alert", res[c]) :
                     c \in {c \in Client : sessions[c] = "connected"}}
  /\ sessions' = [c \in Client |-> "none"]
  /\ pc' = "close"
  /\ UNCHANGED <<quit, late, success, batch, epoch, keys, applied, queries, wayland, udp>>

CloseSockets ==
  /\ pc = "close"
  /\ open' = {}
  /\ pc' = "exited"
  /\ out' = {}
  /\ UNCHANGED <<quit, late, success, batch, rx, sent, arrivals, dtls, wayland, mdns>>

-----------------------------------------------------------------------------
(***************************************************************************)
(* The environment.                                                        *)
(***************************************************************************)

\* Faulty: an epoll_wait that was interrupted is called again at once.
SignalRestarts ==
  /\ pc # "exited"
  /\ quit' = TRUE
  /\ late' = (late \/ pc \in {"flush", "enter"})
  /\ UNCHANGED <<pc, success, batch, dtls, wayland, mdns, udp, out>>

\* handle_signal.  It interrupts an epoll_wait that has nothing to report
\* (EINTR, continue); one that has something may return that instead.
Signal ==
  /\ pc # "exited"
  /\ quit' = TRUE
  /\ late' = (late \/ pc \in {"flush", "enter"})
  /\ pc' \in IF pc # "wait" THEN {pc} ELSE IF Ready = {} THEN {"check"}
                                                       ELSE {"check", "wait"}
  /\ UNCHANGED <<success, batch, dtls, wayland, mdns, udp, out>>

\* A client that knows its handshake to be complete protects a record.
ClientSends ==
  \E c \in Client, b \in Bodies, k \in {"data", "close"} :
    /\ keys[c] > 0
    /\ \E n \in 1 .. MaxSend :
         /\ n = Cardinality({r \in sent : r.from = c}) + 1
         /\ sent' = sent \cup
              {[kind |-> k, from |-> c, ep |-> keys[c], n |-> n, body |-> b]}
    /\ UNCHANGED <<loop, dtls, wayland, mdns, open, rx, arrivals, out>>

\* A datagram reaches its socket: whatever was sent may arrive late, more than
\* once, in another order, or never.
Deliver ==
  \E d \in Plain \cup sent :
    /\ d.kind \in {"junk", "oversize"} => d.kind \in Noise
    /\ arrivals < MaxArrivals
    /\ Fam[d.from] \in open /\ Len(rx[Fam[d.from]]) < RxCap
    /\ rx' = [rx EXCEPT ![Fam[d.from]] = Append(@, d)]
    /\ arrivals' = arrivals + 1
    /\ UNCHANGED <<loop, dtls, wayland, mdns, open, sent, out>>

QueryArrives ==
  /\ arrivals < MaxArrivals /\ service = "announced"
  /\ \E m \in MdnsSock : queries' = [queries EXCEPT ![m] = @ + 1]
  /\ arrivals' = arrivals + 1
  /\ UNCHANGED <<loop, dtls, wayland, service, open, rx, sent, out>>

CompositorReads ==
  /\ wl # "gone" /\ consumed < flushed
  /\ consumed' = consumed + 1
  /\ UNCHANGED <<loop, dtls, stream, flushed, full, wl, mdns, udp, out>>

\* The compositor sends an event, or closes the connection.
CompositorSends ==
  /\ arrivals < MaxArrivals /\ wl # "gone" /\ pc # "exited"
  /\ wl' \in {"events", "gone"}
  /\ arrivals' = arrivals + 1
  /\ UNCHANGED <<loop, dtls, stream, flushed, consumed, full, mdns, open, rx,
                 sent, out>>

Exited == pc = "exited" /\ UNCHANGED vars

-----------------------------------------------------------------------------
Loop == CheckQuit \/ DispatchAndFlush \/ EnterWait \/ EpollReturns
          \/ EpollFails \/ BatchDone

Handlers == DispatchWayland \/ DispatchWaylandFails \/ HandleSocket
              \/ RespondRequest \/ RecvEmpty \/ RecvFails \/ Receive

Cleanup == FreeContext \/ CloseSockets

Environment == Signal \/ ClientSends \/ Deliver \/ QueryArrives
                 \/ CompositorReads \/ CompositorSends

Process == Loop \/ Handlers \/ Cleanup

Next == Process \/ Environment \/ Exited

Spec == Init /\ [][Next]_vars

\* The process is scheduled, and the compositor reads its socket.  That
\* epoll_wait or recvfrom fails is possible at any time but never due: it is
\* not what ends a wait that nothing else ends.
Scheduled == CheckQuit \/ DispatchAndFlush \/ EnterWait \/ EpollReturns
               \/ BatchDone \/ DispatchWayland \/ DispatchWaylandFails
               \/ HandleSocket \/ RespondRequest \/ RecvEmpty \/ Receive
               \/ Cleanup

Fairness == WF_vars(Scheduled) /\ WF_vars(CompositorReads)

FairSpec == Spec /\ Fairness

-----------------------------------------------------------------------------
(***************************************************************************)
(* Safety.                                                                 *)
(***************************************************************************)

\* Only a client that presented PSK_ID and the password ever completes a
\* handshake, knows of one, or moves the pointer (net_get_psk_info decides for
\* every later record, which carries no identity of its own).
OnlyPaired ==
  /\ \A c \in Client : sessions[c] = "connected" \/ keys[c] > 0 => c \in Paired
  /\ \A r \in applied : r.from \in Paired

\* The stream is a sequence of complete frames whatever packets were applied
\* in whatever order (vp_handle_packet's early returns and zero motions), and
\* whatever interrupted the loop.
FramesComplete == WellFramed(stream)

\* main never goes to sleep on requests it could have written: those made by
\* any handler of the last batch, and what an earlier flush had to leave behind,
\* were flushed, unless that filled the socket of a compositor which had not
\* read what it was sent before, or there is no compositor any more.
WaitsFlushed ==
  pc = "wait" => flushed = Len(stream) \/ full \/ wl = "gone"

\* net_handle_send uses the socket of the peer's family without testing it
\* for -1, and dtls_free_context still sends during cleanup: a datagram is
\* only ever handed to a socket that is open.
SendsOnOpenSocket == \A t \in out : t.sock \in open

\* A session that ends by either side's close, by rejection or by any exit
\* path of main is announced to its client: no peer is dropped silently.
ClosesAreAnnounced ==
  [][\A c \in Client : sessions[c] = "connected" /\ sessions'[c] = "none" =>
       \E t \in out' : t.to = c /\ t.kind = "alert"]_vars

\* Exit status, cleanup and shutdown reasons agree: the process reports success
\* only when it was asked to quit and had handled every event it was given,
\* and it does not exit with a session, a socket or an announcement left.
CleanExit ==
  /\ success => quit /\ batch = <<>>
  /\ pc = "exited" => /\ open = {} /\ service # "announced"
                      /\ \A c \in Client : sessions[c] = "none"

\* Applied in any order, lost or repeated, the records drive the compositor as
\* RemotePointer promises.
Refines == RP!Spec

(***************************************************************************)
(* The strengthenings of these that every step preserves.                  *)
(***************************************************************************)

\* Nobody else gets as far as protecting a record.
PairedInv == OnlyPaired /\ \A r \in sent : r.from \in Paired

\* Between flush and epoll_wait nothing is asked of the compositor.
FlushInv ==
  pc \in {"enter", "wait"} => flushed = Len(stream) \/ full \/ wl = "gone"

\* A socket holds datagrams of its own family, and sessions exist only with
\* peers of an open socket.
RouteInv ==
  /\ \A s \in Family : \A i \in 1 .. Len(rx[s]) : Fam[rx[s][i].from] = s
  /\ \A c \in Client : sessions[c] = "connected" => Fam[c] \in open
  /\ SendsOnOpenSocket

\* Success is decided by the test of quit alone, between two batches; after
\* dtls_free_context there are no sessions and no service.
ExitInv ==
  /\ pc \in {"check", "flush", "enter", "wait"} => batch = <<>>
  /\ success => quit /\ batch = <<>> /\ pc \in {"free", "close", "exited"}
  /\ pc \in {"close", "exited"} => /\ service # "announced"
                                  /\ \A c \in Client : sessions[c] = "none"
  /\ pc = "exited" => open = {}

(***************************************************************************)
(* Liveness.                                                               *)
(***************************************************************************)

\* A signal ends the process, whatever main is doing when it comes, unless it
\* comes in the few instructions between the test of quit and epoll_wait (late):
\* then main may sleep on it until something else wakes it.
QuitHeeded == quit /\ ~late ~> pc = "exited"

\* A datagram in a socket is taken from it, or the process ends: none is left
\* behind by a full batch, by the end of the receive loop, or by a wakeup that
\* reported another descriptor.
DatagramsTaken ==
  \A s \in Family : rx[s] # <<>> ~> rx[s] = <<>> \/ pc = "exited"

\* Likewise the queries, of which one is taken per wakeup.
QueriesTaken ==
  \A m \in MdnsSock : queries[m] > 0 ~> queries[m] = 0 \/ pc = "exited"

\* What was asked of the compositor reaches it without another event having
\* to occur, as long as its socket has room for it.
RequestsShown ==
  Len(stream) > consumed ~>
    consumed = Len(stream) \/ wl = "gone" \/ pc \in {"free", "close", "exited"}

=============================================================================
