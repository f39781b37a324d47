---------------------------- MODULE ServerProofs ----------------------------
(***************************************************************************)
(* Theorems about Server, for every set of clients and credentials, every  *)
(* capacity and every bound.                                               *)
(***************************************************************************)
EXTENDS Server, TLAPS

-----------------------------------------------------------------------------
(***************************************************************************)
(* Lemmas about what one packet asks for.                                  *)
(***************************************************************************)

\* A fixed-point number is a number.
LEMMA FixedType == ASSUME NEW i \in Int PROVE wl_fixed_from_int(i) \in Int
  BY VPAssumption DEF wl_fixed_from_int, Wrap

\* Decoding keeps the fields in the ranges of struct mouse_packet.
LEMMA DecodeType == ASSUME NEW b \in Body PROVE Decode(b) \in mouse_packet
  BY VPAssumption DEF Body, Decode, mouse_packet, Signed, int32_t

\* The parts of a frame are requests.
LEMMA PartsType ==
  ASSUME NEW p \in mouse_packet, p.button_state <= 1, p.button \in Button \cup {0}
  PROVE  /\ ButtonRequest(p) \in Seq(Request)
         /\ MotionRequest(p) \in Seq(Request)
         /\ <<[req |-> "frame"]>> \in Seq(Request)
<1>1. p.dx \in Int /\ p.dy \in Int /\ p.button \in Nat /\ p.button_state \in {0, 1}
  BY VPAssumption DEF mouse_packet, int32_t
<1>2. ButtonRequest(p) \in Seq(Request)
  <2>1. CASE p.button = 0
    BY <2>1 DEF ButtonRequest
  <2>2. CASE p.button # 0
    <3>1. [req |-> "button", button |-> p.button, state |-> p.button_state] \in Request
      BY <1>1, <2>2 DEF Request
    <3>. QED BY <2>2, <3>1 DEF ButtonRequest
  <2>. QED BY <2>1, <2>2
<1>3. wl_fixed_from_int(p.dx) \in Int /\ wl_fixed_from_int(p.dy) \in Int
  BY <1>1, FixedType
<1>4. [req |-> "motion", dx |-> wl_fixed_from_int(p.dx),
                         dy |-> wl_fixed_from_int(p.dy)] \in Request
  BY <1>3 DEF Request
<1>5. MotionRequest(p) \in Seq(Request)
  BY <1>4 DEF MotionRequest
<1>6. <<[req |-> "frame"]>> \in Seq(Request)
  BY DEF Request
<1>. QED BY <1>2, <1>5, <1>6

\* Whatever a record contains, it asks for a sequence of requests.
LEMMA ReceiveType ==
  ASSUME NEW b \in Body PROVE net_handle_receive(b) \in Seq(Request)
<1>1. Decode(b) \in mouse_packet
  BY DecodeType
<1>. DEFINE p == Decode(b)
<1>2. ASSUME NEW q \in mouse_packet PROVE vp_handle_packet(q) \in Seq(Request)
  <2>1. CASE q.button_state > 1 \/ q.button \notin Button \cup {0}
    BY <2>1 DEF vp_handle_packet
  <2>2. CASE q.button_state <= 1 /\ q.button \in Button \cup {0}
    BY <2>2, PartsType DEF vp_handle_packet, mouse_packet
  <2>. QED BY <2>1, <2>2 DEF mouse_packet
<1>. QED BY <1>1, <1>2 DEF net_handle_receive

-----------------------------------------------------------------------------
(***************************************************************************)
(* Type correctness.                                                       *)
(***************************************************************************)

\* The initial states are well typed.
LEMMA TypeInit == Init => TypeOK
<1>. SUFFICES ASSUME Init PROVE TypeOK
  OBVIOUS
<1>1. LoopType
  <2>1. quit \in BOOLEAN /\ late \in BOOLEAN /\ success \in BOOLEAN
    BY Zenon DEF Init
  <2>. QED BY <2>1 DEF Init, LoopType
<1>2. NetType
  BY DEF Init, NetType
<1>3. DtlsType
  BY DEF Init, DtlsType
<1>4. WaylandType
  <2>1. full \in BOOLEAN
    BY Zenon DEF Init
  <2>. QED BY <2>1 DEF Init, WaylandType
<1>5. MdnsType
  BY DEF Init, MdnsType
<1>. QED BY <1>1, <1>2, <1>3, <1>4, <1>5 DEF TypeOK

\* The steps of main's loop keep the types.
LEMMA TypeLoop == ASSUME TypeOK, Loop PROVE TypeOK'
<1>. USE DEF TypeOK, dtls, wayland, mdns, udp
<1>1. CASE CheckQuit
  <2>1. success' \in BOOLEAN
    BY <1>1, Zenon DEF CheckQuit, LoopType
  <2>. QED BY <1>1, <2>1
         DEF CheckQuit, LoopType, NetType, DtlsType, WaylandType, MdnsType
<1>2. CASE DispatchAndFlush
  <2>1. WaylandType'
    BY <1>2, ServerAssumption DEF DispatchAndFlush, WaylandType
  <2>. QED BY <1>2, <2>1 DEF DispatchAndFlush, LoopType, NetType, DtlsType, MdnsType
<1>3. CASE EnterWait
  BY <1>3 DEF EnterWait, LoopType, NetType, DtlsType, WaylandType, MdnsType
<1>4. CASE EpollReturns
  <2>1. batch' \in Seq({"wl"} \cup Family \cup MdnsSock)
    BY <1>4, ServerAssumption DEF EpollReturns, Ready, NetType
  <2>. QED BY <1>4, <2>1
         DEF EpollReturns, LoopType, NetType, DtlsType, WaylandType, MdnsType
<1>5. CASE EpollFails
  BY <1>5 DEF EpollFails, LoopType, NetType, DtlsType, WaylandType, MdnsType
<1>6. CASE BatchDone
  BY <1>6 DEF BatchDone, LoopType, NetType, DtlsType, WaylandType, MdnsType
<1>. QED BY <1>1, <1>2, <1>3, <1>4, <1>5, <1>6 DEF Loop

\* A well-typed queue with a datagram: the datagram and what is left.
LEMMA TakeType ==
  ASSUME TypeOK, NEW d, Take(d)
  PROVE  /\ d \in Datagram /\ d.from \in Client /\ rx' \in [Family -> Seq(Datagram)]
         /\ sock \in open /\ sock \in Family
<1>. USE DEF TypeOK, NetType, LoopType, Take, sock
<1>1. sock \in open /\ sock \in Family
  OBVIOUS
<1>2. rx[sock] \in Seq(Datagram) /\ rx[sock] # <<>>
  BY <1>1
<1>3. d \in Datagram /\ Tail(rx[sock]) \in Seq(Datagram)
  BY <1>2
<1>4. d.from \in Client
  BY <1>3 DEF Datagram, Plain, RP!Record
<1>. QED BY <1>1, <1>3, <1>4

\* What net_handle_send is given is well typed.
LEMMA SendType ==
  ASSUME NEW c \in Client, NEW k \in {"flight", "finished", "alert"},
         NEW r \in Results(c)
  PROVE  net_handle_send(c, k, r) \in Attempt
BY ServerAssumption DEF net_handle_send, Results, Attempt, SendResult

\* Receiving keeps the types, whatever the datagram.
LEMMA TypeReceive == ASSUME TypeOK, Receive PROVE TypeOK'
<1>. PICK d \in Plain \cup sent :
       \/ RecvOversize(d) \/ HandleHello(d) \/ HandleKey(d) \/ RejectKey(d)
       \/ HandleData(d) \/ HandleClose(d) \/ Reject(d)
  BY DEF Receive
<1>1. Take(d)
  BY DEF RecvOversize, HandleHello, HandleKey, RejectKey, HandleData, HandleClose, Reject
<1>2. /\ d \in Datagram /\ d.from \in Client /\ rx' \in [Family -> Seq(Datagram)]
      /\ sock \in open /\ sock \in Family
  BY <1>1, TakeType
<1>3. /\ UNCHANGED <<quit, late, success, batch, open, sent, arrivals, service, queries>>
      /\ MdnsType' /\ open' \subseteq Family /\ arrivals' \in Nat /\ sent' \subseteq RP!Record
  BY <1>1 DEF Take, TypeOK, NetType, MdnsType, mdns
<1>4. ASSUME Continue \/ Abort PROVE LoopType'
  <2>1. quit' \in BOOLEAN /\ late' \in BOOLEAN /\ success' \in BOOLEAN
    BY <1>3, Zenon DEF TypeOK, LoopType
  <2>2. pc' \in {"drain", "free"}
    BY <1>4 DEF Continue, Abort
  <2>3. batch # <<>>
    BY <1>1 DEF TypeOK, LoopType, Take
  <2>. QED BY <1>2, <1>3, <2>1, <2>2, <2>3 DEF TypeOK, LoopType, sock
<1>5. CASE RecvOversize(d)
  BY <1>5, <1>2, <1>3, <1>4
     DEF RecvOversize, TypeOK, NetType, DtlsType, WaylandType, dtls, wayland
<1>6. CASE HandleHello(d)
  <2>1. PICK res \in Results(d.from) :
          /\ out' = {net_handle_send(d.from, "flight", res)}
          /\ IF res = "failed" THEN Abort ELSE Continue
    BY <1>6 DEF HandleHello
  <2>2. out' \subseteq Attempt /\ LoopType'
    BY <2>1, <1>2, <1>4, SendType
  <2>. QED BY <1>6, <2>2, <1>2, <1>3
         DEF HandleHello, TypeOK, NetType, DtlsType, WaylandType, wayland
<1>7. CASE HandleKey(d)
  <2>1. PICK res \in Results(d.from) :
          /\ out' = {net_handle_send(d.from, "finished", res)}
          /\ keys' = IF res = "sent" THEN [keys EXCEPT ![d.from] = epoch'[d.from]]
                                     ELSE keys
          /\ IF res = "failed" THEN Abort ELSE Continue
    BY <1>7 DEF HandleKey
  <2>2. out' \subseteq Attempt /\ LoopType'
    BY <2>1, <1>2, <1>4, SendType
  <2>3. DtlsType'
    BY <1>7, <1>2, <2>1 DEF HandleKey, TypeOK, DtlsType
  <2>. QED BY <1>7, <2>2, <2>3, <1>2, <1>3
         DEF HandleKey, TypeOK, NetType, WaylandType, wayland
<1>8. CASE RejectKey(d)
  <2>1. PICK res \in Results(d.from) : out' = {net_handle_send(d.from, "alert", res)}
    BY <1>8 DEF RejectKey
  <2>2. out' \subseteq Attempt /\ LoopType'
    BY <1>8, <2>1, <1>2, <1>4, SendType DEF RejectKey
  <2>. QED BY <1>8, <2>2, <1>2, <1>3
         DEF RejectKey, TypeOK, NetType, DtlsType, WaylandType, wayland
<1>9. CASE HandleData(d)
  <2>1. d \in sent /\ d.body \in Body
    <3>1. d.kind = "data" /\ (d \in Plain => d.kind # "data")
      BY <1>9 DEF HandleData, Plain
    <3>2. d \in sent
      BY <3>1
    <3>3. d \in RP!Record
      BY <3>2 DEF TypeOK, NetType
    <3>. QED BY <3>2, <3>3 DEF RP!Record, RP!Body, Body
  <2>2. net_handle_receive(d.body) \in Seq(Request)
    BY <2>1, ReceiveType
  <2>3. stream' \in Seq(Request) /\ Len(stream) <= Len(stream')
    BY <1>9, <2>2 DEF HandleData, TypeOK, WaylandType
  <2>4. WaylandType'
    BY <1>9, <2>3 DEF HandleData, TypeOK, WaylandType
  <2>5. NetType'
    BY <1>9, <2>1, <1>2, <1>3 DEF HandleData, TypeOK, NetType
  <2>. QED BY <1>9, <2>4, <2>5, <1>3, <1>4 DEF HandleData, TypeOK, DtlsType
<1>10. CASE HandleClose(d)
  <2>1. PICK res \in Results(d.from) : out' = {net_handle_send(d.from, "alert", res)}
    BY <1>10 DEF HandleClose
  <2>2. out' \subseteq Attempt /\ LoopType'
    BY <1>10, <2>1, <1>2, <1>4, SendType DEF HandleClose
  <2>3. d \in sent
    BY <1>10 DEF HandleClose, Plain
  <2>. QED BY <1>10, <2>2, <2>3, <1>2, <1>3
         DEF HandleClose, TypeOK, NetType, DtlsType, WaylandType, wayland
<1>11. CASE Reject(d)
  BY <1>11, <1>2, <1>3, <1>4
     DEF Reject, TypeOK, NetType, DtlsType, WaylandType, dtls, wayland
<1>. QED BY <1>5, <1>6, <1>7, <1>8, <1>9, <1>10, <1>11

\* The handlers of the other descriptors, and the end of the receive loop.
LEMMA TypeHandlers == ASSUME TypeOK, Handlers PROVE TypeOK'
<1>. USE DEF TypeOK, dtls, wayland, mdns, udp
<1>1. CASE DispatchWayland
  <2>1. WaylandType'
    BY <1>1 DEF DispatchWayland, WaylandType
  <2>2. LoopType'
    BY <1>1 DEF DispatchWayland, LoopType
  <2>. QED BY <1>1, <2>1, <2>2 DEF DispatchWayland, NetType, DtlsType, MdnsType
<1>2. CASE DispatchWaylandFails
  BY <1>2 DEF DispatchWaylandFails, LoopType, NetType, DtlsType, WaylandType, MdnsType
<1>3. CASE HandleSocket
  BY <1>3 DEF HandleSocket, LoopType, NetType, DtlsType, WaylandType, MdnsType
<1>4. CASE RespondRequest
  <2>1. LoopType'
    BY <1>4 DEF RespondRequest, LoopType
  <2>2. MdnsType'
    BY <1>4 DEF RespondRequest, MdnsType
  <2>. QED BY <1>4, <2>1, <2>2 DEF RespondRequest, NetType, DtlsType, WaylandType
<1>5. CASE RecvEmpty
  BY <1>5 DEF RecvEmpty, LoopType, NetType, DtlsType, WaylandType, MdnsType
<1>6. CASE RecvFails
  BY <1>6 DEF RecvFails, Abort, LoopType, NetType, DtlsType, WaylandType, MdnsType
<1>7. CASE Receive
  BY <1>7, TypeReceive
<1>. QED BY <1>1, <1>2, <1>3, <1>4, <1>5, <1>6, <1>7 DEF Handlers

\* Cleanup keeps the types.
LEMMA TypeCleanup == ASSUME TypeOK, Cleanup PROVE TypeOK'
<1>. USE DEF TypeOK, dtls, wayland, mdns, udp
<1>1. CASE FreeContext
  <2>1. PICK res \in [Client -> SendResult] :
          /\ \A c \in Client : res[c] \in Results(c)
          /\ out' = {net_handle_send(c, "alert", res[c]) :
                       c \in {c \in Client : sessions[c] = "connected"}}
    BY <1>1 DEF FreeContext
  <2>2. out' \subseteq Attempt
    BY <2>1, SendType
  <2>. QED BY <1>1, <2>2
         DEF FreeContext, LoopType, NetType, DtlsType, WaylandType, MdnsType
<1>2. CASE CloseSockets
  BY <1>2 DEF CloseSockets, LoopType, NetType, DtlsType, WaylandType, MdnsType
<1>. QED BY <1>1, <1>2 DEF Cleanup

\* The environment keeps the types.
LEMMA TypeEnvironment == ASSUME TypeOK, Environment PROVE TypeOK'
<1>. USE DEF TypeOK, loop, dtls, wayland, mdns, udp
<1>1. CASE Signal
  <2>1. quit' \in BOOLEAN /\ late' \in BOOLEAN /\ success' \in BOOLEAN
    BY <1>1, Zenon DEF Signal, LoopType
  <2>. QED BY <1>1, <2>1
         DEF Signal, LoopType, NetType, DtlsType, WaylandType, MdnsType
<1>2. CASE ClientSends
  <2>1. PICK c \in Client, b \in Bodies, k \in {"data", "close"}, n \in 1 .. MaxSend :
          sent' = sent \cup
            {[kind |-> k, from |-> c, ep |-> keys[c], n |-> n, body |-> b]}
    BY <1>2 DEF ClientSends
  <2>2. b \in RP!Body
    BY ServerAssumption DEF RP!Body, Body
  <2>3. [kind |-> k, from |-> c, ep |-> keys[c], n |-> n, body |-> b] \in RP!Record
    BY <2>2, ServerAssumption DEF RP!Record, DtlsType
  <2>4. NetType'
    BY <1>2, <2>1, <2>3 DEF ClientSends, NetType
  <2>. QED BY <1>2, <2>4 DEF ClientSends, LoopType, DtlsType, WaylandType, MdnsType
<1>3. CASE Deliver
  <2>1. PICK d \in Plain \cup sent :
          /\ Fam[d.from] \in open
          /\ rx' = [rx EXCEPT ![Fam[d.from]] = Append(@, d)]
    BY <1>3 DEF Deliver
  <2>2. d \in Datagram
    BY DEF Datagram, NetType
  <2>3. rx' \in [Family -> Seq(Datagram)]
    BY <2>1, <2>2 DEF NetType
  <2>. QED BY <1>3, <2>3 DEF Deliver, LoopType, NetType, DtlsType, WaylandType, MdnsType
<1>4. CASE QueryArrives
  BY <1>4 DEF QueryArrives, LoopType, NetType, DtlsType, WaylandType, MdnsType
<1>5. CASE CompositorReads
  <2>1. WaylandType'
    BY <1>5 DEF CompositorReads, WaylandType
  <2>. QED BY <1>5, <2>1 DEF CompositorReads, LoopType, NetType, DtlsType, MdnsType
<1>6. CASE CompositorSends
  BY <1>6 DEF CompositorSends, LoopType, NetType, DtlsType, WaylandType, MdnsType
<1>. QED BY <1>1, <1>2, <1>3, <1>4, <1>5, <1>6 DEF Environment

\* Every step keeps the types.
LEMMA TypeStep == ASSUME TypeOK, [Next]_vars PROVE TypeOK'
<1>1. CASE Process
  BY <1>1, TypeLoop, TypeHandlers, TypeCleanup DEF Process
<1>2. CASE Environment
  BY <1>2, TypeEnvironment
<1>3. CASE Exited \/ UNCHANGED vars
  BY <1>3 DEF Exited, vars, loop, dtls, wayland, mdns, udp, TypeOK,
              LoopType, NetType, DtlsType, WaylandType, MdnsType, Ready
<1>. QED BY <1>1, <1>2, <1>3 DEF Next

\* The state of the process, of tinydtls, of the sockets and of the Wayland
\* connection always has the shape the code gives it; in particular main
\* only receives from a socket that is open, and the compositor has never read
\* more requests than were flushed, nor were more flushed than made.
THEOREM TypeCorrect == Spec => []TypeOK
  BY TypeInit, TypeStep, PTL DEF Spec

=============================================================================
