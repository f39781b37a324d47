------------------------- MODULE ServerSafetyProofs -------------------------
(***************************************************************************)
(* The safety properties of Server, for every value of the constants, each *)
(* from an inductive invariant of its own (PairedInv, FlushInv, RouteInv,  *)
(* ExitInv in Server), and that Server implements RemotePointer.           *)
(***************************************************************************)
EXTENDS ServerProofs, SequenceTheorems

\* Every receive step takes the datagram at the head of the socket's queue,
\* and is one of the seven cases.
LEMMA ReceiveCases ==
  ASSUME Receive
  PROVE  \E d \in Plain \cup sent :
           /\ Take(d)
           /\ \/ RecvOversize(d) \/ HandleHello(d) \/ HandleKey(d) \/ RejectKey(d)
              \/ HandleData(d) \/ HandleClose(d) \/ Reject(d)
BY DEF Receive, RecvOversize, HandleHello, HandleKey, RejectKey, HandleData,
       HandleClose, Reject

-----------------------------------------------------------------------------
(***************************************************************************)
(* Frames.                                                                 *)
(***************************************************************************)

\* A request in front of complete frames keeps them complete if it may be
\* followed by the first of them.
LEMMA FramedPrepend ==
  ASSUME NEW x \in Request, NEW t \in Seq(Request), t # <<>>, WellFramed(t),
         x.req = "button" => t[1].req \in {"motion", "frame"},
         x.req = "motion" => t[1].req = "frame"
  PROVE  /\ WellFramed(<<x>> \o t)
         /\ <<x>> \o t \in Seq(Request)
         /\ <<x>> \o t # <<>>
         /\ (<<x>> \o t)[1] = x
<1>. DEFINE w == <<x>> \o t
<1>1. /\ w \in Seq(Request) /\ Len(w) = 1 + Len(t) /\ w[1] = x
      /\ \A i \in 1 .. Len(t) : w[i + 1] = t[i]
  OBVIOUS
<1>2. w[Len(w)].req = "frame"
  <2>1. Len(t) \in 1 .. Len(t)
    OBVIOUS
  <2>. QED BY <1>1, <2>1 DEF WellFramed
<1>3. ASSUME NEW i \in 1 .. Len(w) - 1
      PROVE  /\ w[i].req = "button" => w[i + 1].req \in {"motion", "frame"}
             /\ w[i].req = "motion" => w[i + 1].req = "frame"
  <2>1. CASE i = 1
    <3>1. w[2] = t[1]
      BY <1>1
    <3>. QED BY <1>1, <2>1, <3>1
  <2>2. CASE i # 1
    <3>1. i - 1 \in 1 .. Len(t) - 1 /\ w[i] = t[i - 1] /\ w[i + 1] = t[i]
      BY <1>1, <2>2
    <3>. QED BY <3>1 DEF WellFramed
  <2>. QED BY <2>1, <2>2
<1>4. WellFramed(w)
  <2>. HIDE DEF w
  <2>. QED BY <1>2, <1>3 DEF WellFramed
<1>5. w \in Seq(Request) /\ w # <<>> /\ w[1] = x
  <2>1. Len(w) # 0
    BY <1>1
  <2>. QED BY <1>1, <2>1
<1>. QED BY <1>4, <1>5

\* One packet asks for complete frames.
LEMMA ReceiveFramed ==
  ASSUME NEW b \in Body PROVE WellFramed(net_handle_receive(b))
<1>1. WellFramed(<<>>)
  BY DEF WellFramed
<1>2. ASSUME NEW p \in mouse_packet, p.button_state <= 1, p.button \in Button \cup {0}
      PROVE  WellFramed(ButtonRequest(p) \o MotionRequest(p) \o <<[req |-> "frame"]>>)
  <2>. DEFINE f == <<[req |-> "frame"]>>
              mf == MotionRequest(p) \o f
  <2>1. /\ ButtonRequest(p) \in Seq(Request) /\ MotionRequest(p) \in Seq(Request)
        /\ f \in Seq(Request)
    BY <1>2, PartsType
  <2>2. WellFramed(f) /\ f # <<>> /\ f[1].req = "frame"
    BY DEF WellFramed
  <2>3. /\ WellFramed(mf) /\ mf \in Seq(Request) /\ mf # <<>>
        /\ mf[1].req \in {"motion", "frame"}
    <3>1. CASE MotionRequest(p) = <<>>
      <4>. HIDE DEF f
      <4>. QED BY <2>1, <2>2, <3>1, ConcatEmptySeq
    <3>2. CASE MotionRequest(p) # <<>>
      <4>. DEFINE m == [req |-> "motion", dx |-> wl_fixed_from_int(p.dx),
                                          dy |-> wl_fixed_from_int(p.dy)]
      <4>1. MotionRequest(p) = <<m>>
        BY <3>2 DEF MotionRequest
      <4>2. m \in Request
        BY <1>2, FixedType DEF Request, mouse_packet, int32_t
      <4>. HIDE DEF f
      <4>. QED BY <2>1, <2>2, <4>1, <4>2, FramedPrepend
    <3>. QED BY <3>1, <3>2
  <2>4. ButtonRequest(p) \o MotionRequest(p) \o f = ButtonRequest(p) \o mf
    BY <2>1, ConcatAssociative
  <2>5. WellFramed(ButtonRequest(p) \o mf)
    <3>. HIDE DEF mf
    <3>1. CASE p.button = 0
      BY <2>3, <3>1, ConcatEmptySeq DEF ButtonRequest
    <3>2. CASE p.button # 0
      <4>. DEFINE u == [req |-> "button", button |-> p.button, state |-> p.button_state]
      <4>1. u \in Request
        BY <1>2, <3>2 DEF Request, mouse_packet
      <4>2. ButtonRequest(p) = <<u>>
        BY <3>2 DEF ButtonRequest
      <4>. QED BY <2>3, <4>1, <4>2, FramedPrepend
    <3>. QED BY <3>1, <3>2
  <2>. QED BY <2>4, <2>5
<1>3. Decode(b) \in mouse_packet
  BY DecodeType
<1>4. ASSUME NEW p \in mouse_packet PROVE WellFramed(vp_handle_packet(p))
  BY <1>1, <1>2 DEF vp_handle_packet, mouse_packet
<1>. QED BY <1>1, <1>3, <1>4 DEF net_handle_receive

\* Complete frames after complete frames are complete frames.
LEMMA FramedConcat ==
  ASSUME NEW s \in Seq(Request), NEW t \in Seq(Request), WellFramed(s), WellFramed(t)
  PROVE  WellFramed(s \o t)
<1>. DEFINE w == s \o t
<1>1. /\ w \in Seq(Request) /\ Len(w) = Len(s) + Len(t)
      /\ \A i \in 1 .. Len(s) : w[i] = s[i]
      /\ \A i \in 1 .. Len(t) : w[Len(s) + i] = t[i]
  OBVIOUS
<1>2. ASSUME w # <<>> PROVE w[Len(w)].req = "frame"
  <2>1. CASE t = <<>>
    BY <1>2, <2>1 DEF WellFramed
  <2>2. CASE t # <<>>
    <3>1. Len(t) \in 1 .. Len(t)
      BY <2>2
    <3>2. w[Len(w)] = t[Len(t)]
      BY <1>1, <3>1
    <3>. QED BY <2>2, <3>2 DEF WellFramed
  <2>. QED BY <2>1, <2>2
<1>3. ASSUME NEW i \in 1 .. Len(w) - 1
      PROVE  /\ w[i].req = "button" => w[i + 1].req \in {"motion", "frame"}
             /\ w[i].req = "motion" => w[i + 1].req = "frame"
  <2>1. CASE i < Len(s)
    <3>1. i \in 1 .. Len(s) - 1 /\ w[i] = s[i] /\ w[i + 1] = s[i + 1]
      BY <1>1, <2>1
    <3>. QED BY <3>1 DEF WellFramed
  <2>2. CASE i = Len(s)
    <3>1. w[i] = s[Len(s)] /\ s # <<>>
      BY <1>1, <2>2
    <3>. QED BY <3>1 DEF WellFramed
  <2>3. CASE i > Len(s)
    <3>. DEFINE j == i - Len(s)
    <3>1. j \in 1 .. Len(t) - 1
      BY <1>1, <2>3
    <3>2. w[i] = t[j] /\ w[i + 1] = t[j + 1]
      <4>1. i = Len(s) + j /\ i + 1 = Len(s) + (j + 1) /\ j \in 1 .. Len(t)
            /\ j + 1 \in 1 .. Len(t)
        BY <3>1
      <4>. HIDE DEF j
      <4>. QED BY <1>1, <4>1
    <3>. QED BY <3>1, <3>2 DEF WellFramed
  <2>. QED BY <2>1, <2>2, <2>3, <1>1
<1>. QED BY <1>2, <1>3 DEF WellFramed

\* Only HandleData makes requests.
LEMMA StreamStep ==
  ASSUME [Next]_vars
  PROVE  \/ UNCHANGED stream
         \/ \E d \in Plain \cup sent : Take(d) /\ HandleData(d)
<1>. USE DEF loop, dtls, wayland, mdns, udp
<1>1. CASE Loop
  BY <1>1 DEF Loop, CheckQuit, DispatchAndFlush, EnterWait, EpollReturns, EpollFails,
              BatchDone
<1>2. CASE Handlers
  <2>1. CASE Receive
    BY <2>1, ReceiveCases DEF RecvOversize, HandleHello, HandleKey, RejectKey,
                              HandleClose, Reject
  <2>. QED BY <1>2, <2>1 DEF Handlers, DispatchWayland, DispatchWaylandFails,
                             HandleSocket, RespondRequest, RecvEmpty, RecvFails
<1>3. CASE Cleanup
  BY <1>3 DEF Cleanup, FreeContext, CloseSockets
<1>4. CASE Environment
  BY <1>4 DEF Environment, Signal, ClientSends, Deliver, QueryArrives,
              CompositorReads, CompositorSends
<1>5. CASE Exited \/ UNCHANGED vars
  BY <1>5 DEF Exited, vars
<1>. QED BY <1>1, <1>2, <1>3, <1>4, <1>5 DEF Next, Process

\* The compositor only ever gets complete frames, each of at most one button
\* and one motion, however packets are lost, repeated, reordered or malformed
\* and wherever the loop is interrupted.
THEOREM AlwaysFramed == Spec => []FramesComplete
<1>1. Init => FramesComplete
  BY DEF Init, FramesComplete, WellFramed
<1>2. ASSUME TypeOK, FramesComplete, [Next]_vars PROVE FramesComplete'
  <2>1. CASE UNCHANGED stream
    BY <1>2, <2>1 DEF FramesComplete, WellFramed
  <2>2. ASSUME NEW d \in Plain \cup sent, Take(d), HandleData(d)
        PROVE  FramesComplete'
    <3>1. d.kind = "data" /\ (d \in Plain => d.kind # "data")
      BY <2>2 DEF HandleData, Plain
    <3>2. d \in RP!Record
      BY <1>2, <3>1 DEF TypeOK, NetType
    <3>3. d.body \in Body
      BY <3>2 DEF RP!Record, RP!Body, Body
    <3>4. stream' = stream \o net_handle_receive(d.body)
      BY <2>2 DEF HandleData
    <3>5. WellFramed(stream \o net_handle_receive(d.body))
      BY <1>2, <3>3, ReceiveType, ReceiveFramed, FramedConcat
         DEF TypeOK, WaylandType, FramesComplete
    <3>. QED BY <3>4, <3>5 DEF FramesComplete
  <2>. QED BY <1>2, <2>1, <2>2, StreamStep
<1>. QED BY <1>1, <1>2, TypeCorrect, PTL DEF Spec

-----------------------------------------------------------------------------
(***************************************************************************)
(* Pairing.                                                                *)
(***************************************************************************)

\* A key matches only if the client presented PSK_ID and has the server's key.
LEMMA KeyMatchesPaired ==
  ASSUME NEW c \in Client, KeyMatches(c) PROVE c \in Paired
BY ServerAssumption DEF KeyMatches, net_get_psk_info, Alert, Paired

\* Only records of a session that was connected are applied.
LEMMA AcceptedPaired ==
  ASSUME TypeOK, PairedInv, NEW d, Take(d), Accepts(d) PROVE d.from \in Paired
BY TakeType DEF PairedInv, OnlyPaired, Accepts

LEMMA PairedReceive ==
  ASSUME TypeOK, PairedInv, NEW d, Take(d),
         \/ RecvOversize(d) \/ HandleHello(d) \/ HandleKey(d) \/ RejectKey(d)
         \/ HandleData(d) \/ HandleClose(d) \/ Reject(d)
  PROVE  PairedInv'
<1>1. d.from \in Client /\ UNCHANGED sent
  BY TakeType DEF Take
<1>. USE <1>1 DEF PairedInv, OnlyPaired, TypeOK, DtlsType
<1>2. CASE RecvOversize(d) \/ Reject(d)
  BY <1>2 DEF RecvOversize, Reject, dtls
<1>3. CASE HandleHello(d)
  BY <1>3 DEF HandleHello
<1>4. CASE HandleKey(d)
  <2>1. d.from \in Paired
    BY <1>4, KeyMatchesPaired DEF HandleKey
  <2>2. PICK res \in Results(d.from) :
          keys' = IF res = "sent" THEN [keys EXCEPT ![d.from] = epoch'[d.from]] ELSE keys
    BY <1>4 DEF HandleKey
  <2>3. \A c \in Client : c # d.from => sessions'[c] = sessions[c] /\ keys'[c] = keys[c]
    BY <1>4, <2>2 DEF HandleKey
  <2>. QED BY <1>4, <2>1, <2>3 DEF HandleKey
<1>5. CASE RejectKey(d)
  BY <1>5 DEF RejectKey
<1>6. CASE HandleData(d)
  BY <1>6, AcceptedPaired DEF HandleData
<1>7. CASE HandleClose(d)
  BY <1>7, AcceptedPaired DEF HandleClose
<1>. QED BY <1>2, <1>3, <1>4, <1>5, <1>6, <1>7

LEMMA PairedStep == ASSUME TypeOK, PairedInv, [Next]_vars PROVE PairedInv'
<1>. USE DEF loop, dtls, wayland, mdns, udp, PairedInv, OnlyPaired
<1>1. CASE Loop
  BY <1>1 DEF Loop, CheckQuit, DispatchAndFlush, EnterWait, EpollReturns, EpollFails,
              BatchDone
<1>2. CASE Handlers
  <2>1. CASE Receive
    BY <2>1, ReceiveCases, PairedReceive
  <2>. QED BY <1>2, <2>1 DEF Handlers, DispatchWayland, DispatchWaylandFails,
                             HandleSocket, RespondRequest, RecvEmpty, RecvFails
<1>3. CASE Cleanup
  BY <1>3 DEF Cleanup, FreeContext, CloseSockets
<1>4. CASE ClientSends
  BY <1>4 DEF ClientSends
<1>5. CASE Environment /\ ~ClientSends
  BY <1>5 DEF Environment, Signal, Deliver, QueryArrives, CompositorReads,
              CompositorSends
<1>6. CASE Exited \/ UNCHANGED vars
  BY <1>6 DEF Exited, vars
<1>. QED BY <1>1, <1>2, <1>3, <1>4, <1>5, <1>6 DEF Next, Process

\* Only clients that presented PSK_ID and the password ever have a session or
\* move the pointer.
THEOREM PairedOnly == Spec => []OnlyPaired
<1>1. Init => PairedInv
  BY DEF Init, PairedInv, OnlyPaired
<1>2. PairedInv => OnlyPaired
  BY DEF PairedInv
<1>. QED BY <1>1, <1>2, PairedStep, TypeCorrect, PTL DEF Spec

-----------------------------------------------------------------------------
(***************************************************************************)
(* Flushing.                                                               *)
(***************************************************************************)

LEMMA FlushStep == ASSUME TypeOK, FlushInv, [Next]_vars PROVE FlushInv'
<1>. USE DEF loop, dtls, wayland, mdns, udp, FlushInv
<1>1. CASE DispatchAndFlush
  <2>. DEFINE room == consumed + WlCap
  <2>1. /\ flushed \in Nat /\ Len(stream) \in Nat /\ room \in Nat
        /\ stream' = stream /\ wl' = wl
    BY <1>1, ServerAssumption DEF DispatchAndFlush, TypeOK, WaylandType
  <2>2. full' = (flushed' >= room)
    BY <1>1 DEF DispatchAndFlush
  <2>3. CASE wl = "gone"
    BY <2>1, <2>3
  <2>4. CASE wl # "gone"
    <3>1. flushed' = Len(stream') \/ flushed' = room
      BY <1>1, <2>1, <2>4 DEF DispatchAndFlush
    <3>2. CASE flushed' = room
      <4>1. flushed' >= room
        BY <3>2, <2>1
      <4>. QED BY <4>1, <2>2, Zenon
    <3>. QED BY <3>1, <3>2
  <2>. QED BY <2>3, <2>4
<1>2. CASE Loop /\ ~DispatchAndFlush
  BY <1>2 DEF Loop, CheckQuit, EnterWait, EpollReturns, EpollFails, BatchDone
<1>3. CASE Handlers
  <2>1. CASE Receive
    <3>1. pc' \in {"drain", "free"}
      BY <2>1, ReceiveCases DEF RecvOversize, HandleHello, HandleKey, RejectKey,
           HandleData, HandleClose, Reject, Continue, Abort
    <3>. QED BY <3>1
  <2>. QED BY <1>3, <2>1 DEF Handlers, DispatchWayland, DispatchWaylandFails,
                             HandleSocket, RespondRequest, RecvEmpty, RecvFails, Abort
<1>4. CASE Cleanup
  BY <1>4 DEF Cleanup, FreeContext, CloseSockets
<1>5. CASE Environment
  BY <1>5 DEF Environment, Signal, ClientSends, Deliver, QueryArrives,
              CompositorReads, CompositorSends
<1>6. CASE Exited \/ UNCHANGED vars
  BY <1>6 DEF Exited, vars
<1>. QED BY <1>1, <1>2, <1>3, <1>4, <1>5, <1>6 DEF Next, Process

\* main never sleeps on requests that it could have written: what is left when
\* it waits is left because the last flush filled the socket, or because there
\* is nobody to write to.
THEOREM FlushedBeforeWait == Spec => []WaitsFlushed
<1>1. Init => FlushInv
  BY DEF Init, FlushInv
<1>2. FlushInv => WaitsFlushed
  BY DEF FlushInv, WaitsFlushed
<1>. QED BY <1>1, <1>2, FlushStep, TypeCorrect, PTL DEF Spec

-----------------------------------------------------------------------------
(***************************************************************************)
(* Sockets.                                                                *)
(***************************************************************************)

\* Taking a datagram leaves the others where they belong, and its sender has
\* an open socket.
LEMMA RouteTake ==
  ASSUME TypeOK, RouteInv, NEW d, Take(d)
  PROVE  /\ \A s \in Family : \A i \in 1 .. Len(rx'[s]) : Fam[rx'[s][i].from] = s
         /\ Fam[d.from] \in open /\ open' = open
<1>1. sock \in open /\ sock \in Family /\ rx[sock] \in Seq(Datagram) /\ rx[sock] # <<>>
  BY TakeType DEF Take, TypeOK, NetType
<1>2. /\ d = rx[sock][1] /\ rx' = [rx EXCEPT ![sock] = Tail(rx[sock])] /\ open' = open
      /\ rx \in [Family -> Seq(Datagram)]
  BY <1>1 DEF Take, TypeOK, NetType
<1>3. Fam[d.from] = sock
  BY <1>1, <1>2 DEF RouteInv
<1>4. ASSUME NEW s \in Family, NEW i \in 1 .. Len(rx'[s])
      PROVE  Fam[rx'[s][i].from] = s
  <2>1. CASE s = sock
    <3>1. rx'[s] = Tail(rx[sock])
      BY <1>1, <1>2, <2>1
    <3>2. i + 1 \in 1 .. Len(rx[sock]) /\ Tail(rx[sock])[i] = rx[sock][i + 1]
      BY <1>1, <3>1
    <3>. QED BY <1>1, <2>1, <3>1, <3>2 DEF RouteInv
  <2>2. CASE s # sock
    BY <1>2, <2>2 DEF RouteInv
  <2>. QED BY <2>1, <2>2
<1>. QED BY <1>1, <1>2, <1>3, <1>4

LEMMA RouteReceive ==
  ASSUME TypeOK, RouteInv, NEW d, Take(d),
         \/ RecvOversize(d) \/ HandleHello(d) \/ HandleKey(d) \/ RejectKey(d)
         \/ HandleData(d) \/ HandleClose(d) \/ Reject(d)
  PROVE  RouteInv'
<1>1. /\ \A s \in Family : \A i \in 1 .. Len(rx'[s]) : Fam[rx'[s][i].from] = s
      /\ Fam[d.from] \in open /\ open' = open /\ d.from \in Client
  BY RouteTake, TakeType
<1>2. \A c \in Client : sessions'[c] = "connected" => Fam[c] \in open
  <2>. USE DEF RouteInv, TypeOK, DtlsType
  <2>1. CASE UNCHANGED sessions
    BY <2>1
  <2>2. CASE ~UNCHANGED sessions
    <3>1. HandleHello(d) \/ HandleKey(d) \/ RejectKey(d) \/ HandleClose(d)
      BY <2>2 DEF RecvOversize, HandleData, Reject, dtls
    <3>2. \A c \in Client : c # d.from => sessions'[c] = sessions[c]
      BY <1>1, <3>1 DEF HandleHello, HandleKey, RejectKey, HandleClose
    <3>. QED BY <1>1, <3>2
  <2>. QED BY <2>1, <2>2
<1>3. \A t \in out' : t.sock \in open
  <2>1. out' = {} \/ \E k, res : out' = {net_handle_send(d.from, k, res)}
    BY DEF RecvOversize, HandleHello, HandleKey, RejectKey, HandleData, HandleClose,
           Reject
  <2>. QED BY <1>1, <2>1 DEF net_handle_send
<1>. QED BY <1>1, <1>2, <1>3 DEF RouteInv, SendsOnOpenSocket

LEMMA RouteStep == ASSUME TypeOK, RouteInv, ExitInv, [Next]_vars PROVE RouteInv'
<1>. USE DEF loop, dtls, wayland, mdns, udp, RouteInv, SendsOnOpenSocket
<1>1. CASE Loop
  BY <1>1 DEF Loop, CheckQuit, DispatchAndFlush, EnterWait, EpollReturns, EpollFails,
              BatchDone
<1>2. CASE Handlers
  <2>1. CASE Receive
    BY <2>1, ReceiveCases, RouteReceive
  <2>. QED BY <1>2, <2>1 DEF Handlers, DispatchWayland, DispatchWaylandFails,
                             HandleSocket, RespondRequest, RecvEmpty, RecvFails
<1>3. CASE FreeContext
  <2>1. PICK res \in [Client -> SendResult] :
          out' = {net_handle_send(c, "alert", res[c]) :
                    c \in {c \in Client : sessions[c] = "connected"}}
    BY <1>3 DEF FreeContext
  <2>2. \A t \in out' : t.sock \in open
    BY <2>1 DEF net_handle_send
  <2>. QED BY <1>3, <2>2 DEF FreeContext
<1>4. CASE CloseSockets
  BY <1>4 DEF CloseSockets, ExitInv
<1>5. CASE Deliver
  <2>1. PICK d \in Plain \cup sent :
          /\ Fam[d.from] \in open
          /\ rx' = [rx EXCEPT ![Fam[d.from]] = Append(@, d)]
    BY <1>5 DEF Deliver
  <2>2. d \in Datagram
    BY DEF Datagram, TypeOK, NetType
  <2>3. ASSUME NEW s \in Family, NEW i \in 1 .. Len(rx'[s])
        PROVE  Fam[rx'[s][i].from] = s
    <3>1. rx[s] \in Seq(Datagram)
      BY DEF TypeOK, NetType
    <3>2. CASE s # Fam[d.from]
      BY <2>1, <3>2 DEF TypeOK, NetType
    <3>3. CASE s = Fam[d.from]
      <4>1. rx'[s] = Append(rx[s], d)
        BY <2>1, <3>3 DEF TypeOK, NetType
      <4>2. CASE i \in 1 .. Len(rx[s])
        BY <2>2, <3>1, <4>1, <4>2
      <4>3. CASE i = Len(rx[s]) + 1
        BY <2>2, <3>1, <3>3, <4>1, <4>3
      <4>. QED BY <2>2, <3>1, <4>1, <4>2, <4>3
    <3>. QED BY <3>2, <3>3
  <2>. QED BY <1>5, <2>3 DEF Deliver
<1>6. CASE Environment /\ ~Deliver
  BY <1>6 DEF Environment, Signal, ClientSends, QueryArrives, CompositorReads,
              CompositorSends
<1>7. CASE Exited \/ UNCHANGED vars
  BY <1>7 DEF Exited, vars
<1>. QED BY <1>1, <1>2, <1>3, <1>4, <1>5, <1>6, <1>7 DEF Next, Process, Cleanup

-----------------------------------------------------------------------------
(***************************************************************************)
(* Exit.                                                                   *)
(***************************************************************************)

LEMMA ExitStep == ASSUME TypeOK, ExitInv, [Next]_vars PROVE ExitInv'
<1>. USE DEF loop, dtls, wayland, mdns, udp, ExitInv
<1>1. CASE CheckQuit
  BY <1>1, Zenon DEF CheckQuit
<1>2. CASE Loop /\ ~CheckQuit
  BY <1>2 DEF Loop, DispatchAndFlush, EnterWait, EpollReturns, EpollFails, BatchDone
<1>3. CASE Handlers
  <2>1. CASE Receive
    <3>1. /\ pc = "drain" /\ pc' \in {"drain", "free"}
          /\ UNCHANGED <<quit, success, batch>>
      BY <2>1, ReceiveCases DEF Take, RecvOversize, HandleHello, HandleKey, RejectKey,
           HandleData, HandleClose, Reject, Continue, Abort
    <3>. QED BY <3>1
  <2>. QED BY <1>3, <2>1 DEF Handlers, DispatchWayland, DispatchWaylandFails,
                             HandleSocket, RespondRequest, RecvEmpty, RecvFails, Abort
<1>4. CASE Cleanup
  BY <1>4 DEF Cleanup, FreeContext, CloseSockets
<1>5. CASE Environment
  BY <1>5 DEF Environment, Signal, ClientSends, Deliver, QueryArrives,
              CompositorReads, CompositorSends
<1>6. CASE Exited \/ UNCHANGED vars
  BY <1>6 DEF Exited, vars
<1>. QED BY <1>1, <1>2, <1>3, <1>4, <1>5, <1>6 DEF Next, Process

LEMMA InitRouteExit == Init => RouteInv /\ ExitInv
  BY DEF Init, RouteInv, SendsOnOpenSocket, ExitInv

\* Nothing is handed to sendto after the sockets are closed, nor for a family
\* that has no socket.
THEOREM OpenSocketOnly == Spec => []SendsOnOpenSocket
<1>1. RouteInv => SendsOnOpenSocket
  BY DEF RouteInv
<1>. QED BY <1>1, InitRouteExit, RouteStep, ExitStep, TypeCorrect, PTL DEF Spec

\* The exit status says whether main was asked to quit, and the exit leaves no
\* session, socket or announcement.
THEOREM ExitIsClean == Spec => []CleanExit
<1>1. ExitInv => CleanExit
  BY DEF ExitInv, CleanExit
<1>. QED BY <1>1, InitRouteExit, ExitStep, TypeCorrect, PTL DEF Spec

\* A step that ends a session hands an alert for its client to sendto.
LEMMA AnnounceStep ==
  ASSUME TypeOK, [Next]_vars, NEW c \in Client,
         sessions[c] = "connected", sessions'[c] = "none"
  PROVE  \E t \in out' : t.to = c /\ t.kind = "alert"
<1>. USE DEF loop, dtls, wayland, mdns, udp, TypeOK, DtlsType
<1>1. CASE Receive
  <2>1. PICK d \in Plain \cup sent :
          /\ Take(d)
          /\ \/ RecvOversize(d) \/ HandleHello(d) \/ HandleKey(d) \/ RejectKey(d)
             \/ HandleData(d) \/ HandleClose(d) \/ Reject(d)
    BY <1>1, ReceiveCases
  <2>2. d.from \in Client
    BY <2>1, TakeType
  <2>3. HandleClose(d) /\ d.from = c
    BY <2>1, <2>2 DEF RecvOversize, HandleHello, HandleKey, RejectKey, HandleData,
                      HandleClose, Reject
  <2>4. \E res \in Results(c) : out' = {net_handle_send(c, "alert", res)}
    BY <2>3 DEF HandleClose
  <2>. QED BY <2>4 DEF net_handle_send
<1>2. CASE FreeContext
  <2>1. PICK res \in [Client -> SendResult] :
          out' = {net_handle_send(k, "alert", res[k]) :
                    k \in {k \in Client : sessions[k] = "connected"}}
    BY <1>2 DEF FreeContext
  <2>2. net_handle_send(c, "alert", res[c]) \in out'
    BY <2>1
  <2>. QED BY <2>2 DEF net_handle_send
<1>3. CASE ~Receive /\ ~FreeContext
  <2>1. UNCHANGED sessions
    BY <1>3 DEF Next, Process, Loop, Handlers, Cleanup, Environment, Exited, vars,
         CheckQuit, DispatchAndFlush, EnterWait, EpollReturns, EpollFails, BatchDone,
         DispatchWayland, DispatchWaylandFails, HandleSocket, RespondRequest,
         RecvEmpty, RecvFails, CloseSockets, Signal, ClientSends, Deliver,
         QueryArrives, CompositorReads, CompositorSends
  <2>. QED BY <2>1
<1>. QED BY <1>1, <1>2, <1>3

\* No session ends without an alert for its client, on any path out of main.
THEOREM AlwaysAnnounced == Spec => ClosesAreAnnounced
<1>1. ASSUME TypeOK, [Next]_vars
      PROVE  [\A c \in Client : sessions[c] = "connected" /\ sessions'[c] = "none" =>
               \E t \in out' : t.to = c /\ t.kind = "alert"]_vars
  BY <1>1, AnnounceStep
<1>. QED BY <1>1, TypeCorrect, PTL DEF Spec, ClosesAreAnnounced

-----------------------------------------------------------------------------
(***************************************************************************)
(* Refinement.                                                             *)
(***************************************************************************)

\* Both modules read a packet alike.
LEMMA SameEffect ==
  ASSUME NEW d PROVE RP!Effect(d) = IF d.kind = "data" THEN net_handle_receive(d.body)
                                                      ELSE <<>>
BY DEF RP!Effect, RP!net_handle_receive, RP!vp_handle_packet, RP!ButtonRequest,
       RP!MotionRequest, RP!Moves, RP!wl_fixed_from_int, RP!Wrap, RP!Decode, RP!Signed,
       net_handle_receive, vp_handle_packet, ButtonRequest, MotionRequest, Moves,
       wl_fixed_from_int, Wrap, Decode, Signed

\* An accepted record is one that was sent and not applied: RemotePointer's Apply.
LEMMA RefineReceive ==
  ASSUME TypeOK, NEW d \in Plain \cup sent, Take(d),
         \/ RecvOversize(d) \/ HandleHello(d) \/ HandleKey(d) \/ RejectKey(d)
         \/ HandleData(d) \/ HandleClose(d) \/ Reject(d)
  PROVE  [RP!Next]_<<sent, applied, stream>>
<1>1. UNCHANGED sent
  BY DEF Take
<1>2. CASE HandleData(d)
  <2>1. d.kind = "data" /\ (d \in Plain => d.kind # "data")
    BY <1>2 DEF HandleData, Plain
  <2>2. d \in sent \ applied
    BY <1>2, <2>1 DEF HandleData, Accepts
  <2>3. applied' = applied \cup {d} /\ stream' = stream \o RP!Effect(d)
    BY <1>2, <2>1, SameEffect DEF HandleData
  <2>4. RP!Apply
    BY <1>1, <2>2, <2>3 DEF RP!Apply
  <2>. QED BY <2>4 DEF RP!Next
<1>3. CASE HandleClose(d)
  <2>1. d.kind = "close" /\ (d \in Plain => d.kind # "close")
    BY <1>3 DEF HandleClose, Plain
  <2>2. d \in sent \ applied
    BY <1>3, <2>1 DEF HandleClose, Accepts
  <2>3. applied' = applied \cup {d} /\ stream' = stream \o RP!Effect(d)
    <3>1. RP!Effect(d) = <<>>
      BY <2>1, SameEffect
    <3>2. stream \o <<>> = stream
      BY ConcatEmptySeq DEF TypeOK, WaylandType
    <3>. QED BY <1>3, <3>1, <3>2 DEF HandleClose, wayland
  <2>4. RP!Apply
    BY <1>1, <2>2, <2>3 DEF RP!Apply
  <2>. QED BY <2>4 DEF RP!Next
<1>4. CASE ~HandleData(d) /\ ~HandleClose(d)
  <2>1. UNCHANGED <<applied, stream>>
    BY <1>4 DEF RecvOversize, HandleHello, HandleKey, RejectKey, Reject, dtls, wayland
  <2>. QED BY <1>1, <2>1
<1>. QED BY <1>2, <1>3, <1>4

LEMMA RefineStep ==
  ASSUME TypeOK, TypeOK', PairedInv', [Next]_vars
  PROVE  [RP!Next]_<<sent, applied, stream>>
<1>. USE DEF loop, dtls, wayland, mdns, udp
<1>1. CASE Receive
  BY <1>1, ReceiveCases, RefineReceive
<1>2. CASE ClientSends
  <2>1. PICK r : sent' = sent \cup {r}
    BY <1>2 DEF ClientSends
  <2>2. UNCHANGED <<applied, stream>>
    BY <1>2 DEF ClientSends
  <2>3. CASE r \in sent
    <3>1. sent' = sent
      BY <2>1, <2>3
    <3>. QED BY <2>2, <3>1
  <2>4. CASE r \notin sent
    <3>1. r \in sent' \ sent /\ r \in RP!Record /\ r.from \in Paired
      BY <2>1, <2>4 DEF TypeOK, NetType, PairedInv
    <3>2. RP!Send
      BY <2>1, <2>2, <3>1 DEF RP!Send
    <3>. QED BY <3>2 DEF RP!Next
  <2>. QED BY <2>3, <2>4
<1>3. CASE ~Receive /\ ~ClientSends
  <2>1. UNCHANGED <<sent, applied, stream>>
    BY <1>3 DEF Next, Process, Loop, Handlers, Cleanup, Environment, Exited, vars,
         CheckQuit, DispatchAndFlush, EnterWait, EpollReturns, EpollFails, BatchDone,
         DispatchWayland, DispatchWaylandFails, HandleSocket, RespondRequest,
         RecvEmpty, RecvFails, FreeContext, CloseSockets, Signal, Deliver,
         QueryArrives, CompositorReads, CompositorSends
  <2>. QED BY <2>1
<1>. QED BY <1>1, <1>2, <1>3

\* The process, with its datagrams, sessions, event loop and shutdown, does for
\* the compositor only what RemotePointer allows.
THEOREM Implements == Spec => Refines
<1>1. Init => RP!Init
  BY DEF Init, RP!Init
<1>2. TypeOK /\ TypeOK' /\ PairedInv' /\ [Next]_vars
        => [RP!Next]_<<sent, applied, stream>>
  BY RefineStep
<1>3. Init => PairedInv
  BY DEF Init, PairedInv, OnlyPaired
<1>4. <<sent, applied, stream>> = RP!rpvars
  BY DEF RP!rpvars
<1>. QED BY <1>1, <1>2, <1>3, <1>4, PairedStep, TypeCorrect, PTL
       DEF Spec, Refines, RP!Spec, RP!rpvars

=============================================================================
