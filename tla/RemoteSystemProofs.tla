------------------------- MODULE RemoteSystemProofs -------------------------
(***************************************************************************)
(* The composition for any clients, passwords, number of packets and       *)
(* faults: its server is a server of Server, whose theorems therefore hold *)
(* in it, and a client that believes in a session has one.                 *)
(***************************************************************************)
EXTENDS RemoteSystem, ServerSafetyProofs, FiniteSetTheorems

-----------------------------------------------------------------------------
(***************************************************************************)
(* The composition refines Server.                                         *)
(***************************************************************************)
LEMMA EmitServes == Emit => [Environment]_vars
  BY DEF Emit, Environment

LEMMA SysStepServes == [SysNext]_sysvars => [Next]_vars
<1> SUFFICES ASSUME [SysNext]_sysvars PROVE [Next]_vars
  OBVIOUS
<1>1. CASE ServerStep(Process)
  BY <1>1 DEF ServerStep, Next
<1>2. CASE ServerEnvironment
  BY <1>2 DEF ServerEnvironment, Next, Environment
<1>3. CASE ReadPassword
  BY <1>3 DEF ReadPassword
<1>4. CASE ClientStep \/ ClientReceives
  BY <1>4, EmitServes DEF ClientStep, ClientReceives, Next
<1>5. CASE Arrives \/ Misordered
  BY <1>5 DEF Arrives, Misordered, ArrivesAs, Next, Environment
<1>6. CASE Lost
  BY <1>6 DEF Lost
<1>7. CASE (Exited /\ UNCHANGED sysvars) \/ UNCHANGED sysvars
  BY <1>7 DEF sysvars
<1> QED
  BY <1>1, <1>2, <1>3, <1>4, <1>5, <1>6, <1>7 DEF SysNext

\* Whatever the test client and the network do, the server's part of the
\* composition behaves as Server allows.
THEOREM ServerInside == SysSpec => Spec
<1>1. SysInit => Init
  BY DEF SysInit
<1> QED
  BY <1>1, SysStepServes, PTL DEF SysSpec, Spec

\* So the composition, too, drives the compositor as RemotePointer promises.
THEOREM SystemImplements == SysSpec => Refines
  BY ServerInside, Implements, PTL

\* And the process of the composition ends cleanly.
THEOREM SystemExitsCleanly == SysSpec => []CleanExit
  BY ServerInside, ExitIsClean, PTL

-----------------------------------------------------------------------------
(***************************************************************************)
(* Agreement on sessions.                                                  *)
(***************************************************************************)
\* A Finished on its way to the client is one of a handshake that the server
\* completed with it.
DownInv ==
  /\ me \in Client
  /\ down \in Seq([kind: {"flight", "finished", "alert"}, ep: Nat])
  /\ \A j \in 1 .. Len(down) :
       down[j].kind = "finished" => me \in Paired /\ down[j].ep \in 1 .. epoch[me]

AgreementInv == DownInv /\ SessionAgreed

LEMMA FinishedReceive ==
  ASSUME TypeOK, NEW d, Take(d),
         \/ RecvOversize(d) \/ HandleHello(d) \/ HandleKey(d) \/ RejectKey(d)
         \/ HandleData(d) \/ HandleClose(d) \/ Reject(d)
  PROVE  /\ \A c \in Client : epoch'[c] >= epoch[c]
         /\ \A t \in out' : t.kind = "finished" => t.to \in Paired /\ epoch'[t.to] >= 1
<1>1. d.from \in Client /\ epoch \in [Client -> Nat]
  BY TakeType DEF TypeOK, DtlsType
<1>2. CASE RecvOversize(d) \/ Reject(d)
  BY <1>1, <1>2 DEF RecvOversize, Reject, dtls
<1>3. CASE HandleHello(d)
  BY <1>1, <1>3 DEF HandleHello, net_handle_send
<1>4. CASE HandleKey(d)
  <2>1. d.from \in Paired
    BY <1>1, <1>4, KeyMatchesPaired DEF HandleKey
  <2>2. epoch' = [epoch EXCEPT ![d.from] = @ + 1]
    BY <1>4 DEF HandleKey
  <2>3. \A t \in out' : t.to = d.from
    BY <1>4 DEF HandleKey, net_handle_send
  <2> QED
    BY <1>1, <2>1, <2>2, <2>3
<1>5. CASE RejectKey(d)
  BY <1>1, <1>5 DEF RejectKey, net_handle_send
<1>6. CASE HandleData(d)
  BY <1>1, <1>6 DEF HandleData
<1>7. CASE HandleClose(d)
  BY <1>1, <1>7 DEF HandleClose, net_handle_send
<1> QED
  BY <1>2, <1>3, <1>4, <1>5, <1>6, <1>7

LEMMA FinishedStep ==
  ASSUME TypeOK, Process
  PROVE  /\ \A c \in Client : epoch'[c] >= epoch[c]
         /\ \A t \in out' : t.kind = "finished" => t.to \in Paired /\ epoch'[t.to] >= 1
<1>1. \A c \in Client : epoch[c] \in Nat
  BY DEF TypeOK, DtlsType
<1>2. CASE Loop
  BY <1>1, <1>2 DEF Loop, CheckQuit, DispatchAndFlush, EnterWait, EpollReturns, EpollFails,
                    BatchDone, dtls
<1>3. CASE Receive
  BY <1>3, ReceiveCases, FinishedReceive
<1>4. CASE Handlers /\ ~Receive
  BY <1>1, <1>4 DEF Handlers, DispatchWayland, DispatchWaylandFails, HandleSocket,
                    RespondRequest, RecvEmpty, RecvFails, dtls
<1>5. CASE Cleanup
  BY <1>1, <1>5 DEF Cleanup, FreeContext, CloseSockets, dtls, net_handle_send
<1> QED
  BY <1>2, <1>3, <1>4, <1>5 DEF Process

\* What the server does lets no Finished on its way become wrong, and adds none
\* that is.
LEMMA DownServer ==
  ASSUME TypeOK, TypeOK', AgreementInv, ServerStep(Process)
  PROVE  AgreementInv'
<1> DEFINE Kinds == [kind: {"flight", "finished", "alert"}, ep: Nat]
<1>1. UNCHANGED <<me, session, is_connected>> /\ me \in Client
  BY DEF ServerStep, client, AgreementInv, DownInv
<1>2. /\ epoch[me] \in Nat /\ epoch'[me] \in Nat /\ epoch'[me] >= epoch[me]
      /\ \A t \in out' : t.kind = "finished" => t.to \in Paired /\ epoch'[t.to] >= 1
  BY <1>1, FinishedStep DEF ServerStep, TypeOK, DtlsType
<1>3. SessionAgreed'
  BY <1>1, <1>2 DEF AgreementInv, SessionAgreed
<1>4. \A e : e \in 1 .. epoch[me] => e \in 1 .. epoch'[me]
  BY <1>2
<1>5. down \in Seq(Kinds) /\ Len(down) \in Nat
  BY DEF AgreementInv, DownInv
<1>6. CASE Answers = {}
  <2>1. down' = down
    BY <1>6 DEF ServerStep
  <2> QED
    BY <1>1, <1>3, <1>4, <2>1 DEF AgreementInv, DownInv
<1>7. CASE Answers # {}
  <2>1. down' = Append(down, Answer)
    BY <1>7 DEF ServerStep
  <2>2. PICK t : t \in Answers /\ t = CHOOSE s \in Answers : TRUE
    BY <1>7
  <2>3. t \in out' /\ t.to = me /\ t \in Attempt
    BY <2>2 DEF Answers, TypeOK, NetType
  <2>4. Answer = [kind |-> t.kind, ep |-> epoch'[me]]
    BY <2>2 DEF Answer
  <2>5. Answer \in Kinds
    BY <1>2, <2>3, <2>4 DEF Attempt
  <2>6. Answer.kind = "finished" => me \in Paired /\ Answer.ep \in 1 .. epoch'[me]
    BY <1>2, <2>3, <2>4
  <2>7. /\ down' \in Seq(Kinds) /\ Len(down') = Len(down) + 1
        /\ \A j \in 1 .. Len(down) : down'[j] = down[j]
        /\ down'[Len(down) + 1] = Answer
    BY <1>5, <2>1, <2>5
  <2>8. \A j \in 1 .. Len(down') :
          down'[j].kind = "finished" => me \in Paired /\ down'[j].ep \in 1 .. epoch'[me]
    <3>1. ASSUME NEW j \in 1 .. Len(down), down'[j].kind = "finished"
          PROVE  me \in Paired /\ down'[j].ep \in 1 .. epoch'[me]
      BY <1>4, <2>7, <3>1 DEF AgreementInv, DownInv
    <3>2. \A j \in 1 .. Len(down') : j \in 1 .. Len(down) \/ j = Len(down) + 1
      BY <1>5, <2>7
    <3> QED
      BY <2>6, <2>7, <3>1, <3>2
  <2> QED
    BY <1>1, <1>3, <2>7, <2>8 DEF AgreementInv, DownInv
<1> QED
  BY <1>6, <1>7

\* The client sends: no session of the server changes.
LEMMA EmitKeeps == Emit => UNCHANGED epoch
  BY DEF Emit, ClientSends, vars, dtls

\* Only a Finished makes the client believe in a session.
LEMMA ClientBelieves ==
  /\ TC!TCStep => UNCHANGED <<session, is_connected>>
  /\ TC!HandleFlight => UNCHANGED <<session, is_connected>>
  /\ TC!HandleAlert => UNCHANGED <<session, is_connected>>
  /\ \A k : TC!HandleOther(k) => UNCHANGED <<session, is_connected>>
  /\ \A l : TC!ReadPassword(l) => UNCHANGED <<session, is_connected>>
  /\ \A e : TC!HandleFinished(e) => session' = e
  BY DEF TC!TCStep, TC!OpenFails, TC!Open, TC!Connect, TC!HandshakeTimeout, TC!Connected,
         TC!Write, TC!Cleanup, TC!HandleFlight, TC!HandleAlert, TC!HandleOther,
         TC!ReadPassword, TC!HandleFinished

LEMMA AgreementReceives ==
  ASSUME AgreementInv, ClientReceives
  PROVE  AgreementInv'
<1> DEFINE m == Head(down)
           Kinds == [kind: {"flight", "finished", "alert"}, ep: Nat]
<1>1. UNCHANGED <<me, epoch>> /\ down # <<>> /\ down' = Tail(down)
  BY EmitKeeps DEF ClientReceives
<1>2. down \in Seq(Kinds) /\ m = down[1] /\ 1 \in 1 .. Len(down)
  BY <1>1 DEF AgreementInv, DownInv
<1>3. /\ down' \in Seq(Kinds) /\ Len(down') = Len(down) - 1
      /\ \A j \in 1 .. Len(down') : down'[j] = down[j + 1] /\ j + 1 \in 1 .. Len(down)
  BY <1>1, <1>2
<1>4. DownInv'
  BY <1>1, <1>3 DEF AgreementInv, DownInv
<1>5. SessionAgreed'
  <2>1. CASE m.kind = "finished" /\ TC!HandleFinished(m.ep)
    <3>1. me \in Paired /\ m.ep \in 1 .. epoch[me]
      BY <1>2, <2>1 DEF AgreementInv, DownInv
    <3>2. session' = m.ep
      BY <2>1, ClientBelieves
    <3> QED
      BY <1>1, <3>1, <3>2 DEF SessionAgreed
  <2>2. CASE UNCHANGED <<session, is_connected>>
    BY <1>1, <2>2 DEF AgreementInv, SessionAgreed
  <2> QED
    BY <2>1, <2>2, ClientBelieves DEF ClientReceives
<1> QED
  BY <1>4, <1>5 DEF AgreementInv

Within(r, s) == \A k \in 1 .. Len(r) : \E l \in 1 .. Len(s) : r[k] = s[l]

\* A datagram that is lost or repeated leaves only what was there.
LEMMA LosingKeeps ==
  ASSUME NEW S, NEW s \in Seq(S), NEW j \in 1 .. Len(s),
         NEW r, r = RemoveAt(s, j) \/ r = <<s[j]>> \o s
  PROVE  r \in Seq(S) /\ Within(r, s)
<1> USE DEF Within
<1>1. CASE r = RemoveAt(s, j)
  <2>1. Len(s) \in Nat /\ j \in Nat /\ 1 <= j /\ j <= Len(s)
    OBVIOUS
  <2> DEFINE a == SubSeq(s, 1, j - 1)
             b == SubSeq(s, j + 1, Len(s))
  <2>2. /\ a \in Seq(S) /\ Len(a) = j - 1
        /\ \A k \in 1 .. j - 1 : a[k] = s[k]
    BY <2>1, SubSeqProperties
  <2>3. /\ b \in Seq(S) /\ Len(b) = Len(s) - j
        /\ \A k \in 1 .. Len(s) - j : b[k] = s[j + k]
    BY <2>1, SubSeqProperties
  <2>4. r = a \o b
    BY <1>1 DEF RemoveAt
  <2> HIDE DEF a, b
  <2>5. /\ r \in Seq(S) /\ Len(r) = Len(s) - 1
        /\ \A k \in 1 .. Len(r) : r[k] = IF k <= j - 1 THEN s[k] ELSE s[k + 1]
    <3>1. /\ r \in Seq(S) /\ Len(r) = Len(a) + Len(b)
          /\ \A k \in 1 .. Len(a) + Len(b) :
               r[k] = IF k <= Len(a) THEN a[k] ELSE b[k - Len(a)]
      <4>1. a \in Seq(S) /\ b \in Seq(S)
        BY <2>2, <2>3
      <4> QED
        BY <2>4, <4>1, ConcatProperties
    <3>2. Len(a) = j - 1 /\ Len(b) = Len(s) - j /\ Len(a) + Len(b) = Len(s) - 1
      BY <2>1, <2>2, <2>3
    <3>3. ASSUME NEW k \in 1 .. Len(s) - 1 PROVE r[k] = IF k <= j - 1 THEN s[k] ELSE s[k + 1]
      <4>1. CASE k <= j - 1
        <5>1. k \in 1 .. j - 1
          BY <2>1, <4>1
        <5>2. r[k] = a[k]
          BY <3>1, <3>2, <4>1
        <5> QED
          BY <2>2, <4>1, <5>1, <5>2
      <4>2. CASE ~(k <= j - 1)
        <5>1. k - (j - 1) \in 1 .. Len(s) - j /\ j + (k - (j - 1)) = k + 1
          BY <2>1, <4>2
        <5>2. r[k] = b[k - (j - 1)]
          BY <3>1, <3>2, <4>2
        <5>3. b[k - (j - 1)] = s[k + 1]
          BY <2>3, <5>1
        <5> QED
          BY <4>2, <5>2, <5>3
      <4> QED
        BY <4>1, <4>2
    <3> QED
      BY <3>1, <3>2, <3>3
  <2> QED
    BY <2>1, <2>5
<1>2. CASE r = <<s[j]>> \o s
  <2>1. s[j] \in S
    OBVIOUS
  <2>2. /\ r \in Seq(S) /\ Len(r) = Len(s) + 1
        /\ \A k \in 1 .. Len(r) : r[k] = IF k = 1 THEN s[j] ELSE s[k - 1]
    BY <1>2, <2>1
  <2> QED
    BY <2>2
<1> QED
  BY <1>1, <1>2

LEMMA AgreementLost == ASSUME AgreementInv, Lost PROVE AgreementInv'
<1> DEFINE Kinds == [kind: {"flight", "finished", "alert"}, ep: Nat]
<1>1. UNCHANGED <<me, epoch, session, is_connected>>
  BY DEF Lost, vars, dtls, client
<1>2. CASE UNCHANGED down
  BY <1>1, <1>2 DEF AgreementInv, DownInv, SessionAgreed
<1>3. CASE \E j \in 1 .. Len(down) : down' \in {RemoveAt(down, j), <<down[j]>> \o down}
  <2>1. PICK j \in 1 .. Len(down) : down' \in {RemoveAt(down, j), <<down[j]>> \o down}
    BY <1>3
  <2>2. down \in Seq(Kinds)
    BY DEF AgreementInv, DownInv
  <2>3. down' \in Seq(Kinds) /\ Within(down', down)
    <3> HIDE DEF Kinds
    <3>1. down' = RemoveAt(down, j) \/ down' = <<down[j]>> \o down
      BY <2>1
    <3> QED
      BY <2>2, <3>1, LosingKeeps
  <2> QED
    BY <1>1, <2>3 DEF AgreementInv, DownInv, SessionAgreed, Within
<1> QED
  BY <1>2, <1>3 DEF Lost

LEMMA AgreementStep ==
  ASSUME TypeOK, TypeOK', AgreementInv, [SysNext]_sysvars
  PROVE  AgreementInv'
<1>1. CASE UNCHANGED <<me, down, epoch, session, is_connected>>
  BY <1>1 DEF AgreementInv, DownInv, SessionAgreed
<1>2. CASE ServerStep(Process)
  BY <1>2, DownServer
<1>3. CASE ServerEnvironment
  BY <1>1, <1>3 DEF ServerEnvironment, Signal, CompositorReads, CompositorSends, dtls, client
<1>4. CASE ReadPassword
  BY <1>1, <1>4, ClientBelieves DEF ReadPassword, vars, dtls
<1>5. CASE ClientStep
  BY <1>1, <1>5, ClientBelieves, EmitKeeps DEF ClientStep
<1>6. CASE ClientReceives
  BY <1>6, AgreementReceives
<1>7. CASE Arrives \/ Misordered
  BY <1>1, <1>7 DEF Arrives, Misordered, ArrivesAs, Deliver, dtls, client
<1>8. CASE Lost
  BY <1>8, AgreementLost
<1>9. CASE UNCHANGED sysvars
  BY <1>1, <1>9 DEF sysvars, vars, dtls, client
<1> QED
  BY <1>2, <1>3, <1>4, <1>5, <1>6, <1>7, <1>8, <1>9 DEF SysNext

\* Whatever is lost, repeated or late, a client that believes in a session has
\* the identity and the password, and the server completed that handshake.
THEOREM Agreement == SysSpec => []SessionAgreed
<1>1. SysInit => AgreementInv
  <2> SUFFICES ASSUME SysInit PROVE AgreementInv
    OBVIOUS
  <2>1. me \in Client /\ down = <<>> /\ is_connected = FALSE
    BY DEF SysInit, TC!TCInit
  <2> QED
    BY <2>1 DEF AgreementInv, DownInv, SessionAgreed
<1>2. SysSpec => []TypeOK
  BY ServerInside, TypeCorrect, PTL
<1>3. AgreementInv => SessionAgreed
  BY DEF AgreementInv
<1> QED
  BY <1>1, <1>2, <1>3, AgreementStep, PTL DEF SysSpec

-----------------------------------------------------------------------------
(***************************************************************************)
(* The run in which nothing goes wrong.                                    *)
(***************************************************************************)

\* No fault so far, and a client with the right password.
Undisturbed == faults = 0 /\ me \in Paired

\* What the client has sent and the server has not taken yet.
Pending == rx[Fam[me]] \o up

LinkInv ==
  /\ me \in Client /\ Fam[me] \in open
  /\ pc \notin {"free", "close", "exited"}
  /\ up \in Seq(Datagram)
  /\ \A s \in Family \ {Fam[me]} : rx[s] = <<>>

NoSession == /\ session = 0 /\ ~is_connected /\ i = 0
             /\ sent = {} /\ applied = {} /\ keys[me] = epoch[me]

Before ==
  /\ at \in {"password", "socket", "connect"} /\ peer = "none"
  /\ NoSession /\ sessions[me] = "none" /\ epoch[me] = 0
  /\ Pending = <<>> /\ down = <<>>
  /\ at # "password" => line \in Typed[me]

\* The hello is on its way, or the server's flight.
Hello ==
  /\ at = "handshake" /\ peer = "hello" /\ line \in Typed[me]
  /\ NoSession /\ epoch[me] = 0
  /\ \/ /\ Pending = <<[kind |-> "hello", from |-> me]>> /\ down = <<>>
        /\ sessions[me] = "none"
     \/ /\ Pending = <<>> /\ down = <<[kind |-> "flight", ep |-> 0]>>
        /\ sessions[me] = "handshake"

\* The key exchange is on its way, or the server's Finished.
KeyExchange ==
  /\ at = "handshake" /\ peer = "key"
  /\ NoSession
  /\ \/ /\ Pending = <<[kind |-> "key", from |-> me]>> /\ down = <<>>
        /\ sessions[me] = "handshake" /\ epoch[me] = 0
     \/ /\ Pending = <<>> /\ down = <<[kind |-> "finished", ep |-> 1]>>
        /\ sessions[me] = "connected" /\ epoch[me] = 1

\* The records so far: the packets, and the close after them.
Written == IF at = "exited" THEN i + 1 ELSE i

Numbered ==
  /\ IsFiniteSet(sent) /\ Cardinality(sent) = Written
  /\ \A r \in sent : /\ r.from = me /\ r.ep = 1 /\ r.n \in 1 .. Written
                     /\ r.kind = IF r.n = i + 1 THEN "close" ELSE "data"
  /\ \A r, s \in sent : r.n = s.n => r = s
  /\ \A k \in 1 .. Written : \E r \in sent : r.n = k

\* The last of them are pending in the order they were sent; all others have
\* been applied.
InOrder ==
  /\ Len(Pending) <= Written
  /\ \A j \in 1 .. Len(Pending) :
       Pending[j] \in sent /\ Pending[j].n = Written - Len(Pending) + j
  /\ applied = {r \in sent : r.n <= Written - Len(Pending)}

Connection ==
  /\ at \in {"handshake", "write", "cleanup", "exited"}
  /\ is_connected /\ session = 1 /\ epoch[me] = 1 /\ keys[me] = 1
  /\ i \in 0 .. ITERATIONS
  /\ at = "handshake" => i = 0
  /\ at \in {"cleanup", "exited"} => i = ITERATIONS
  /\ IF at = "exited" THEN fd = "closed" ELSE peer = "connected"
  /\ sessions[me] = IF at = "exited" /\ Pending = <<>> THEN "none" ELSE "connected"
  /\ Numbered /\ InOrder

Stage == Before \/ Hello \/ KeyExchange \/ Connection

CalmInv == Undisturbed => LinkInv /\ Stage

LEMMA PendingType ==
  ASSUME TypeOK, LinkInv
  PROVE  /\ rx[Fam[me]] \in Seq(Datagram) /\ up \in Seq(Datagram)
         /\ Pending \in Seq(Datagram) /\ Len(Pending) \in Nat
         /\ Fam[me] \in Family
BY ServerAssumption, ConcatProperties, LenProperties DEF LinkInv, TypeOK, NetType, Pending

\* One list after another: what is taken from the first, moved between them, or
\* added to the second.
LEMMA TwoLists ==
  ASSUME NEW S, NEW a \in Seq(S), NEW b \in Seq(S)
  PROVE  /\ a # <<>> => /\ a \o b # <<>> /\ Head(a \o b) = Head(a)
                        /\ Tail(a \o b) = Tail(a) \o b
         /\ b # <<>> => Append(a, Head(b)) \o Tail(b) = a \o b
         /\ \A x \in S : a \o Append(b, x) = Append(a \o b, x)
         /\ a \o b = <<>> <=> a = <<>> /\ b = <<>>
<1>1. a \o b \in Seq(S) /\ Len(a \o b) = Len(a) + Len(b) /\ Len(a) \in Nat /\ Len(b) \in Nat
  BY ConcatProperties, LenProperties
<1>2. ASSUME a # <<>>
      PROVE  a \o b # <<>> /\ Head(a \o b) = Head(a) /\ Tail(a \o b) = Tail(a) \o b
  <2>1. Len(a) >= 1
    BY <1>2, EmptySeq
  <2>2. a \o b # <<>> /\ Head(a \o b) = Head(a)
    BY <1>1, <2>1, ConcatProperties, EmptySeq
  <2>3. Tail(a) \in Seq(S) /\ Len(Tail(a)) = Len(a) - 1 /\ Tail(a \o b) \in Seq(S)
        /\ Len(Tail(a \o b)) = Len(a) + Len(b) - 1 /\ Tail(a) \o b \in Seq(S)
        /\ Len(Tail(a) \o b) = Len(a) + Len(b) - 1
    BY <1>1, <1>2, <2>1, <2>2, HeadTailProperties, ConcatProperties
  <2>4. \A k \in 1 .. Len(a) + Len(b) - 1 : Tail(a \o b)[k] = (Tail(a) \o b)[k]
    BY <1>1, <1>2, <2>1, <2>2, <2>3, HeadTailProperties, ConcatProperties
  <2> QED
    BY <2>2, <2>3, <2>4, SeqEqual
<1>3. ASSUME b # <<>>
      PROVE  Append(a, Head(b)) \o Tail(b) = a \o b
  <2>1. /\ Head(b) \in S /\ Tail(b) \in Seq(S) /\ <<Head(b)>> \in Seq(S)
        /\ b = <<Head(b)>> \o Tail(b)
    BY <1>3
  <2>2. Append(a, Head(b)) = a \o <<Head(b)>>
    BY <2>1, AppendIsConcat
  <2> QED
    BY <2>1, <2>2, ConcatAssociative
<1>4. ASSUME NEW x \in S
      PROVE  a \o Append(b, x) = Append(a \o b, x)
  <2>1. Append(b, x) = b \o <<x>> /\ Append(a \o b, x) = (a \o b) \o <<x>> /\ <<x>> \in Seq(S)
    BY <1>1, AppendIsConcat
  <2> QED
    BY <2>1, ConcatAssociative
<1>5. a \o b = <<>> <=> a = <<>> /\ b = <<>>
  BY <1>1, EmptySeq
<1> QED
  BY <1>2, <1>3, <1>4, <1>5

\* What leaves the link, the sessions and the client alone keeps the stage.
LEMMA StageKept ==
  ASSUME Stage,
         UNCHANGED <<client, me, Pending, down, sessions, epoch, keys, sent, applied>>
  PROVE  Stage'
<1> USE DEF client, NoSession
<1>1. Pending' = Pending
  OBVIOUS
<1> HIDE DEF Pending
<1>2. CASE Before
  BY <1>1, <1>2 DEF Before, Stage
<1>3. CASE Hello
  BY <1>1, <1>3 DEF Hello, Stage
<1>4. CASE KeyExchange
  BY <1>1, <1>4 DEF KeyExchange, Stage
<1>5. CASE Connection
  <2>1. Written' = Written
    BY DEF Written
  <2> QED
    BY <1>1, <1>5, <2>1 DEF Connection, Numbered, InOrder, Stage
<1> QED
  BY <1>2, <1>3, <1>4, <1>5 DEF Stage

LEMMA LinkKept ==
  ASSUME LinkInv, Stage, pc' \notin {"free", "close", "exited"},
         UNCHANGED <<client, me, up, down, open, rx, sessions, epoch, keys, sent, applied>>
  PROVE  LinkInv' /\ Stage'
<1>1. Pending' = Pending
  BY DEF Pending
<1>2. Stage'
  BY <1>1, StageKept
<1> QED
  BY <1>2 DEF LinkInv

\* The server takes the first datagram that is pending.
LEMMA TakesPending ==
  ASSUME TypeOK, LinkInv, NEW d, Take(d), UNCHANGED <<me, up>>
  PROVE  /\ Pending # <<>> /\ d = Head(Pending) /\ Pending' = Tail(Pending)
         /\ open' = open /\ sent' = sent
         /\ \A s \in Family \ {Fam[me]} : rx'[s] = <<>>
<1>1. /\ rx[sock] # <<>> /\ d = Head(rx[sock])
      /\ rx' = [rx EXCEPT ![sock] = Tail(rx[sock])]
      /\ open' = open /\ sent' = sent
  BY DEF Take
<1>2. sock \in Family /\ rx \in [Family -> Seq(Datagram)]
  BY TakeType DEF TypeOK, NetType
<1>3. sock = Fam[me]
  BY <1>1, <1>2 DEF LinkInv
<1>4. rx[Fam[me]] \in Seq(Datagram) /\ up \in Seq(Datagram) /\ rx[Fam[me]] # <<>>
  BY <1>1, <1>3, PendingType
<1>5. rx'[Fam[me]] = Tail(rx[Fam[me]]) /\ \A s \in Family \ {Fam[me]} : rx'[s] = rx[s]
  BY <1>1, <1>2, <1>3
<1>6. Pending' = rx'[Fam[me]] \o up
  BY DEF Pending
<1>7. /\ Pending # <<>> /\ Head(Pending) = Head(rx[Fam[me]])
      /\ Tail(Pending) = Tail(rx[Fam[me]]) \o up
  BY <1>4, TwoLists DEF Pending
<1> QED
  BY <1>1, <1>3, <1>5, <1>6, <1>7 DEF LinkInv

\* The client finds what the server has answered.
LEMMA OneAnswer ==
  ASSUME ServerStep(Process), NEW k, out' = {net_handle_send(me, k, "sent")}
  PROVE  down' = Append(down, [kind |-> k, ep |-> epoch'[me]])
<1> DEFINE t == net_handle_send(me, k, "sent")
<1>1. t.to = me /\ t.res = "sent" /\ t.kind = k
  BY DEF net_handle_send
<1> HIDE DEF t
<1>2. Answers = {t}
  BY <1>1 DEF Answers, t
<1>3. (CHOOSE s \in Answers : TRUE) = t
  BY <1>2
<1>4. Answer = [kind |-> k, ep |-> epoch'[me]]
  BY <1>1, <1>3 DEF Answer
<1> QED
  BY <1>2, <1>4 DEF ServerStep

\* The handlers see the very answer the network gets.
LEMMA NothingRefused ==
  ASSUME MaxFaults > 0, faults \in Nat, ServerStep(Process), faults' = 0
  PROVE  /\ pc' # "free" /\ \A t \in out' : t.res = "sent"
         /\ UNCHANGED <<client, me, up>>
<1>1. ~(pc' = "free" \/ \E t \in out' : t.res # "sent")
  BY DEF ServerStep, Excuse
<1> QED
  BY <1>1 DEF ServerStep

\* The first hello and the first key exchange are answered.
LEMMA CalmHello ==
  ASSUME TypeOK, LinkInv, Hello, UNCHANGED <<client, me, up>>,
         ServerStep(Process), pc' # "free", \A t \in out' : t.res = "sent",
         NEW d, Take(d),
         \/ RecvOversize(d) \/ HandleHello(d) \/ HandleKey(d) \/ RejectKey(d)
         \/ HandleData(d) \/ HandleClose(d) \/ Reject(d)
  PROVE  Hello'
<1>1. Pending # <<>> /\ d = Head(Pending) /\ Pending' = Tail(Pending) /\ sent' = sent
  BY TakesPending
<1> HIDE DEF Pending
<1>2. /\ Pending = <<[kind |-> "hello", from |-> me]>> /\ down = <<>>
  BY <1>1 DEF Hello
<1>3. d.kind = "hello" /\ d.from = me /\ Pending' = <<>> /\ me \in Client
  BY <1>1, <1>2 DEF LinkInv
<1>4. HandleHello(d)
  BY <1>3 DEF RecvOversize, HandleKey, RejectKey, HandleData, HandleClose, Reject
<1>5. /\ sessions' = [sessions EXCEPT ![me] = "handshake"]
      /\ UNCHANGED <<epoch, keys, applied>>
  BY <1>3, <1>4 DEF HandleHello
<1>6. out' = {net_handle_send(me, "flight", "sent")}
  <2>1. PICK res : out' = {net_handle_send(me, "flight", res)}
    BY <1>3, <1>4 DEF HandleHello
  <2>2. net_handle_send(me, "flight", res).res = res
    BY DEF net_handle_send
  <2> QED
    BY <2>1, <2>2
<1>7. down' = Append(down, [kind |-> "flight", ep |-> epoch'[me]])
  BY <1>6, OneAnswer
<1>8. epoch[me] = 0
  BY DEF Hello
<1>9. down' = <<[kind |-> "flight", ep |-> 0]>>
  BY <1>2, <1>5, <1>7, <1>8
<1>10. sessions'[me] = "handshake"
  BY <1>3, <1>5 DEF TypeOK, DtlsType
<1> QED
  BY <1>1, <1>3, <1>5, <1>9, <1>10 DEF Hello, NoSession, client

LEMMA CalmKey ==
  ASSUME TypeOK, LinkInv, KeyExchange, me \in Paired, UNCHANGED <<client, me, up>>,
         ServerStep(Process), pc' # "free", \A t \in out' : t.res = "sent",
         NEW d, Take(d),
         \/ RecvOversize(d) \/ HandleHello(d) \/ HandleKey(d) \/ RejectKey(d)
         \/ HandleData(d) \/ HandleClose(d) \/ Reject(d)
  PROVE  KeyExchange'
<1>1. Pending # <<>> /\ d = Head(Pending) /\ Pending' = Tail(Pending) /\ sent' = sent
  BY TakesPending
<1> HIDE DEF Pending
<1>2. /\ Pending = <<[kind |-> "key", from |-> me]>> /\ down = <<>>
      /\ sessions[me] = "handshake" /\ epoch[me] = 0
  BY <1>1 DEF KeyExchange
<1>3. d.kind = "key" /\ d.from = me /\ Pending' = <<>> /\ me \in Client
  BY <1>1, <1>2 DEF LinkInv
<1>4. KeyMatches(me)
  BY SystemAssumption, ServerAssumption DEF KeyMatches, net_get_psk_info, Paired
<1>5. HandleKey(d)
  BY <1>2, <1>3, <1>4 DEF RecvOversize, HandleHello, RejectKey, HandleData, HandleClose, Reject
<1>6. /\ sessions' = [sessions EXCEPT ![me] = "connected"]
      /\ epoch' = [epoch EXCEPT ![me] = @ + 1] /\ UNCHANGED applied
  BY <1>3, <1>5 DEF HandleKey
<1>7. PICK res : /\ out' = {net_handle_send(me, "finished", res)}
                 /\ res = "sent" => keys' = [keys EXCEPT ![me] = epoch'[me]]
  BY <1>3, <1>5 DEF HandleKey
<1>8. res = "sent"
  <2>1. net_handle_send(me, "finished", res).res = res
    BY DEF net_handle_send
  <2> QED
    BY <1>7, <2>1
<1>9. down' = Append(down, [kind |-> "finished", ep |-> epoch'[me]])
  BY <1>7, <1>8, OneAnswer
<1>10. sessions'[me] = "connected" /\ epoch'[me] = 1 /\ keys'[me] = 1
  BY <1>2, <1>3, <1>6, <1>7, <1>8 DEF TypeOK, DtlsType
<1>11. down' = <<[kind |-> "finished", ep |-> 1]>>
  BY <1>2, <1>9, <1>10
<1> QED
  BY <1>1, <1>3, <1>6, <1>10, <1>11 DEF KeyExchange, NoSession, client

\* The first record that is pending is the next one, and the server accepts it.
LEMMA NextRecord ==
  ASSUME TypeOK, LinkInv, Connection, Pending # <<>>, NEW d, d = Head(Pending)
  PROVE  /\ d \in sent /\ d.from = me /\ d.n = Written - Len(Pending) + 1
         /\ d.kind = IF d.n = i + 1 THEN "close" ELSE "data"
         /\ Accepts(d) /\ Written \in Nat
<1>1. Pending \in Seq(Datagram) /\ Len(Pending) \in Nat /\ Len(Pending) >= 1
  BY PendingType, EmptySeq
<1>2. d = Pending[1] /\ 1 \in 1 .. Len(Pending)
  BY <1>1
<1>3. Written \in Nat
  BY SystemAssumption DEF Connection, Written
<1>4. d \in sent /\ d.n = Written - Len(Pending) + 1
  BY <1>1, <1>2, <1>3 DEF Connection, InOrder
<1>5. /\ d.from = me /\ d.ep = 1
      /\ d.kind = IF d.n = i + 1 THEN "close" ELSE "data"
  BY <1>4 DEF Connection, Numbered
<1>6. applied = {r \in sent : r.n <= Written - Len(Pending)}
  BY DEF Connection, InOrder
<1>7. d \notin applied
  BY <1>1, <1>3, <1>4, <1>6
<1>8. sessions[me] = "connected" /\ epoch[me] = 1
  BY DEF Connection
<1> QED
  BY <1>3, <1>4, <1>5, <1>7, <1>8 DEF Accepts

\* Taking it keeps the order.
LEMMA InOrderTakes ==
  ASSUME TypeOK, LinkInv, Connection, Pending # <<>>, NEW d, d = Head(Pending),
         UNCHANGED <<client, me, sent>>, Pending' = Tail(Pending),
         applied' = applied \cup {d}
  PROVE  Numbered' /\ InOrder'
<1> DEFINE p == Pending
           q == Pending'
<1>1. /\ d \in sent /\ d.n = Written - Len(p) + 1 /\ Written \in Nat
  BY NextRecord
<1>2. p \in Seq(Datagram) /\ Len(p) \in Nat /\ Len(p) >= 1
  BY PendingType, EmptySeq
<1>3. /\ Len(q) = Len(p) - 1
      /\ \A j \in 1 .. Len(q) : q[j] = p[j + 1]
  BY <1>2, HeadTailProperties
<1>4. Written' = Written /\ i' = i /\ sent' = sent /\ me' = me
  BY DEF Written, client
<1>5. /\ Numbered /\ Len(p) <= Written
      /\ \A j \in 1 .. Len(p) : p[j] \in sent /\ p[j].n = Written - Len(p) + j
      /\ applied = {r \in sent : r.n <= Written - Len(p)}
      /\ \A r, s \in sent : r.n = s.n => r = s
      /\ \A r \in sent : r.n \in 1 .. Written
  BY DEF Connection, InOrder, Numbered
<1>6. Numbered'
  BY <1>4, <1>5 DEF Numbered
<1> HIDE DEF p, q
<1>7. ASSUME NEW j \in 1 .. Len(q)
      PROVE  q[j] \in sent /\ q[j].n = Written - Len(q) + j
  <2>1. j + 1 \in 1 .. Len(p)
    BY <1>2, <1>3
  <2>2. p[j + 1] \in sent /\ p[j + 1].n = Written - Len(p) + (j + 1)
    BY <1>5, <2>1
  <2> QED
    BY <1>1, <1>2, <1>3, <2>2
<1>8. ASSUME NEW r \in sent
      PROVE  r \in applied \/ r = d <=> r.n <= Written - Len(q)
  <2>1. r = d <=> r.n = d.n
    BY <1>1, <1>5
  <2>2. r \in applied <=> r.n <= Written - Len(p)
    BY <1>5
  <2>3. r.n \in Nat
    BY <1>5
  <2> QED
    BY <1>1, <1>2, <1>3, <2>1, <2>2, <2>3
<1>9. applied' = {r \in sent : r.n <= Written - Len(q)}
  <2>1. applied \subseteq sent /\ d \in sent
    BY <1>1, <1>5
  <2> QED
    BY <1>8, <2>1
<1>10. Len(q) <= Written
  BY <1>1, <1>2, <1>3, <1>5
<1>11. q = Pending'
  BY DEF q
<1> QED
  BY <1>4, <1>6, <1>7, <1>9, <1>10, <1>11 DEF InOrder

\* The packets are applied one after the other, and then the session ends.
LEMMA CalmRecord ==
  ASSUME TypeOK, LinkInv, Connection, UNCHANGED <<client, me, up>>,
         NEW d, Take(d),
         \/ RecvOversize(d) \/ HandleHello(d) \/ HandleKey(d) \/ RejectKey(d)
         \/ HandleData(d) \/ HandleClose(d) \/ Reject(d)
  PROVE  Connection'
<1>1. Pending # <<>> /\ d = Head(Pending) /\ Pending' = Tail(Pending) /\ sent' = sent
  BY TakesPending
<1>2. /\ d \in sent /\ d.from = me /\ d.n = Written - Len(Pending) + 1
      /\ d.kind = IF d.n = i + 1 THEN "close" ELSE "data"
      /\ Accepts(d) /\ Written \in Nat
  BY <1>1, NextRecord
<1>3. /\ Pending \in Seq(Datagram) /\ Len(Pending) \in Nat /\ Len(Pending) >= 1
      /\ Len(Tail(Pending)) = Len(Pending) - 1
  BY <1>1, PendingType, EmptySeq, HeadTailProperties
<1> HIDE DEF Pending
<1>4. HandleData(d) \/ HandleClose(d)
  BY <1>2 DEF RecvOversize, HandleHello, HandleKey, RejectKey, Reject
<1>5. applied' = applied \cup {d} /\ UNCHANGED <<epoch, keys>>
  BY <1>4 DEF HandleData, HandleClose
<1>6. Numbered' /\ InOrder'
  BY <1>1, <1>5, InOrderTakes
<1>7. sessions'[me] = IF at = "exited" /\ Pending' = <<>> THEN "none" ELSE "connected"
  <2>1. sessions[me] = "connected" /\ i \in Nat /\ Written = IF at = "exited" THEN i + 1 ELSE i
    BY <1>1, SystemAssumption DEF Connection, Written
  <2>2. d.n = i + 1 <=> at = "exited" /\ Len(Pending) = 1
    <3> DEFINE n == d.n
               k == Len(Pending)
    <3>1. n = Written - k + 1 /\ k \in Nat /\ k >= 1
      BY <1>2, <1>3
    <3> HIDE DEF n, k
    <3>2. n = i + 1 <=> at = "exited" /\ k = 1
      BY <2>1, <3>1
    <3> QED
      BY <3>2 DEF n, k
  <2>3. Pending' = <<>> <=> Len(Pending) = 1
    <3>1. Tail(Pending) \in Seq(Datagram)
      BY <1>1, <1>3, HeadTailProperties
    <3>2. Len(Tail(Pending)) = 0 <=> Tail(Pending) = <<>>
      BY <3>1, EmptySeq
    <3> QED
      BY <1>1, <1>3, <3>2
  <2>4. CASE HandleData(d)
    <3>1. d.kind = "data" /\ sessions' = sessions
      BY <2>4 DEF HandleData
    <3>2. ~(at = "exited" /\ Len(Pending) = 1)
      BY <1>2, <2>2, <3>1
    <3> QED
      BY <2>1, <2>3, <3>1, <3>2
  <2>5. CASE HandleClose(d)
    <3>1. d.kind = "close" /\ sessions' = [sessions EXCEPT ![me] = "none"]
      BY <1>2, <2>5 DEF HandleClose
    <3>2. at = "exited" /\ Len(Pending) = 1
      BY <1>2, <2>2, <3>1
    <3> QED
      BY <2>3, <3>1, <3>2 DEF TypeOK, DtlsType, LinkInv
  <2> QED
    BY <1>4, <2>4, <2>5
<1> QED
  BY <1>5, <1>6, <1>7 DEF Connection, client

LEMMA CalmReceive ==
  ASSUME MaxFaults > 0, faults \in Nat, faults' = 0, me \in Paired,
         TypeOK, TypeOK', LinkInv, Stage, ServerStep(Process), Receive
  PROVE  LinkInv' /\ Stage'
<1>1. /\ pc' # "free" /\ \A t \in out' : t.res = "sent"
      /\ UNCHANGED <<client, me, up>>
  BY NothingRefused
<1>2. PICK d \in Plain \cup sent :
        /\ Take(d)
        /\ \/ RecvOversize(d) \/ HandleHello(d) \/ HandleKey(d) \/ RejectKey(d)
           \/ HandleData(d) \/ HandleClose(d) \/ Reject(d)
  BY ReceiveCases
<1>3. /\ Pending # <<>> /\ open' = open
      /\ \A s \in Family \ {Fam[me]} : rx'[s] = <<>>
  BY <1>1, <1>2, TakesPending
<1>4. pc' \notin {"close", "exited"}
  BY <1>2 DEF RecvOversize, HandleHello, HandleKey, RejectKey, HandleData, HandleClose,
              Reject, Continue, Abort
<1>5. LinkInv'
  BY <1>1, <1>3, <1>4 DEF LinkInv
<1>6. CASE Before
  BY <1>3, <1>6 DEF Before
<1>7. CASE Hello
  BY <1>1, <1>2, <1>5, <1>7, CalmHello DEF Stage
<1>8. CASE KeyExchange
  BY <1>1, <1>2, <1>5, <1>8, CalmKey DEF Stage
<1>9. CASE Connection
  BY <1>1, <1>2, <1>5, <1>9, CalmRecord DEF Stage
<1> QED
  BY <1>5, <1>6, <1>7, <1>8, <1>9 DEF Stage

LEMMA CalmServer ==
  ASSUME MaxFaults > 0, faults \in Nat, faults' = 0, me \in Paired,
         TypeOK, TypeOK', LinkInv, Stage, ServerStep(Process)
  PROVE  LinkInv' /\ Stage'
<1> USE DEF dtls, udp
<1>1. pc' # "free" /\ UNCHANGED <<client, me, up>>
  BY NothingRefused
<1>2. CASE Receive
  BY <1>2, CalmReceive
<1>3. CASE Loop \/ (Handlers /\ ~Receive)
  <2>1. /\ out' = {} /\ pc' \notin {"close", "exited"}
        /\ UNCHANGED <<open, rx, sessions, epoch, keys, sent, applied>>
    <3>1. CASE Loop
      BY <3>1 DEF Loop, CheckQuit, DispatchAndFlush, EnterWait, EpollReturns, EpollFails,
                  BatchDone
    <3>2. CASE Handlers /\ ~Receive
      BY <3>2 DEF Handlers, DispatchWayland, DispatchWaylandFails, HandleSocket,
                  RespondRequest, RecvEmpty, RecvFails, Abort, LinkInv
    <3> QED
      BY <1>3, <3>1, <3>2
  <2>2. down' = down
    BY <2>1 DEF ServerStep, Answers
  <2> QED
    BY <1>1, <2>1, <2>2, LinkKept
<1>4. CASE Cleanup
  BY <1>4 DEF Cleanup, FreeContext, CloseSockets, LinkInv
<1> QED
  BY <1>2, <1>3, <1>4 DEF ServerStep, Process, Handlers

LEMMA CalmEnvironment ==
  ASSUME LinkInv, Stage, ServerEnvironment
  PROVE  LinkInv' /\ Stage'
<1>1. UNCHANGED <<client, me, up, down, open, rx, sessions, epoch, keys, sent, applied>>
  BY DEF ServerEnvironment, Signal, CompositorReads, CompositorSends, dtls, udp
<1>2. pc' \notin {"free", "close", "exited"}
  BY DEF ServerEnvironment, Signal, CompositorReads, CompositorSends, loop, LinkInv
<1> QED
  BY <1>1, <1>2, LinkKept

-----------------------------------------------------------------------------
\* What the client sends is added to what is pending.
LEMMA SendsNothing ==
  ASSUME Emit, put' = {}
  PROVE  UNCHANGED <<vars, up>>
BY DEF Emit

LEMMA SendsHandshake ==
  ASSUME TypeOK, LinkInv, Emit, me' = me, NEW k \in {"hello", "key"}, put' = {k}
  PROVE  /\ UNCHANGED vars /\ up' \in Seq(Datagram)
         /\ Pending' = Append(Pending, [kind |-> k, from |-> me])
<1>1. UNCHANGED vars /\ up' = Append(up, [kind |-> k, from |-> me])
  BY DEF Emit
<1>2. [kind |-> k, from |-> me] \in Datagram
  BY DEF Datagram, Plain, LinkInv
<1>3. up' \in Seq(Datagram)
  BY <1>1, <1>2 DEF LinkInv
<1>4. Pending' = rx[Fam[me]] \o Append(up, [kind |-> k, from |-> me])
  BY <1>1 DEF Pending, vars, udp
<1>5. rx[Fam[me]] \in Seq(Datagram) /\ up \in Seq(Datagram)
  BY PendingType
<1>6. rx[Fam[me]] \o Append(up, [kind |-> k, from |-> me])
        = Append(rx[Fam[me]] \o up, [kind |-> k, from |-> me])
  <2> DEFINE a == rx[Fam[me]]
             x == [kind |-> k, from |-> me]
  <2>1. a \in Seq(Datagram) /\ x \in Datagram /\ up \in Seq(Datagram)
    BY <1>2, <1>5
  <2> HIDE DEF a, x
  <2>2. a \o Append(up, x) = Append(a \o up, x)
    BY <2>1, TwoLists
  <2> QED
    BY <2>2 DEF a, x
<1> QED
  BY <1>1, <1>3, <1>4, <1>6 DEF Pending

\* The next record has the next number.
LEMMA SendsRecord ==
  ASSUME TypeOK, TypeOK', LinkInv, Connection, at \in {"write", "cleanup"}, Emit, me' = me,
         NEW k \in {"data", "close"}, put' = {k}
  PROVE  \E r : /\ r.kind = k /\ r.from = me /\ r.ep = 1 /\ r.n = i + 1
                /\ sent' = sent \cup {r} /\ r \in Datagram
                /\ up' \in Seq(Datagram) /\ Pending' = Append(Pending, r)
                /\ UNCHANGED <<loop, dtls, open, rx>>
<1>1. session = keys[me] /\ keys[me] = 1
  BY DEF Connection
<1>2. PICK r \in sent' : r \notin sent /\ r.from = me /\ {r.kind} = {k} /\ up' = Append(up, r)
  BY <1>1 DEF Emit
<1>3. PICK c \in Client, b \in Bodies, l \in {"data", "close"}, n \in 1 .. MaxSend :
        /\ n = Cardinality({s \in sent : s.from = c}) + 1
        /\ sent' = sent \cup {[kind |-> l, from |-> c, ep |-> keys[c], n |-> n, body |-> b]}
        /\ UNCHANGED <<loop, dtls, open, rx>>
  BY <1>1 DEF Emit, ClientSends
<1>4. r = [kind |-> l, from |-> c, ep |-> keys[c], n |-> n, body |-> b]
  BY <1>2, <1>3
<1>5. c = me /\ l = k /\ r.kind = k /\ r.ep = 1 /\ r.n = n
  BY <1>1, <1>2, <1>4
<1>6. {s \in sent : s.from = c} = sent
  BY <1>5 DEF Connection, Numbered
<1>7. n = i + 1
  BY <1>3, <1>6 DEF Connection, Numbered, Written
<1>8. r \in Datagram
  BY <1>2 DEF TypeOK, NetType, Datagram
<1>9. up' \in Seq(Datagram)
  BY <1>2, <1>8 DEF LinkInv
<1>10. Pending' = rx[Fam[me]] \o Append(up, r)
  BY <1>2, <1>3 DEF Pending
<1>11. rx[Fam[me]] \in Seq(Datagram) /\ up \in Seq(Datagram)
  BY PendingType
<1>12. rx[Fam[me]] \o Append(up, r) = Append(rx[Fam[me]] \o up, r)
  <2> DEFINE a == rx[Fam[me]]
  <2>1. a \in Seq(Datagram) /\ up \in Seq(Datagram)
    BY <1>11
  <2> HIDE DEF a
  <2>2. a \o Append(up, r) = Append(a \o up, r)
    BY <1>8, <2>1, TwoLists
  <2> QED
    BY <2>2 DEF a
<1>13. Pending' = Append(Pending, r)
  BY <1>10, <1>12 DEF Pending
<1> QED
  BY <1>2, <1>3, <1>4, <1>5, <1>7, <1>8, <1>9, <1>13

\* So the records stay numbered and in order.
LEMMA InOrderSends ==
  ASSUME TypeOK, LinkInv, Connection, at # "exited", me' = me, NEW r,
         r.kind = (IF at' = "exited" THEN "close" ELSE "data"),
         r.from = me, r.ep = 1, r.n = i + 1, r \in Datagram,
         i' = (IF at' = "exited" THEN i ELSE i + 1),
         sent' = sent \cup {r}, Pending' = Append(Pending, r), applied' = applied
  PROVE  Numbered' /\ InOrder'
<1> DEFINE p == Pending
           q == Pending'
<1>1. i \in Nat /\ Written = i /\ Written' = i + 1
  BY SystemAssumption DEF Connection, Written
<1>2. /\ IsFiniteSet(sent) /\ Cardinality(sent) = i
      /\ \A s \in sent : s.from = me /\ s.ep = 1 /\ s.n \in 1 .. i /\ s.kind = "data"
      /\ \A s, u \in sent : s.n = u.n => s = u
      /\ \A k \in 1 .. i : \E s \in sent : s.n = k
  BY <1>1 DEF Connection, Numbered
<1>3. r \notin sent
  BY <1>1, <1>2
<1>4. IsFiniteSet(sent') /\ Cardinality(sent') = i + 1
  BY <1>2, <1>3, FS_AddElement
<1>5. Numbered'
  <2>1. \A s \in sent' : /\ s.from = me /\ s.ep = 1 /\ s.n \in 1 .. i + 1
                         /\ s.kind = IF s.n = i' + 1 THEN "close" ELSE "data"
    BY <1>1, <1>2
  <2>2. \A s, u \in sent' : s.n = u.n => s = u
    BY <1>1, <1>2
  <2>3. \A k \in 1 .. i + 1 : \E s \in sent' : s.n = k
    BY <1>1, <1>2
  <2> QED
    BY <1>1, <1>4, <2>1, <2>2, <2>3 DEF Numbered
<1>6. /\ p \in Seq(Datagram) /\ Len(p) \in Nat
      /\ Len(q) = Len(p) + 1
      /\ \A j \in 1 .. Len(p) : q[j] = p[j]
      /\ q[Len(p) + 1] = r
  BY PendingType, AppendProperties
<1>7. /\ Len(p) <= i
      /\ \A j \in 1 .. Len(p) : p[j] \in sent /\ p[j].n = i - Len(p) + j
      /\ applied = {s \in sent : s.n <= i - Len(p)}
  BY <1>1 DEF Connection, InOrder
<1> HIDE DEF p, q
<1>8. ASSUME NEW j \in 1 .. Len(q)
      PROVE  q[j] \in sent' /\ q[j].n = (i + 1) - Len(q) + j
  <2>1. CASE j \in 1 .. Len(p)
    <3>1. q[j] = p[j] /\ p[j] \in sent /\ p[j].n = i - Len(p) + j
      BY <1>6, <1>7, <2>1
    <3> QED
      BY <1>1, <1>6, <3>1
  <2>2. CASE j = Len(p) + 1
    <3>1. q[j] = r
      BY <1>6, <2>2
    <3>2. (i + 1) - Len(q) + j = i + 1
      BY <1>1, <1>6, <2>2
    <3> QED
      BY <3>1, <3>2
  <2> QED
    BY <1>6, <2>1, <2>2
<1>9. applied' = {s \in sent' : s.n <= (i + 1) - Len(q)}
  <2>1. (i + 1) - Len(q) = i - Len(p) /\ ~(r.n <= i - Len(p))
    BY <1>1, <1>6
  <2> QED
    BY <1>7, <2>1
<1>10. Len(q) <= i + 1
  BY <1>1, <1>6, <1>7
<1>11. q = Pending'
  BY DEF q
<1> QED
  BY <1>1, <1>5, <1>8, <1>9, <1>10, <1>11 DEF InOrder

\* A line with the password is not the end of the input, and its key fits.
LEMMA TypedLine ==
  ASSUME me \in Paired, NEW l \in Typed[me]
  PROVE  ~TC!EndOfInput(l) /\ TC!strcspn(l) <= MaxKeyLen
<1>1. me \in Client /\ l \in TC!Line /\ TC!strcspn(l) = psk_key_len
  BY SystemAssumption DEF Paired
<1>2. psk_key_len >= 1 /\ psk_key_len <= MaxKeyLen /\ MaxKeyLen \in Nat
  BY SystemAssumption, ServerAssumption
<1>3. ASSUME TC!EndOfInput(l) PROVE FALSE
  <2>1. l.n = 0
    BY <1>3 DEF TC!EndOfInput
  <2>2. TC!Copied(l) = 0
    BY <1>2, <2>1 DEF TC!Copied, TC!PSK_BUFFER_SIZE
  <2>3. TC!strcspn(l) = 0
    BY <2>2 DEF TC!strcspn
  <2> QED
    BY <1>1, <1>2, <2>3
<1> QED
  BY <1>1, <1>2, <1>3

LEMMA CalmPassword ==
  ASSUME LinkInv, Stage, me \in Paired, ReadPassword
  PROVE  LinkInv' /\ Stage'
<1>1. PICK l \in Typed[me] : TC!ReadPassword(l)
  BY DEF ReadPassword
<1>2. /\ UNCHANGED <<me, up, down, pc, open, rx, sessions, epoch, keys, sent, applied>>
  BY DEF ReadPassword, vars, loop, dtls, udp
<1>3. at = "password" /\ line' = l /\ at' = "socket"
      /\ UNCHANGED <<peer, session, is_connected, i>>
  BY <1>1, TypedLine DEF TC!ReadPassword
<1>4. Pending' = Pending
  BY <1>2 DEF Pending
<1> HIDE DEF Pending
<1>5. Before
  BY <1>3 DEF Stage, Hello, KeyExchange, Connection
<1>6. Before'
  BY <1>2, <1>3, <1>4, <1>5 DEF Before, NoSession
<1>7. LinkInv'
  BY <1>2 DEF LinkInv
<1> QED
  BY <1>6, <1>7 DEF Stage

\* The timeout finds something on its way, or the server at work.
LEMMA NoSilence ==
  ASSUME TypeOK, LinkInv, Hello \/ KeyExchange
  PROVE  ~(Idle /\ down = <<>>)
<1> SUFFICES ASSUME Idle, down = <<>> PROVE FALSE
  OBVIOUS
<1>1. up = <<>> /\ rx[Fam[me]] = <<>>
  BY DEF Idle, Ready, LinkInv
<1>2. Pending = <<>>
  BY <1>1 DEF Pending
<1> HIDE DEF Pending
<1> QED
  BY <1>2 DEF Hello, KeyExchange

LEMMA CalmClient ==
  ASSUME MaxFaults > 0, faults \in Nat, faults' = 0, me \in Paired,
         TypeOK, TypeOK', LinkInv, Stage, ClientStep
  PROVE  LinkInv' /\ Stage'
<1>1. /\ me' = me /\ down' = down /\ Emit
      /\ ~(at = "socket" /\ at' = "exited") /\ put' # {"failed"}
      /\ ~(at = "handshake" /\ at' = "cleanup" /\ ~(Idle /\ down = <<>>))
  BY DEF ClientStep, Excuse
<1>2. ASSUME put' = {}
      PROVE  /\ UNCHANGED <<sessions, epoch, keys, sent, applied>> /\ Pending' = Pending
             /\ LinkInv'
  <2>1. UNCHANGED <<vars, up>>
    BY <1>1, <1>2, SendsNothing
  <2> QED
    BY <1>1, <2>1 DEF vars, loop, dtls, udp, Pending, LinkInv
<1>3. CASE TC!OpenFails
  BY <1>1, <1>3 DEF TC!OpenFails
<1>4. CASE TC!Open
  <2>1. /\ at = "socket" /\ at' = "connect" /\ put' = {}
        /\ UNCHANGED <<line, peer, session, is_connected, i>>
    BY <1>4 DEF TC!Open
  <2>2. Before
    BY <2>1 DEF Stage, Hello, KeyExchange, Connection
  <2>3. Before'
    <3> HIDE DEF Pending
    <3> QED
      BY <1>1, <1>2, <2>1, <2>2 DEF Before, NoSession
  <2> QED
    BY <1>2, <2>1, <2>3 DEF Stage
<1>5. CASE TC!Connect
  <2>1. /\ at = "connect" /\ at' = "handshake" /\ peer' = "hello" /\ put' = {"hello"}
        /\ UNCHANGED <<line, session, is_connected, i>>
    BY <1>1, <1>5 DEF TC!Connect
  <2>2. Before
    BY <2>1 DEF Stage, Hello, KeyExchange, Connection
  <2>3. /\ UNCHANGED vars /\ up' \in Seq(Datagram)
        /\ Pending' = Append(Pending, [kind |-> "hello", from |-> me])
    BY <1>1, <2>1, SendsHandshake
  <2> HIDE DEF Pending
  <2>4. Pending' = <<[kind |-> "hello", from |-> me']>>
    BY <1>1, <2>2, <2>3 DEF Before
  <2>5. Hello'
    BY <1>1, <2>1, <2>2, <2>3, <2>4 DEF Hello, Before, NoSession, vars, dtls, udp
  <2>6. LinkInv'
    BY <1>1, <2>3 DEF LinkInv, vars, loop, udp
  <2> QED
    BY <2>5, <2>6 DEF Stage
<1>6. CASE TC!HandshakeTimeout
  <2>1. at = "handshake" /\ ~is_connected /\ at' = "cleanup"
    BY <1>6 DEF TC!HandshakeTimeout, TC!Waits
  <2>2. Hello \/ KeyExchange
    BY <2>1 DEF Stage, Before, Connection
  <2> QED
    BY <1>1, <2>1, <2>2, NoSilence
<1>7. ASSUME Connection, at' \in {"handshake", "write", "cleanup"}, put' = {}, i' = i,
             at' = "handshake" => i = 0, at' = "cleanup" => i = ITERATIONS, at # "exited",
             UNCHANGED <<peer, session, is_connected>>
      PROVE  LinkInv' /\ Stage'
  <2>1. Written' = Written /\ Written = i
    BY <1>7 DEF Written
  <2>2. Connection'
    <3> HIDE DEF Pending
    <3> QED
      BY <1>1, <1>2, <1>7, <2>1 DEF Connection, Numbered, InOrder
  <2> QED
    BY <1>2, <1>7, <2>2 DEF Stage
<1>8. CASE TC!Connected
  <2>1. /\ at = "handshake" /\ is_connected /\ at' = "write" /\ put' = {}
        /\ UNCHANGED <<peer, session, is_connected, i>>
    BY <1>8 DEF TC!Connected
  <2>2. Connection
    BY <2>1 DEF Stage, Before, Hello, KeyExchange, NoSession
  <2> QED
    BY <1>7, <2>1, <2>2
<1>9. ASSUME Connection, NEW k \in {"data", "close"}, put' = {k},
             at \in {"write", "cleanup"},
             at' = (IF k = "close" THEN "exited" ELSE "write"),
             i' = (IF k = "close" THEN i ELSE i + 1), i' <= ITERATIONS,
             k = "close" => i = ITERATIONS /\ fd' = "closed",
             k = "data" => peer' = peer,
             UNCHANGED <<session, is_connected>>
      PROVE  LinkInv' /\ Stage'
  <2>1. PICK r : /\ r.kind = k /\ r.from = me /\ r.ep = 1 /\ r.n = i + 1
                 /\ sent' = sent \cup {r} /\ r \in Datagram
                 /\ up' \in Seq(Datagram) /\ Pending' = Append(Pending, r)
                 /\ UNCHANGED <<loop, dtls, open, rx>>
    BY <1>1, <1>9, SendsRecord
  <2>2. LinkInv'
    BY <1>1, <2>1 DEF LinkInv, loop
  <2>3. UNCHANGED <<sessions, epoch, keys, applied>>
    BY <2>1 DEF dtls
  <2>4. Numbered' /\ InOrder'
    <3> HIDE DEF Pending
    <3> QED
      BY <1>1, <1>9, <2>1, <2>3, InOrderSends
  <2>5. Pending' # <<>>
    <3>1. Pending \in Seq(Datagram)
      BY PendingType
    <3> HIDE DEF Pending
    <3> QED
      BY <2>1, <3>1, AppendProperties
  <2>6. i' \in 0 .. ITERATIONS
    BY <1>9, SystemAssumption DEF Connection
  <2>7. Connection'
    <3> HIDE DEF Pending
    <3> QED
      BY <1>1, <1>9, <2>3, <2>4, <2>5, <2>6 DEF Connection
  <2> QED
    BY <2>2, <2>7 DEF Stage
<1>10. CASE TC!Write
  <2>1. at = "write" /\ UNCHANGED <<peer, session, is_connected>>
    BY <1>10 DEF TC!Write
  <2>2. Connection /\ i \in 0 .. ITERATIONS /\ ITERATIONS \in Nat
    BY <2>1, SystemAssumption DEF Stage, Before, Hello, KeyExchange, Connection
  <2>3. CASE i < ITERATIONS
    <3>1. i' = i + 1 /\ put' = {"data"} /\ at' = "write" /\ i' <= ITERATIONS
      BY <1>1, <1>10, <2>1, <2>2, <2>3 DEF TC!Write
    <3> QED
      BY <1>9, <2>1, <2>2, <3>1
  <2>4. CASE ~(i < ITERATIONS)
    <3>1. at' = "cleanup" /\ put' = {} /\ i' = i /\ i = ITERATIONS
      BY <1>10, <2>2, <2>4 DEF TC!Write
    <3> QED
      BY <1>7, <2>1, <2>2, <3>1
  <2> QED
    BY <2>3, <2>4
<1>11. CASE TC!Cleanup
  <2>1. /\ at = "cleanup" /\ at' = "exited" /\ fd' = "closed"
        /\ UNCHANGED <<session, is_connected, i>>
        /\ put' \in IF peer = "connected" THEN {{"close"}, {"failed"}} ELSE {{}}
    BY <1>11 DEF TC!Cleanup
  <2>2. Connection /\ i = ITERATIONS /\ peer = "connected" /\ ITERATIONS \in Nat
    BY <2>1, SystemAssumption DEF Stage, Before, Hello, KeyExchange, Connection
  <2>3. put' = {"close"}
    BY <1>1, <2>1, <2>2
  <2> QED
    BY <1>9, <2>1, <2>2, <2>3
<1> QED
  BY <1>3, <1>4, <1>5, <1>6, <1>8, <1>10, <1>11 DEF ClientStep, TC!TCStep

LEMMA CalmReceives ==
  ASSUME MaxFaults > 0, faults \in Nat, faults' = 0, me \in Paired,
         TypeOK, TypeOK', LinkInv, Stage, ClientReceives
  PROVE  LinkInv' /\ Stage'
<1>1. /\ me' = me /\ down # <<>> /\ down' = Tail(down) /\ Emit /\ put' # {"failed"}
      /\ \/ Head(down).kind = "flight" /\ TC!HandleFlight
         \/ Head(down).kind = "finished" /\ TC!HandleFinished(Head(down).ep)
         \/ Head(down).kind = "alert" /\ TC!HandleAlert
         \/ TC!HandleOther(Head(down).kind)
  BY DEF ClientReceives, Excuse
<1>2. at = "handshake" /\ ~is_connected
  BY <1>1 DEF TC!HandleFlight, TC!HandleFinished, TC!HandleAlert, TC!HandleOther, TC!Waits
<1>3. CASE Hello
  <2>1. /\ Pending = <<>> /\ down = <<[kind |-> "flight", ep |-> 0]>>
        /\ sessions[me] = "handshake"
    <3> HIDE DEF Pending
    <3> QED
      BY <1>1, <1>3 DEF Hello
  <2>2. Head(down).kind = "flight" /\ down' = <<>>
    BY <1>1, <2>1
  <2>3. peer = "hello" /\ TC!KeyFits
    BY <1>3, TypedLine DEF Hello, TC!KeyFits
  <2>4. TC!HandleFlight
    BY <1>1, <2>2, <2>3 DEF TC!HandleOther
  <2>5. /\ peer' = "key" /\ put' = {"key"}
        /\ UNCHANGED <<at, line, fd, session, is_connected, i>>
    BY <1>1, <2>4 DEF TC!HandleFlight
  <2>6. /\ UNCHANGED vars /\ up' \in Seq(Datagram)
        /\ Pending' = Append(Pending, [kind |-> "key", from |-> me])
    BY <1>1, <2>5, SendsHandshake
  <2> HIDE DEF Pending
  <2>7. Pending' = <<[kind |-> "key", from |-> me']>>
    BY <1>1, <2>1, <2>6
  <2>8. KeyExchange'
    BY <1>1, <1>3, <2>1, <2>2, <2>5, <2>6, <2>7
       DEF KeyExchange, Hello, NoSession, vars, dtls, udp
  <2>9. LinkInv'
    BY <1>1, <2>6 DEF LinkInv, vars, loop, udp
  <2> QED
    BY <2>8, <2>9 DEF Stage
<1>4. CASE KeyExchange
  <2>1. /\ Pending = <<>> /\ down = <<[kind |-> "finished", ep |-> 1]>>
        /\ sessions[me] = "connected" /\ epoch[me] = 1
    <3> HIDE DEF Pending
    <3> QED
      BY <1>1, <1>4 DEF KeyExchange
  <2>2. Head(down).kind = "finished" /\ Head(down).ep = 1
    BY <2>1
  <2>3. TC!HandleFinished(1)
    BY <1>1, <1>4, <2>2 DEF TC!HandleOther, KeyExchange
  <2>4. /\ peer' = "connected" /\ session' = 1 /\ is_connected' = TRUE /\ put' = {}
        /\ UNCHANGED <<at, i>>
    BY <2>3 DEF TC!HandleFinished
  <2>5. UNCHANGED <<vars, up>>
    BY <1>1, <2>4, SendsNothing
  <2>6. Pending' = <<>>
    BY <1>1, <2>1, <2>5 DEF Pending, vars, udp
  <2>7. LinkInv'
    BY <1>1, <2>5 DEF LinkInv, vars, loop, udp
  <2>8. NoSession /\ sent' = {} /\ applied' = {} /\ Written' = 0 /\ i' = 0
    BY <1>4, <2>4, <2>5, <1>2 DEF KeyExchange, NoSession, Written, vars, dtls, udp
  <2> HIDE DEF Pending
  <2>9. Numbered'
    BY <2>8, FS_EmptySet DEF Numbered
  <2>10. InOrder'
    BY <2>6, <2>8 DEF InOrder
  <2>11. Connection'
    BY <1>1, <1>2, <2>1, <2>4, <2>5, <2>6, <2>8, <2>9, <2>10, SystemAssumption
       DEF Connection, NoSession, vars, dtls
  <2> QED
    BY <2>7, <2>11 DEF Stage
<1> QED
  BY <1>2, <1>3, <1>4 DEF Stage, Before, Connection

LEMMA CalmArrives ==
  ASSUME TypeOK, LinkInv, Stage, Arrives
  PROVE  LinkInv' /\ Stage'
<1>1. /\ up # <<>> /\ up' = Tail(up)
      /\ rx' = [rx EXCEPT ![Fam[me]] = Append(@, up[1])]
      /\ UNCHANGED <<client, me, down, pc, open, sessions, epoch, keys, sent, applied>>
  BY DEF Arrives, ArrivesAs, Deliver, loop, dtls
<1>2. /\ rx[Fam[me]] \in Seq(Datagram) /\ up \in Seq(Datagram) /\ Fam[me] \in Family
      /\ rx \in [Family -> Seq(Datagram)]
  BY PendingType DEF TypeOK, NetType
<1>3. rx'[Fam[me]] = Append(rx[Fam[me]], up[1]) /\ \A s \in Family \ {Fam[me]} : rx'[s] = rx[s]
  BY <1>1, <1>2
<1>4. Head(up) = up[1]
  BY <1>1, <1>2
<1>5. Pending' = Pending
  <2> DEFINE a == rx[Fam[me]]
  <2>1. a \in Seq(Datagram)
    BY <1>2
  <2>2. Pending' = Append(a, Head(up)) \o Tail(up) /\ Pending = a \o up
    BY <1>1, <1>3, <1>4 DEF Pending
  <2> HIDE DEF a
  <2> QED
    BY <1>1, <1>2, <2>1, <2>2, TwoLists
<1>6. Stage'
  BY <1>1, <1>5, StageKept
<1>7. up' \in Seq(Datagram)
  BY <1>1, <1>2, HeadTailProperties
<1> QED
  BY <1>1, <1>3, <1>6, <1>7 DEF LinkInv

SystemInv == faults \in Nat /\ CalmInv

LEMMA FaultsStay ==
  ASSUME faults \in Nat, [SysNext]_sysvars
  PROVE  faults' \in Nat /\ faults' >= faults /\ me' = me
<1> USE DEF Excuse
<1>1. CASE ServerStep(Process) \/ ServerEnvironment
  BY <1>1 DEF ServerStep, ServerEnvironment
<1>2. CASE ReadPassword \/ ClientStep \/ ClientReceives
  BY <1>2 DEF ReadPassword, ClientStep, ClientReceives
<1>3. CASE Arrives \/ Misordered \/ Lost
  BY <1>3 DEF Arrives, Misordered, Lost, NetworkFault
<1> QED
  BY <1>1, <1>2, <1>3 DEF SysNext, sysvars

LEMMA SystemStep ==
  ASSUME MaxFaults > 0, TypeOK, TypeOK', SystemInv, [SysNext]_sysvars
  PROVE  SystemInv'
<1>1. faults \in Nat /\ faults' \in Nat /\ faults' >= faults /\ me' = me
  BY FaultsStay DEF SystemInv
<1> SUFFICES ASSUME Undisturbed' PROVE LinkInv' /\ Stage'
  BY <1>1 DEF SystemInv, CalmInv
<1>2. faults' = 0 /\ faults = 0 /\ me \in Paired
  BY <1>1 DEF Undisturbed
<1>3. LinkInv /\ Stage
  BY <1>2 DEF SystemInv, CalmInv, Undisturbed
<1>4. CASE ServerStep(Process)
  BY <1>1, <1>2, <1>3, <1>4, CalmServer
<1>5. CASE ServerEnvironment
  BY <1>3, <1>5, CalmEnvironment
<1>6. CASE ReadPassword
  BY <1>2, <1>3, <1>6, CalmPassword
<1>7. CASE ClientStep
  BY <1>1, <1>2, <1>3, <1>7, CalmClient
<1>8. CASE ClientReceives
  BY <1>1, <1>2, <1>3, <1>8, CalmReceives
<1>9. CASE Arrives
  BY <1>3, <1>9, CalmArrives
<1>10. CASE Misordered \/ Lost
  BY <1>1, <1>2, <1>10 DEF Misordered, Lost, NetworkFault
<1>11. CASE UNCHANGED sysvars
  <2>1. UNCHANGED <<client, me, up, down, pc, open, rx, sessions, epoch, keys, sent, applied>>
    BY <1>11 DEF sysvars, vars, loop, dtls, udp
  <2>2. pc' \notin {"free", "close", "exited"}
    BY <1>3, <2>1 DEF LinkInv
  <2> QED
    BY <1>3, <2>1, <2>2, LinkKept
<1> QED
  BY <1>4, <1>5, <1>6, <1>7, <1>8, <1>9, <1>10, <1>11 DEF SysNext

LEMMA SystemInit == SysInit => SystemInv
<1> SUFFICES ASSUME SysInit PROVE faults \in Nat /\ LinkInv /\ Stage
  BY DEF SystemInv, CalmInv
<1>1. /\ me \in Client /\ Fam[me] \in open /\ up = <<>> /\ down = <<>> /\ faults = 0
      /\ pc = "check" /\ rx = [s \in Family |-> <<>>] /\ Fam[me] \in Family
      /\ sessions = [c \in Client |-> "none"] /\ epoch = [c \in Client |-> 0]
      /\ keys = [c \in Client |-> 0] /\ sent = {} /\ applied = {}
      /\ at = "password" /\ peer = "none" /\ session = 0 /\ ~is_connected /\ i = 0
  BY ServerAssumption DEF SysInit, Init, TC!TCInit
<1>2. Pending = <<>>
  BY <1>1 DEF Pending
<1>3. Before
  <2> HIDE DEF Pending
  <2> QED
    BY <1>1, <1>2 DEF Before, NoSession
<1>4. LinkInv
  BY <1>1 DEF LinkInv
<1> QED
  BY <1>1, <1>3, <1>4 DEF Stage

\* A client with the right password fails only if a datagram was lost, repeated,
\* overtaken, late or refused, or the server ended: the handshake, net_handle_send
\* and the five seconds of the client's select give it no other reason.
THEOREM FailsExcused ==
  ASSUME MaxFaults > 0 PROVE SysSpec => []FailureExcused
<1>1. SysSpec => []TypeOK
  BY ServerInside, TypeCorrect, PTL
<1>2. SystemInv => FailureExcused
  BY DEF SystemInv, CalmInv, Undisturbed, Stage, Before, Hello, KeyExchange, Connection,
         FailureExcused
<1>3. TypeOK /\ TypeOK' /\ SystemInv /\ [SysNext]_sysvars => SystemInv'
  BY SystemStep
<1> QED
  BY <1>1, <1>2, <1>3, SystemInit, PTL DEF SysSpec

\* All but the last of the records are packets.
LEMMA PacketsCounted ==
  ASSUME Connection, at = "exited"
  PROVE  Cardinality({r \in sent : r.kind = "data"}) = ITERATIONS
<1>1. i = ITERATIONS /\ Written = i + 1 /\ i \in Nat
  BY SystemAssumption DEF Connection, Written
<1>2. PICK r \in sent : r.n = i + 1
  BY <1>1 DEF Connection, Numbered
<1>3. {s \in sent : s.kind = "data"} = sent \ {r}
  BY <1>1, <1>2 DEF Connection, Numbered
<1>4. IsFiniteSet(sent) /\ Cardinality(sent) = i + 1
  BY <1>1 DEF Connection, Numbered
<1>5. Cardinality(sent \ {r}) = i
  BY <1>1, <1>2, <1>4, FS_RemoveElement
<1> QED
  BY <1>1, <1>3, <1>5

\* When nothing went wrong and the server has handled all it was sent, it has
\* applied every packet of a client that succeeded, and its session is closed.
THEOREM DeliversAll ==
  ASSUME MaxFaults > 0 PROVE SysSpec => []CompleteDelivery
<1>1. SysSpec => []TypeOK
  BY ServerInside, TypeCorrect, PTL
<1>2. ASSUME TypeOK, SystemInv, SessionAgreed PROVE CompleteDelivery
  <2> SUFFICES ASSUME TC!ClientSuccess, Idle, faults = 0
               PROVE  /\ Cardinality({r \in applied : r.kind = "data"}) = ITERATIONS
                      /\ sessions[me] = "none" /\ fd = "closed"
    BY DEF CompleteDelivery
  <2>1. at = "exited" /\ is_connected /\ me \in Paired
    BY <1>2 DEF TC!ClientSuccess, SessionAgreed
  <2>2. LinkInv /\ Connection
    BY <1>2, <2>1 DEF SystemInv, CalmInv, Undisturbed, Stage, Before, Hello, KeyExchange
  <2>3. up = <<>> /\ rx[Fam[me]] = <<>>
    BY <2>2 DEF Idle, Ready, LinkInv
  <2>4. Pending = <<>>
    BY <2>3 DEF Pending
  <2> HIDE DEF Pending
  <2>5. applied = {r \in sent : r.n <= Written} /\ \A r \in sent : r.n <= Written
    BY <2>2, <2>4, SystemAssumption DEF Connection, InOrder, Numbered, Written
  <2>6. applied = sent
    BY <2>5
  <2> QED
    BY <2>1, <2>2, <2>4, <2>6, PacketsCounted DEF Connection
<1>3. TypeOK /\ TypeOK' /\ SystemInv /\ [SysNext]_sysvars => SystemInv'
  BY SystemStep
<1> QED
  BY <1>1, <1>2, <1>3, SystemInit, Agreement, PTL DEF SysSpec

=============================================================================
