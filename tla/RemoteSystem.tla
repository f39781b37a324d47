---------------------------- MODULE RemoteSystem ----------------------------
(***************************************************************************)
(* The server, one run of the test client, and the network between them.   *)
(* Every step of the server is one of Server; the client takes the place   *)
(* of the clients that Server lets do anything, and the datagrams both     *)
(* send are in up and down.                                                *)
(*                                                                         *)
(* faults counts what may excuse a client that fails: a datagram that is   *)
(* lost, repeated, overtaken, late or refused by sendto, and the server's  *)
(* own end.                                                                *)
(***************************************************************************)
EXTENDS Server, SequencesExt

CONSTANTS
  ITERATIONS,  \* the packets the test client sends
  Typed,       \* the lines each client may type as password
  DEFAULT_PORT, MaxPort, Extra,  \* of Setup
  MaxFaults    \* bound: faults that are counted, and those of the network

VARIABLES
  at, line, fd, peer, session, is_connected, i, put, \* of TestClient
  me,     \* the client that runs
  up,     \* the datagrams on their way to the server
  down,   \* those on their way to the client, or in its socket
  faults

client == <<at, line, fd, peer, session, is_connected, i, put>>
sysvars == <<vars, client, me, up, down, faults>>

TC == INSTANCE TestClient
        WITH ITERATIONS <- ITERATIONS, MaxKeyLen <- MaxKeyLen,
             DEFAULT_PORT <- DEFAULT_PORT, MaxPort <- MaxPort, Extra <- Extra,
             at <- at, line <- line, fd <- fd, peer <- peer, session <- session,
             is_connected <- is_connected, i <- i, put <- put

\* setup_password has refused every other length, and who is paired types the
\* very password.
ASSUME SystemAssumption ==
  /\ ITERATIONS \in Nat /\ MaxFaults \in Nat
  /\ psk_key_len \in 1 .. MaxKeyLen
  /\ Typed \in [Client -> SUBSET TC!Line]
  /\ \A c \in Paired : \A l \in Typed[c] : TC!strcspn(l) = psk_key_len

\* The server is listening when the client starts.
SysInit ==
  /\ Init /\ TC!TCInit
  /\ me \in Client /\ Fam[me] \in open /\ ~quit
  /\ up = <<>> /\ down = <<>> /\ faults = 0

Excuse(c) == faults' = IF c /\ faults < MaxFaults THEN faults + 1 ELSE faults

-----------------------------------------------------------------------------
(***************************************************************************)
(* The server's steps.                                                     *)
(***************************************************************************)

\* What the step hands to the network for the client: one datagram at most.
Answers == {t \in out' : t.to = me /\ t.res = "sent"}

Answer == [kind |-> (CHOOSE t \in Answers : TRUE).kind, ep |-> epoch'[me]]

ServerStep(A) ==
  /\ A
  /\ down' = IF Answers = {} THEN down ELSE Append(down, Answer)
  /\ Excuse(pc' = "free" \/ \E t \in out' : t.res # "sent")
  /\ UNCHANGED <<client, me, up>>

ServerEnvironment ==
  /\ Signal \/ CompositorReads \/ CompositorSends
  /\ Excuse(quit' # quit \/ wl' = "gone")
  /\ UNCHANGED <<client, me, up, down>>

\* The server has handled all it was sent.
Idle == pc = "wait" /\ Ready = {} /\ up = <<>>

-----------------------------------------------------------------------------
(***************************************************************************)
(* The client's steps.                                                     *)
(***************************************************************************)

\* What the client sends is a datagram of Server: a record of its session,
\* which the server no longer knows if a repeated handshake has replaced it.
Emit ==
  \/ put' \in {{}, {"failed"}} /\ UNCHANGED <<vars, up>>
  \/ /\ \E k \in {"hello", "key"} :
          put' = {k} /\ up' = Append(up, [kind |-> k, from |-> me])
     /\ UNCHANGED vars
  \/ /\ put' \in {{"data"}, {"close"}} /\ session = keys[me]
     /\ ClientSends
     /\ \E r \in sent' : r \notin sent /\ r.from = me /\ {r.kind} = put'
                         /\ up' = Append(up, r)
  \/ /\ put' \in {{"data"}, {"close"}} /\ session # keys[me]
     /\ up' = Append(up, [kind |-> "junk", from |-> me])
     /\ UNCHANGED vars

ReadPassword ==
  /\ \E l \in Typed[me] : TC!ReadPassword(l)
  /\ UNCHANGED <<vars, me, up, down, faults>>

ClientStep ==
  /\ TC!TCStep
  /\ Emit
  /\ Excuse(\/ at = "socket" /\ at' = "exited"
            \/ at = "handshake" /\ at' = "cleanup" /\ ~(Idle /\ down = <<>>)
            \/ put' = {"failed"})
  /\ UNCHANGED <<me, down>>

ClientReceives ==
  /\ down # <<>>
  /\ LET m == Head(down)
     IN  \/ m.kind = "flight" /\ TC!HandleFlight
         \/ m.kind = "finished" /\ TC!HandleFinished(m.ep)
         \/ m.kind = "alert" /\ TC!HandleAlert
         \/ TC!HandleOther(m.kind)
  /\ down' = Tail(down)
  /\ Emit
  /\ Excuse(put' = {"failed"})
  /\ UNCHANGED me

-----------------------------------------------------------------------------
(***************************************************************************)
(* The network.                                                            *)
(***************************************************************************)

\* The j-th datagram reaches the server's socket.
ArrivesAs(j) ==
  Deliver /\ rx' = [rx EXCEPT ![Fam[me]] = Append(@, up[j])]

Arrives ==
  /\ up # <<>>
  /\ ArrivesAs(1)
  /\ up' = Tail(up)
  /\ UNCHANGED <<client, me, down, faults>>

NetworkFault == faults < MaxFaults /\ faults' = faults + 1

\* A datagram overtakes those before it, or arrives and is still on its way.
Misordered ==
  /\ \E j \in 1 .. Len(up) :
       ArrivesAs(j) /\ up' \in {up} \cup (IF j > 1 THEN {RemoveAt(up, j)} ELSE {})
  /\ NetworkFault
  /\ UNCHANGED <<client, me, down>>

Lost ==
  /\ \/ \E j \in 1 .. Len(up) : up' = RemoveAt(up, j) /\ UNCHANGED down
     \/ \E j \in 1 .. Len(down) :
          down' \in {RemoveAt(down, j), <<down[j]>> \o down} /\ UNCHANGED up
  /\ NetworkFault
  /\ UNCHANGED <<vars, client, me>>

-----------------------------------------------------------------------------
SysNext ==
  \/ ServerStep(Process) \/ ServerEnvironment
  \/ ReadPassword \/ ClientStep \/ ClientReceives
  \/ Arrives \/ Misordered \/ Lost
  \/ Exited /\ UNCHANGED sysvars

\* The server's scheduling as in Server; the client is scheduled, its timer
\* runs, and somebody types a line.  Nothing is assumed of the network.
SysFairness ==
  /\ WF_sysvars(ServerStep(Scheduled))
  /\ WF_sysvars(CompositorReads /\ UNCHANGED <<client, me, up, down, faults>>)
  /\ WF_sysvars(ReadPassword \/ ClientStep \/ ClientReceives)

SysSpec == SysInit /\ [][SysNext]_sysvars

FairSysSpec == SysSpec /\ SysFairness

-----------------------------------------------------------------------------
(***************************************************************************)
(* Properties.                                                             *)
(***************************************************************************)

\* The client believes in a session only if the server completed that very
\* handshake, and only with the right identity and password, whatever was
\* lost, repeated or late; both sides decide on their own.
SessionAgreed ==
  is_connected => me \in Paired /\ session \in 1 .. epoch[me]

\* A client with the right password fails only if something went wrong on the
\* way: no silence of five seconds is the server's own doing.
FailureExcused ==
  at = "exited" /\ ~is_connected /\ me \in Paired => faults > 0

\* When nothing went wrong and all is handled, each packet of the client has
\* been applied and its session is closed: the close does not overtake them,
\* and dtls_free_context says it before the socket is gone.
CompleteDelivery ==
  TC!ClientSuccess /\ Idle /\ faults = 0 =>
    /\ Cardinality({r \in applied : r.kind = "data"}) = ITERATIONS
    /\ sessions[me] = "none" /\ fd = "closed"

\* The client ends, whatever the server and the network do: also after an
\* alert, which only the timeout makes it notice, and with a password that its
\* own net_get_psk_info refuses.
ClientExits == <>(at = "exited")

\* The comment of net_handle_send: a flight that was dropped for want of room
\* is sent later.
Retransmitted ==
  \A k \in {"flight", "finished"} :
    (\E t \in out : t.to = me /\ t.kind = k /\ t.res = "pretended") ~>
      \/ \E t \in out : t.to = me /\ t.kind = k /\ t.res = "sent"
      \/ quit \/ pc \in {"free", "close", "exited"}

=============================================================================
