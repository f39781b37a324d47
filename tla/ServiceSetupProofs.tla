------------------------- MODULE ServiceSetupProofs -------------------------
(***************************************************************************)
(* Theorems about ServiceSetup, for every length of host names and of the  *)
(* constant parts of the names.                                            *)
(***************************************************************************)
EXTENDS ServiceSetup, TLAPS

\* The service exists, and nobody has started to destroy it.
Making == {"interfaces", "v4", "v6", "opened", "hostname", "service_instance",
           "qualified_hostname", "buffer", "returned"}

\* What the service knows of is what is to be undone: each pointer of it leads
\* to a block that is held, each of its sockets is open.
Owned ==
  pc \in Making \cup {"destroy"} =>
    /\ heap["service"] = "held"
    /\ \A b \in Field : /\ heap[b] # "freed twice"
                        /\ b \in fields <=> heap[b] = "held"
    /\ \A f \in Link : /\ fds[f] # "closed twice"
                       /\ f \in socks <=> fds[f] = "open"

\* Nothing has been done yet.
Untouched ==
  pc = "service" => /\ fields = {} /\ socks = {}
                    /\ \A b \in DOMAIN heap : heap[b] = "none"
                    /\ \A f \in Link : fds[f] = "none"

\* How far the service has come.
Stage ==
  /\ pc \in {"interfaces", "v4", "v6", "opened", "hostname"} => fields = {}
  /\ pc \in {"interfaces", "v4"} => socks = {}
  /\ pc = "v6" => "v6" \notin socks
  /\ pc = "service_instance" => fields = {"hostname"}
  /\ pc = "qualified_hostname" => fields = {"hostname", "service_instance"}
  /\ pc = "buffer" => fields = Field \ {"buffer"}
  /\ pc = "returned" => fields = Field
  /\ pc \in Field \cup {"returned"} => socks # {}

\* It is all over.
Undone ==
  pc \in {"null", "destroyed"} =>
    /\ \A b \in DOMAIN heap : heap[b] \notin {"held", "freed twice"}
    /\ \A f \in Link : fds[f] \notin {"open", "closed twice"}

Inv == TypeOK /\ Owned /\ Untouched /\ Stage /\ Undone /\ StringsWhole

-----------------------------------------------------------------------------
LEMMA InitInv == Init => Inv
  BY ServiceSetupAssumption
  DEF Init, Inv, TypeOK, Owned, Untouched, Stage, Undone, StringsWhole, Making,
      Field, Link, Composed

\* malloc and memset of the service, and get_interfaces.
LEMMA BeginStep ==
  ASSUME Inv, MallocServiceFails \/ MallocService \/ GetInterfaces PROVE Inv'
<1>. USE DEF Inv, TypeOK, Owned, Untouched, Stage, Undone, StringsWhole, Making,
             Field, Link, Composed, Goto, sockets, memory, strings
<1>1. CASE MallocServiceFails
  BY <1>1 DEF MallocServiceFails
<1>2. CASE MallocService
  BY <1>2 DEF MallocService, Allocated
<1>3. CASE GetInterfaces
  BY <1>3 DEF GetInterfaces
<1>. QED BY <1>1, <1>2, <1>3

\* Whatever becomes of one socket, the service knows of it if it is open, as
\* it was for the other.
LEMMA OneSocket ==
  ASSUME Inv, NEW f \in Link, f \notin socks, pc \in Making, NEW after \in Making,
         CreateSocket(f, after)
  PROVE  /\ fds' \in [Link -> {"none", "open", "closed", "closed twice"}]
         /\ socks' \subseteq found /\ socks' \in {socks, socks \cup {f}}
         /\ \A g \in Link : /\ fds'[g] # "closed twice"
                            /\ g \in socks' <=> fds'[g] = "open"
<1>1. /\ fds \in [Link -> {"none", "open", "closed", "closed twice"}]
      /\ socks \subseteq found
      /\ \A g \in Link : /\ fds[g] # "closed twice"
                         /\ g \in socks <=> fds[g] = "open"
  BY DEF Inv, TypeOK, Owned
<1>2. CASE UNCHANGED <<fds, socks>>
  BY <1>1, <1>2
<1>3. CASE f \in found /\ socks' = socks \cup {f} /\ fds' = [fds EXCEPT ![f] = "open"]
  BY <1>1, <1>3
<1>4. CASE socks' = socks /\ fds' = [fds EXCEPT ![f] = "closed"]
  BY <1>1, <1>4
<1>. QED BY <1>2, <1>3, <1>4 DEF CreateSocket, mdns_socket_open

\* The two sockets.
LEMMA SocketStep ==
  ASSUME Inv, CreateSockets \/ SocketsCreated PROVE Inv'
<1>1. ASSUME NEW f \in Link, NEW after \in Making, CreateSocket(f, after),
             <<f, after>> \in {<<"v4", "v6">>, <<"v6", "opened">>}
      PROVE  Inv'
  <2>1. pc = f /\ pc \in Making /\ pc' = after /\ f \notin socks
    BY <1>1 DEF CreateSocket, Goto, Inv, Stage, Making
  <2>2. UNCHANGED <<found, heap, fields, hostname_len, length, written>>
    BY <1>1 DEF CreateSocket, memory, strings
  <2>3. /\ fds' \in [Link -> {"none", "open", "closed", "closed twice"}]
        /\ socks' \subseteq found /\ socks' \in {socks, socks \cup {f}}
        /\ \A g \in Link : /\ fds'[g] # "closed twice"
                           /\ g \in socks' <=> fds'[g] = "open"
    BY <1>1, <2>1, OneSocket
  <2>4. TypeOK' /\ StringsWhole'
    BY <1>1, <2>1, <2>2, <2>3 DEF Inv, TypeOK, StringsWhole
  <2>5. Owned'
    BY <2>1, <2>2, <2>3 DEF Inv, Owned
  <2>6. Untouched' /\ Undone'
    BY <1>1, <2>1 DEF Untouched, Undone
  <2>7. Stage'
    BY <1>1, <2>1, <2>2, <2>3 DEF Inv, Stage, Field
  <2>. QED BY <2>4, <2>5, <2>6, <2>7 DEF Inv
<1>2. CASE SocketsCreated
  BY <1>2 DEF SocketsCreated, Inv, TypeOK, Owned, Untouched, Stage, Undone,
              StringsWhole, Making, Field, Link, Goto, sockets, memory, strings
<1>. QED BY <1>1, <1>2 DEF CreateSockets, Link, Making

\* No composed string is longer than its buffer.
LEMMA Fit ==
  ASSUME TypeOK, NEW s \in Composed
  PROVE  Wanted[s] \in Nat /\ Wanted[s] < BufferSize[s]
<1>0. hostname_len \in 0 .. HOST_NAME_MAX
  BY DEF TypeOK
<1>1. hostname_len \in Nat /\ hostname_len <= HOST_NAME_MAX
  BY <1>0, ServiceSetupAssumption
<1>2. CASE s = "service_instance"
  BY <1>1, <1>2, ServiceSetupAssumption DEF Wanted, BufferSize
<1>3. CASE s = "qualified_hostname"
  BY <1>1, <1>3, ServiceSetupAssumption DEF Wanted, BufferSize
<1>. QED BY <1>2, <1>3 DEF Composed

\* The strings and the buffer.
LEMMA StringStep ==
  ASSUME Inv, CreateStrings \/ MallocFails \/ MallocBuffer PROVE Inv'
<1>. USE DEF Inv, TypeOK, Owned, Untouched, Stage, Undone, Making,
             Field, Link, Composed, Goto, Stored, Allocated, sockets, memory, strings
<1>1. CASE GetHostnameFails
  BY <1>1 DEF GetHostnameFails, StringsWhole
<1>2. CASE GetHostname
  BY <1>2, ServiceSetupAssumption DEF GetHostname, StringsWhole
<1>3. CASE Compose("service_instance", "qualified_hostname")
  <2>1. Wanted["service_instance"] \in Nat
        /\ Wanted["service_instance"] < BufferSize["service_instance"]
    BY Fit
  <2>2. StringsWhole'
    BY <1>3, <2>1 DEF Compose, StringsWhole
  <2>3. TypeOK'
    BY <1>3, <2>1 DEF Compose
  <2>. QED BY <1>3, <2>2, <2>3 DEF Compose
<1>4. CASE Compose("qualified_hostname", "buffer")
  <2>1. Wanted["qualified_hostname"] \in Nat
        /\ Wanted["qualified_hostname"] < BufferSize["qualified_hostname"]
    BY Fit
  <2>2. StringsWhole'
    BY <1>4, <2>1 DEF Compose, StringsWhole
  <2>3. TypeOK'
    BY <1>4, <2>1 DEF Compose
  <2>. QED BY <1>4, <2>2, <2>3 DEF Compose
<1>5. CASE MallocFails
  BY <1>5 DEF MallocFails, StringsWhole
<1>6. CASE MallocBuffer
  BY <1>6 DEF MallocBuffer, StringsWhole
<1>. QED BY <1>1, <1>2, <1>3, <1>4, <1>5, <1>6 DEF CreateStrings

\* What is destroyed is what the service knows of.
LEMMA DestroyStep ==
  ASSUME Inv, advertise_destroy_service PROVE Inv'
<1>1. /\ pc \in Making \cup {"destroy"} /\ pc' \in {"null", "destroyed"}
      /\ UNCHANGED <<found, socks, fields, hostname_len, length, written>>
  BY DEF advertise_destroy_service, Goto, Making, strings
<1>2. /\ \A b \in Field : /\ heap[b] # "freed twice"
                          /\ b \in fields <=> heap[b] = "held"
      /\ heap["service"] = "held"
      /\ \A f \in Link : /\ fds[f] # "closed twice"
                         /\ f \in socks <=> fds[f] = "open"
      /\ heap \in [Field \cup {"service"} -> {"none", "held", "freed", "freed twice"}]
      /\ fds \in [Link -> {"none", "open", "closed", "closed twice"}]
  BY <1>1 DEF Inv, Owned, TypeOK
<1>3. heap' = free(heap, fields \cup {"service"}) /\ fds' = close(socks)
  BY DEF advertise_destroy_service
<1>4. /\ heap' \in [Field \cup {"service"} -> {"none", "freed"}]
  BY <1>2, <1>3 DEF free
<1>5. fds' \in [Link -> {"none", "closed"}]
  BY <1>2, <1>3 DEF close
<1>6. TypeOK' /\ StringsWhole'
  BY <1>1, <1>4, <1>5 DEF Inv, TypeOK, StringsWhole
<1>7. Owned' /\ Untouched' /\ Stage'
  BY <1>1 DEF Owned, Untouched, Stage, Making, Field
<1>8. Undone'
  BY <1>4, <1>5 DEF Undone
<1>. QED BY <1>6, <1>7, <1>8 DEF Inv

LEMMA NextInv == Inv /\ [Next]_vars => Inv'
<1>. SUFFICES ASSUME Inv, [Next]_vars PROVE Inv'
  OBVIOUS
<1>1. CASE UNCHANGED vars
  BY <1>1 DEF Inv, TypeOK, Owned, Untouched, Stage, Undone, StringsWhole,
              vars, sockets, memory, strings
<1>2. CASE Next
  BY <1>1, <1>2, BeginStep, SocketStep, StringStep, DestroyStep DEF Next, Over
<1>. QED BY <1>1, <1>2

\* In every reachable state, what the service points to is what is held.
THEOREM Accounted == Spec => []Inv
  BY InitInv, NextInv, PTL DEF Spec

\* advertise_create_service and advertise_destroy_service neither leave memory
\* or a socket behind nor free or close anything twice, whatever call fails.
THEOREM LosesNothing == Spec => []NothingLost
<1>1. Inv => NothingLost
  <2>. SUFFICES ASSUME Inv PROVE NothingLost
    OBVIOUS
  <2>. USE DEF Inv, TypeOK, Owned, Untouched, Undone, Making, Field, Link, NothingLost
  <2>1. CASE pc \in Making \cup {"destroy"}
    BY <2>1
  <2>2. CASE pc = "service"
    BY <2>2
  <2>3. CASE pc \in {"null", "destroyed"}
    BY <2>3
  <2>. QED BY <2>1, <2>2, <2>3
<1>. QED BY Accounted, <1>1, PTL

\* A service that advertise_create_service returns has all its strings, its
\* buffer, and at least one open socket.
THEOREM ReturnsComplete == Spec => []ServiceComplete
<1>1. Inv => ServiceComplete
  BY DEF Inv, TypeOK, Owned, Stage, Making, Field, Link, ServiceComplete
<1>. QED BY Accounted, <1>1, PTL

\* No host name is so long that snprintf cuts a name off.
THEOREM NeverCut == Spec => []StringsWhole
<1>1. Inv => StringsWhole
  BY DEF Inv
<1>. QED BY Accounted, <1>1, PTL

=============================================================================
