---------------------------- MODULE ServiceSetup ----------------------------
(***************************************************************************)
(* How the mDNS service comes into being and what is left of it when it    *)
(* cannot: advertise_create_service with everything it calls, any of which *)
(* may fail, and advertise_destroy_service, which undoes a service that    *)
(* may be half made.  What a complete service then does is in Advertise,   *)
(* what main makes of the result in Lifecycle.                             *)
(*                                                                         *)
(* Of a string only its length matters.                                    *)
(***************************************************************************)
EXTENDS Naturals

CONSTANTS
  HOST_NAME_MAX,  \* the longest name gethostname returns
  ServiceLen,     \* the length of SERVICE_NAME
  SuffixLen       \* the length of QUALIFIED_SUFFIX

ASSUME ServiceSetupAssumption ==
  /\ HOST_NAME_MAX \in Nat /\ ServiceLen \in Nat /\ SuffixLen \in Nat

Link == {"v4", "v6"}

\* The pointers of advertise_service_t that are freed with it.
Field == {"hostname", "service_instance", "qualified_hostname", "buffer"}

VARIABLES
  pc,       \* the call that is next, or "returned", "destroy", "null", "destroyed"
  found,    \* the families get_interfaces found an address for
  fds,      \* the socket of each family: "none", "open", "closed", "closed twice"
  socks,    \* the families whose service->socks is not -1
  heap,     \* each block of memory: "none", "held", "freed", "freed twice"
  fields,   \* the fields of the service that are not NULL
  hostname_len,
  length,   \* the lengths recorded with the two composed strings
  written   \* what snprintf wrote of them

sockets == <<found, fds, socks>>
memory == <<heap, fields>>
strings == <<hostname_len, length, written>>
vars == <<pc, sockets, memory, strings>>

Composed == {"service_instance", "qualified_hostname"}

TypeOK ==
  /\ pc \in {"service", "interfaces", "v4", "v6", "opened", "hostname",
             "service_instance", "qualified_hostname", "buffer",
             "returned", "destroy", "null", "destroyed"}
  /\ found \subseteq Link /\ socks \subseteq found
  /\ fds \in [Link -> {"none", "open", "closed", "closed twice"}]
  /\ heap \in [Field \cup {"service"} -> {"none", "held", "freed", "freed twice"}]
  /\ fields \subseteq Field
  /\ hostname_len \in 0 .. HOST_NAME_MAX
  /\ length \in [Composed -> Nat] /\ written \in [Composed -> Nat]

Init ==
  /\ pc = "service"
  /\ found = {} /\ socks = {}
  /\ fds = [f \in Link |-> "none"]
  /\ heap = [b \in Field \cup {"service"} |-> "none"]
  /\ fields = {}
  /\ hostname_len = 0
  /\ length = [s \in Composed |-> 0] /\ written = [s \in Composed |-> 0]

Goto(a, b) == pc = a /\ pc' = b

\* malloc of a block that is next.
Allocated(b) == heap' = [heap EXCEPT ![b] = "held"]

free(h, B) ==
  [b \in DOMAIN h |->
     IF b \in B THEN IF h[b] = "held" THEN "freed" ELSE "freed twice" ELSE h[b]]

close(S) ==
  [f \in Link |->
     IF f \in S THEN IF fds[f] = "open" THEN "closed" ELSE "closed twice" ELSE fds[f]]

-----------------------------------------------------------------------------
(***************************************************************************)
(* advertise_create_service.                                               *)
(***************************************************************************)
MallocServiceFails ==
  /\ Goto("service", "null")
  /\ UNCHANGED <<sockets, memory, strings>>

\* memset makes every pointer NULL; the sockets are set to -1.
MallocService ==
  /\ Goto("service", "interfaces")
  /\ Allocated("service")
  /\ UNCHANGED <<sockets, fields, strings>>

\* getifaddrs may fail, which looks like no interface.
GetInterfaces ==
  /\ \E S \in SUBSET Link : found' = S
  /\ Goto("interfaces", IF found' = {} THEN "destroy" ELSE "v4")
  /\ UNCHANGED <<fds, socks, memory, strings>>

\* Faulty: the socket is not closed if it cannot be set up.
mdns_socket_open_leaks(f) ==
  \/ socks' = socks \cup {f} /\ fds' = [fds EXCEPT ![f] = "open"]
  \/ UNCHANGED <<fds, socks>>
  \/ UNCHANGED socks /\ fds' = [fds EXCEPT ![f] = "open"]

\* mdns_socket_open_ipv4 and _ipv6: it is opened, or socket fails, or the
\* group cannot be joined or the port not bound, and it is closed again.  The
\* results of the other options are ignored.
mdns_socket_open(f) ==
  \/ socks' = socks \cup {f} /\ fds' = [fds EXCEPT ![f] = "open"]
  \/ UNCHANGED <<fds, socks>>
  \/ UNCHANGED socks /\ fds' = [fds EXCEPT ![f] = "closed"]

CreateSocket(f, after) ==
  /\ Goto(f, after)
  /\ IF f \in found THEN mdns_socket_open(f) ELSE UNCHANGED <<fds, socks>>
  /\ UNCHANGED <<found, memory, strings>>

CreateSockets == CreateSocket("v4", "v6") \/ CreateSocket("v6", "opened")

SocketsCreated ==
  /\ Goto("opened", IF socks = {} THEN "destroy" ELSE "hostname")
  /\ UNCHANGED <<sockets, memory, strings>>

\* Faulty: the pointer is stored before gethostname is asked.
GetHostnameFailsLate ==
  /\ Goto("hostname", "destroy")
  /\ heap' = [heap EXCEPT !["hostname"] = "freed"]
  /\ fields' = fields \cup {"hostname"}
  /\ UNCHANGED <<sockets, strings>>

\* The block is freed where it was allocated, and the service does not know
\* of it.
GetHostnameFails ==
  /\ Goto("hostname", "destroy")
  /\ heap' = [heap EXCEPT !["hostname"] = "freed"]
  /\ UNCHANGED <<sockets, fields, strings>>

Stored(f) == Allocated(f) /\ fields' = fields \cup {f}

GetHostname ==
  /\ Goto("hostname", "service_instance")
  /\ Stored("hostname")
  /\ \E n \in 0 .. HOST_NAME_MAX : hostname_len' = n
  /\ UNCHANGED <<sockets, length, written>>

\* Faulty: the dot is forgotten.
BufferSize_no_dot == [service_instance   |-> HOST_NAME_MAX + ServiceLen + 1,
                      qualified_hostname |-> HOST_NAME_MAX + SuffixLen + 1]

\* sizeof counts the NUL of the constants.
BufferSize == [service_instance   |-> HOST_NAME_MAX + 1 + (ServiceLen + 1),
               qualified_hostname |-> HOST_NAME_MAX + (SuffixLen + 1)]

\* The length of what snprintf is asked to write.
Wanted == [service_instance   |-> hostname_len + 1 + ServiceLen,
           qualified_hostname |-> hostname_len + SuffixLen]

Compose(s, after) ==
  /\ Goto(s, after)
  /\ Stored(s)
  /\ written' = [written EXCEPT ![s] =
       IF Wanted[s] < BufferSize[s] THEN Wanted[s] ELSE BufferSize[s] - 1]
  /\ length' = [length EXCEPT ![s] = Wanted[s]]
  /\ UNCHANGED <<sockets, hostname_len>>

\* malloc fails in create_service_strings, or at the end for the buffer.
MallocFails ==
  /\ pc \in Field /\ pc' = "destroy"
  /\ UNCHANGED <<sockets, memory, strings>>

\* create_mdns_records fails at nothing.
MallocBuffer ==
  /\ Goto("buffer", "returned")
  /\ Stored("buffer")
  /\ UNCHANGED <<sockets, strings>>

CreateStrings ==
  \/ GetHostnameFails \/ GetHostname
  \/ Compose("service_instance", "qualified_hostname")
  \/ Compose("qualified_hostname", "buffer")

\* advertise_destroy_service: after err_free_service, or when main is done.
advertise_destroy_service ==
  /\ \/ Goto("destroy", "null")
     \/ Goto("returned", "destroyed")
  /\ fds' = close(socks)
  /\ heap' = free(heap, fields \cup {"service"})
  /\ UNCHANGED <<found, socks, fields, strings>>

Over == pc \in {"null", "destroyed"} /\ UNCHANGED vars

Next ==
  \/ MallocServiceFails \/ MallocService \/ GetInterfaces
  \/ CreateSockets \/ SocketsCreated
  \/ CreateStrings \/ MallocFails \/ MallocBuffer
  \/ advertise_destroy_service \/ Over

Spec == Init /\ [][Next]_vars

-----------------------------------------------------------------------------
(***************************************************************************)
(* Properties.                                                             *)
(***************************************************************************)

\* Wherever it failed, and after a service that was complete, no memory is
\* left and no socket open, and nothing is freed or closed twice.
NothingLost ==
  /\ \A b \in DOMAIN heap : heap[b] # "freed twice"
  /\ \A f \in Link : fds[f] # "closed twice"
  /\ pc \in {"null", "destroyed"} =>
       /\ \A b \in DOMAIN heap : heap[b] # "held"
       /\ \A f \in Link : fds[f] # "open"

\* A service that main gets is complete: what Lifecycle and Advertise take for
\* granted of it, and what advertise_announce and the callback use untested.
ServiceComplete ==
  pc = "returned" =>
    /\ fields = Field /\ \A b \in DOMAIN heap : heap[b] = "held"
    /\ socks # {} /\ socks = {f \in Link : fds[f] = "open"}

\* The lengths the names are announced with are those of the strings: also the
\* longest host name is not cut off by its buffer.
StringsWhole == \A s \in Composed : written[s] = length[s]

=============================================================================
