# A TLA+ verification of wlr-remote

wlr-remote turns UDP datagrams, protected by DTLS with a pre-shared password,
into pointer events of a Wayland compositor, and announces itself with mDNS.
This directory holds TLA+ modules of it, the TLC runs that check them and the
TLAPS proofs of what matters most. Paths are relative to the repository.

## The system

| Component | Source | State it keeps | Operations | Speaks to |
| --- | --- | --- | --- | --- |
| main | `src/main.c` | local resources, `success` | startup, epoll loop, cleanup ladder | everything |
| DTLS networking | `src/network.c` | two UDP sockets | `net_setup_udp_sockets`, `net_setup_epoll`, `net_handle_epoll`, four callbacks | tinydtls, kernel, virtual pointer |
| virtual pointer | `src/virtual_pointer.c` | seat, manager, pointer | `vp_handle_packet`, registry listener | compositor |
| setup | `src/setup.c` | `quit`, the terminal, the password's buffer | signals, password, port | user |
| mDNS advertising | `src/advertise.c` | sockets, addresses, strings, records, one buffer | create, announce, answer, goodbye, destroy | mDNS listeners |
| mDNS library | `lib/mdns.h` | the string table of one message | names, records, answers, one-datagram listen | kernel |
| test client | `src/test-client.c` | `is_connected`, its peer | password, handshake with timeout, fifty packets, close | server |
| tinydtls, libwayland | not in the repository | peers; request buffer | called by, and calling back into, the above | |

Everything runs in one thread. What makes it hard: the signal handler may run
between any two instructions; the kernel queues datagrams, queries and
compositor events while the thread is elsewhere; datagrams are lost, repeated
and reordered; requests made in a callback are written only at the top of the
loop; an error for one peer leaves the loop for all; cleanup sends on sockets
it is about to close; every call of startup may fail, and two of its helpers
clean up after themselves while main cleans up too.

What makes each component correct:

* main: a signal ends it; it does not sleep with unwritten requests; each
  ready descriptor is served; every path out undoes what was done, in order.
* networking: only peers with the identity and the password get through; a
  record acts at most once; what is sent goes to an open socket; one UDP
  socket per family, watched by epoll.
* virtual pointer: each packet becomes one complete frame or nothing.
* setup: the terminal echoes again whatever happens; a password is used as it
  was typed or refused.
* advertising: a service is made whole or undone whole; whoever was told of it is
  told of its end; an answer does not spoil the question after it.
* mDNS library: names are read back as they were written; what strangers write
  is read as RFC 1035 means it, inside the message, in bounded time.
* test client and server: both agree on who is in a session; nobody waits for
  ever for the other; packets of an undisturbed run are all applied.

## The modules

| Module | Models | Used by |
| --- | --- | --- |
| `VirtualPointer` | `net_handle_receive` and `vp_handle_packet` as operators from a record to a sequence of requests; `int32_t` and `wl_fixed_t` with their width | `RemotePointer`, `Server` |
| `RemotePointer` | the abstract specification: records of paired clients are applied at most once, each with all its requests together | `Server` (refinement) |
| `Server` | main's loop and cleanup, `net_handle_epoll`, the DTLS callbacks, the signal handler, kernel queues, clients, queriers and compositor | `MCServer`, proofs |
| `MCServer` | instances of `Server`: clients, credentials, packets | runs |
| `Setup` | the password's buffer and its limits, the port, as operators | `Lifecycle`, `TestClient` |
| `Lifecycle` | main from first to last line with every failure | runs, proofs |
| `TestClient` | the test client's main and callbacks, one action per stretch between two messages | `RemoteSystem` |
| `RemoteSystem` | `Server`, one `TestClient` and a network with faults, composed | `MCRemoteSystem`, proofs |
| `MCRemoteSystem` | two clients, one of which may use the password | runs |
| `ServiceSetup` | `advertise_create_service` with all it calls, `advertise_destroy_service` | runs, proofs |
| `Advertise` | the service's records, messages, answers, announcement and goodbye, `mdns_socket_listen`, listeners | `MCAdvertise`, proofs |
| `MCAdvertise` | interfaces and questions | runs |
| `MdnsNames` | writing names: `mdns_string_make`, the string table, references | `MCMdnsNames`, proofs |
| `MCMdnsNames` | the names of wlr-remote's own messages | runs |
| `MdnsRead` | reading names and records: `mdns_get_next_substring`, `mdns_string_skip`, `_equal`, `_extract`, `mdns_records_parse` | `MCMdnsRead`, proofs |
| `MCMdnsRead` | all messages over six bytes | runs |
| `ServerProofs`, `ServerSafetyProofs` | theorems about `Server` | |
| `LifecycleProofs` | theorems about `Lifecycle` | |
| `RemoteSystemProofs` | theorems about the composition | |
| `ServiceSetupProofs`, `AdvertiseProofs`, `MdnsNamesProofs`, `MdnsReadProofs` | theorems about the modules they are named for | |

Some definitions carry the comment "Faulty": each is a variant of the one after
it with a mistake that could have been made in the code. They are used nowhere;
replacing the original by one of them makes the property named for it in
`PROJECT.json` fail, which shows that the property depends on the code.

### Server

One action is one stretch of code between two points where the environment can
make a difference. `pc` is where main is:

| `pc` | Code |
| --- | --- |
| `check` | `while (!quit)` |
| `flush` | `wl_display_dispatch_pending`, `wl_display_flush` |
| `enter` | about to call `epoll_wait` |
| `wait` | inside it |
| `batch` | the `for` loop; `batch` holds the events not yet handled |
| `drain` | the loop of `net_handle_epoll`, on the socket at the head of `batch` |
| `free` | `err_free_all`: goodbye, service, `dtls_free_context` |
| `close` | the sockets and the Wayland objects |
| `exited` | after `return` |

`enter` is a state of its own because a signal between the test and the system
call is only noticed at the next wakeup; the history variable `late` records
that this happened, and `QuitHeeded` excludes exactly it.

What tinydtls does is modelled from how the callbacks use it: a handshake asks
`net_get_psk_info` for the key and completes if the client has the same one;
only records of the current session that were not seen before reach
`net_handle_receive`; `dtls_free_context` sends a close alert to each connected
peer; whenever the code relies on nothing (a record that does not verify, a
refused key, a failing send) both a zero and a negative result of
`dtls_handle_message` are possible. That a record is delivered at most once is
therefore an assumption about tinydtls (DTLS replay protection), not a fact
about this code. Handshake flights are merged into two exchanges, `hello` and
`key`; the cookie exchange is left out. `net_handle_send` may succeed, pretend
to (a full buffer), or fail.

Clients send `hello` and `key` at any time, and records once they know their
handshake to be complete. `sent` keeps all records ever sent, and `Deliver`
puts any of them, any number of times, into the socket, so loss, repetition,
reordering and delay, also beyond the end of a session, are all there.

The Wayland connection is counted in requests: `stream` is everything ever
asked, `flushed` what has left, `consumed` what the compositor has read, and
`WlCap` what the socket holds. `wl_display_flush` writes what fits,
and nothing if the compositor is gone; `wl_display_dispatch` waits until all fits.
libwayland also writes by itself when its own buffer fills up; that only makes
`flushed` larger and is left out. The history variable `full` remembers whether the
last flush of main's loop left the socket with no room beyond what the compositor had
read. `WaitsFlushed` accepts unwritten requests only then, or without a compositor:
it holds the flush of every pass to what was possible at that moment, also when
an earlier one had to leave something behind.

### Lifecycle

Every call that can fail has an action for its failure. Descriptors have
identities, `fds` remembers what became of each, so that a second `close` is
visible. `failed` names the call that led to a label and lets `SocketsClosed`
say exactly which failures leave sockets behind: `epoll_create1` (its helper
returns without closing them) and `dtls_new_context` (main jumps past the code
that closes them). The epoll descriptor itself is closed only if `epoll_ctl`
fails. `SocketsClosed` speaks of sockets only.

What is typed at the prompt is a line of `Setup`: its length, whether a newline
ends it, and where it holds a NUL. `PSK_BUFFER_SIZE` leaves room for the newline
after the longest key, which is how `setup_password` tells the longest password
from one that is too long; `PasswordWhole` says what that is for.

### TestClient and RemoteSystem

`TestClient` is a state machine without an environment: each action leaves in
`put` what it gave to `sendto`, and a message from the server is a parameter of
the action that handles it. Unlike `setup_password`, the client's main checks no
length, so that a key that is too long is refused only by its own
`net_get_psk_info`, in the middle of the handshake.

`RemoteSystem` conjoins. A step of the server is a step of `Server` as it is
there, and what it leaves in `out` for the client with `res = "sent"` becomes a
datagram in `down`. A step of the client is one of `TestClient`, and `Emit` turns
`put` into a datagram in `up`; for a packet or a close that is `Server`'s own
`ClientSends`, so that its record counts as sent. `Arrives` is `Server`'s
`Deliver` with the datagram at the head of `up`. The composition therefore has no
server of its own, and `ServerInside` proves that it is one of `Server`'s
behaviours. A client whose session the server has replaced (a repeated hello and
key) writes records that do not verify.

`Misordered` and `Lost` are the network's faults: a datagram overtakes others, is
delivered twice, or disappears, in either direction. `faults` counts them together
with what else may excuse a failing client: a refused `sendto`, a server that
ends, a socket that could not be opened, and a timeout while the server had not
yet handled all it was sent (`Idle`). `Excuse` counts without limiting; only the
network's own faults stop at `MaxFaults`. `FailureExcused` is then the statement
that silence is never the server's own doing. A datagram that `net_handle_send` only
pretended to send counts as an excuse, too; what comes of those is the question of
`lost_flight`.

Two actions stand for two whole exchanges, as in `Server`. Retransmission is not
there because nothing in the repository calls it.

### ServiceSetup

One action per call that can fail. `heap` says of each block what became of it,
`fields` which pointers of the service are not NULL, `fds` the same of sockets and
`socks` of their fields. The host name is a length; `Wanted` is what `snprintf`
is asked to write, `BufferSize` what was allocated, `length` what the
`mdns_string_t` claims. That `Lifecycle` may take the creation of the service for
one step, and `Advertise` start from a complete one, rests on `NothingLost` and
`ServiceComplete`.

### MdnsNames

A message is a sequence of cells (label, reference, end), an offset the index of
a cell. The ring of sixteen table entries is shortened, so that it forgets
within a few names. What lies behind the end of a name that is still being
written is left over from an earlier message: reading it may match or not.

### MdnsRead

`MdnsNames` writes, this module reads, and of what it reads nothing is assumed: a
message is any function from positions to bytes. A step is one pass of a
function's loop. References have two bytes as in C, with six bits of the first;
the limits on labels (`MDNS_MAX_SUBSTRINGS`) and references (sixteen) and the ten
bytes of a record's header are constants, scaled down so that a message of five
bytes reaches each. `NamesAt` is the reference definition: the names of RFC 1035
at a position, if there are any, by following labels and references without a
limit. `mdns_string_equal` is modelled for the way `mdns_socket_listen` calls it,
a message against the constant query. A length byte from 64 to 191, which the RFC
reserves, counts as a length in the code and in `NamesAt`; the run has none. That
reads stay inside the message is said of these four functions only, not of the header,
type and class that `mdns_socket_listen` reads by itself (see Advertise).

### Advertise

From the return of `advertise_create_service` to the end of the goodbye. `phase`
tells main's position: `created` until the announcement, `idle` in main's loop,
`listen` inside `mdns_socket_listen`, where each question is one step, `gone`
after the goodbye. Records are operators over `addrs`, which the interface list
fixes in `Init`; `build_additional` keeps the fall-through of its cases. A
message carries the counts of its header apart from its records, because the
code computes the one from the arrays and writes the others with two functions.
The additional records are a function from the statement of `build_additional`
that adds each to the record: no statement runs twice, and nothing depends on the
order they have in the array, which is left out.
`wire` is the link to one listener, in order and lossy; `cache` is what it holds.
The lifetimes differ (4500 s for the service, 120 s for host, port and addresses,
10 s for the answer of a unicast reply), and nobody announces again: after two
minutes a listener may hold the service without the rest. So `Expire` may take any
entry at any time, and `Resolvable` is about the step in which a listener learns of
the service, not about all it holds later. `GoodbyeClears` holds under expiry.

In a datagram, `response` says that the flags are not zero, and `cut` that it ends
behind the name of its last question. `mdns_socket_listen` reads names up to the
length of what was received, but the header and each question's type and class
without a look at it (`lib/mdns.h:1060`, `1083`): what is missing is then what an
older datagram or an announcement left in `service->buffer`. `Seen` takes any type
and class for it, so that the code may answer a question that was never asked, or
stop at it. A datagram that ends in its header or inside a name stops at that name,
like one that cannot be read. `AnswersAsked` claims of a cut question no more
than is true: the reply is for its name, and goes where it came from.

The records bring a class, so `mdns_record_update_rclass_ttl` never puts the
cache-flush bit of `mdns_announce_multicast` into them; no property claims it.

## The runs

| Run | Question | Bounds |
| --- | --- | --- |
| `server_stream` | do two packets, in whatever order and however interrupted, reach the compositor as complete frames, flushed in time and as `RemotePointer` allows? | one client, two packets of three kinds, four arrivals, socket for three requests |
| `server_peers` | who gets a session, how do sessions end, where does the server send, what does exit leave? | a paired client, one with a wrong password, one with a wrong identity; three arrivals, one packet or close each |
| `server_live` | does a signal end the process, is every queue emptied, do requests arrive? | one client, one mDNS socket, four arrivals, two events per wakeup |
| `lifecycle` | does every failure of startup, and a signal at any point, undo what was done? | three addresses, two seats |
| `mdns_names` | are names read back as written? | four names of a usual host, five per message, four table entries, 48 bytes |
| `mdns_dotted_host` | the same for a host called `desk.local`: expected to fail | three names |
| `advertise` | what do listeners hold after announcement, answers and goodbye? | two of four addresses, one datagram with up to two of nine questions, whole or cut off, one entry that expires |
| `mdns_responses` | is a response left unanswered? expected to fail | one question |
| `remote_system` | do client and server agree, does a failure have a cause, is everything applied, does the client end? | two clients, one running; one family, one packet, four arrivals, one fault |
| `lost_flight` | is a flight sent again that did not fit the socket? expected to fail | `mate` alone, no fault of the network |
| `service_setup` | is a half-made service undone, a returned one complete, a name whole? | host names up to three characters |
| `mdns_read` | do the readers end, agree with RFC 1035 and each other, and stay inside? | every message of five bytes over {0, 1, 2, `A`, `a`, 192}, two starts, three records |

One datagram suffices in `advertise`: what it leaves for the next is `wire`, `cache`
and bytes in `service->buffer`, and those `Seen` leaves open for any datagram, the
first included. One entry that expires is enough to learn of the service again from
an answer, or to hear a goodbye for less than one was told. Two questions are needed for one to be answered
while the other is still to be read. In `server_stream` one packet presses and
moves, one presses with a motion that overflows to zero, one is refused after
decoding.

Four arrivals suffice for a handshake and two records, or a handshake, a record
and its repetition; three for a session and a close or a packet next to another
client's handshake. Arithmetic is scaled to four-bit integers with two fraction
bits, so that overflow is within reach of a packet. In
`server_stream` the second packet finds a full socket, and main comes back to
the flush with room for part of the backlog. In `server_live` the socket holds
everything, so that `RequestsShown` is not about a backlog: without `POLLOUT` the rest
of one waits for something else to wake main, and may wait for ever. The
number of arrivals is bounded: a client that never pauses can keep
`net_handle_epoll` busy for ever, and nothing else is served until it does.
`DatagramsTaken` and the others hold for traffic that pauses.

In `remote_system` the client `mate` types the password; `typo` types another one,
nothing, or one character more than tinydtls takes, and everything else it does
is left to the code. One packet of the client's fifty is enough for the close to
overtake one or be overtaken; one fault for each way to disturb a handshake of
four datagrams, and `Agreement` is proved for any number. In `mdns_read` five
bytes hold a name of two labels, a reference to a reference, a loop, and a
record after a name; the second start, inside the message, lets references go
back. `service_setup` needs no bound but the length of a name, and is proved for
any.

Fairness: weak fairness of `Scheduled`, the steps of the one thread except a
failing `epoll_wait` or `recvfrom` (a runnable process is scheduled; that a call
fails is possible but nothing to count on, and a wait that only an error could
end counts as endless), and of `CompositorReads` (the compositor reads its
clients' requests). Nothing is assumed of signals, clients, the network or
mDNS. `RemoteSystem` adds weak fairness of the client: it is scheduled, `select`
with its five seconds returns, and somebody types a line. A datagram on its way
need never arrive. `MdnsRead` is a function call: weak fairness of its steps.
Deadlock is checked in every run.

Every action fires in some run. `Exited` stutters, so that the end of the
process is no deadlock.

### What the failing runs show

`mdns_dotted_host`: `mdns_string_table_find` stops when the labels it looks for are used up and does
not test that the entry's name ends there as well, so an entry that only begins
with them is taken for "entire string matches" (`lib/mdns.h:748`). For the
names of an ordinary host no tail of a name is the proper beginning of
another, and `mdns_names` passes. For a host called `desk.local` the address
record's name `desk.local.local.` becomes `desk`, `local` and a reference to
that same `local`.

`mdns_responses`: `mdns_socket_listen` is said to listen for "query requests"
(`lib/mdns.h:233`), but the flags of a datagram are only looked at for the question
for all services (`lib/mdns.h:1094`). A unicast answer repeats the question, with
the unicast bit, so one that reaches another instance on port 5353 is answered in
turn.

`lost_flight`: `net_handle_send` reports success when the socket has no room,
"retransmission should occur" (`src/network.c:160`). tinydtls retransmits from
`dtls_check_retransmit`, which the application has to call, and neither main's
loop, which waits without a timeout, nor the test client calls it. The flight is
gone, the client gives up after five seconds, the server waits on.

## The proofs

Every theorem holds for all values of the constants that satisfy the named
assumptions of the modules: sets of clients, credentials, packets and names,
capacities, limits, addresses, bounds. The assumptions give the constants their
types; the only others are that no key equals the name of an alert, that limits
which the code has as positive numbers are positive, that the default port is
a port, and that a client which owns the password types exactly that
(`SystemAssumption`). Three theorems have a hypothesis of their own:

* `FailsExcused` and `DeliversAll`: `MaxFaults > 0`. `MaxFaults` bounds the counter
  of faults; with no room to count one, `faults = 0` would not say that there was
  none.
* `ReadBack`: `Unambiguous(Names)`. It excludes what `mdns_dotted_host` finds in the
  code, a name that begins another. It also excludes names in which a label occurs
  twice: the comparison then runs into what an earlier message left behind the name
  that is being written, and the code may refer to a place inside it.
  The names of `mdns_names` satisfy it (an `ASSUME` of `MCMdnsNames`).
* `ReadsTheName`: `Plain(Query, QuerySize)`. The query of `mdns_socket_listen` is the
  constant `mdns_services_query`, which has no references and no zero but its last
  byte. `strncasecmp` would stop at a zero inside a label.

All invariants and action properties of the runs are theorems; what is left to TLC
alone is liveness.

`ServerProofs`: `TypeCorrect`. `TypeOK` is inductive by itself, conjunct by
conjunct (`LoopType` ... `MdnsType`) and action by action.

`ServerSafetyProofs`:

* `AlwaysFramed` rests on two lemmas about sequences: what one packet asks for is
  well framed (`ReceiveFramed`, built from the frame backwards with
  `FramedPrepend`), and well framed sequences concatenate (`FramedConcat`).
* `PairedOnly` needs `PairedInv`: a session says nothing of records already
  sent, so the invariant adds that these come from paired clients.
* `FlushedBeforeWait` needs `FlushInv`: the claim has to hold from the flush on,
  while main is about to call `epoll_wait`, to hold inside it. A compositor that is
  gone stays so.
* `OpenSocketOnly` needs `RouteInv` (a socket only holds datagrams of its family,
  and a connected peer's family has a socket) together with `ExitInv` (no
  sessions are left when the sockets are closed). `ExitIsClean` is from
  `ExitInv`. `AlwaysAnnounced` is an action property and uses `TypeOK` only.
* `Implements` maps `sent`, `applied` and `stream` to themselves: `HandleData`
  and `HandleClose` are `Apply`, `ClientSends` is `Send` (by `PairedInv`), every
  other step stutters.

`LifecycleProofs`: `TypeCorrect`; `EchoComesBack`, whose property is inductive;
`PasswordTaken`, whose `PasswordInv` adds that nothing is typed before the prompt
and that a refused password ends main, with the arithmetic of the buffer in the
lemma `Lines`; `ProxiesGo` from `ProxyInv`, which says which objects exist before
the globals are bound and at the label `err_free_registry`.

The same module has one invariant, `SocketInv`, for four theorems about sockets. That
nothing is closed twice cannot be shown alone: one has to know that `state.socks`
names exactly the sockets that are open (`UdpOpen`), that a descriptor is only made
for an address not yet tried (`Kept`), that the mDNS sockets are those of the
service (`MdnsOpen`), and that all is over on the way out (`Ended`). `Watched`
is added for `ReadyForLoop`.

`RemoteSystemProofs`: `ServerInside`, that the composition is a behaviour of
`Server`, and by it `SystemImplements` and `SystemExitsCleanly` from the theorems
about `Server`. `Agreement` is about both sides: `DownInv` says of every Finished
on its way that the server completed that very handshake, with a paired client;
since the number of handshakes only grows (`FinishedReceive` and the lemmas after
it), a client that accepts one, however late, is right to.

`FailsExcused` and `DeliversAll` are about the run in which nothing goes wrong, of
which everything is known. `CalmInv` says that as long as no fault was counted
(`Undisturbed`) client, server and datagrams are together at one of four stages:
`Before`, `Hello`, `KeyExchange`, `Connection`, each with the one datagram that can be
on its way. In `Connection` the records that are pending, in the server's socket or
before it, are the last ones written, in order, and all others are applied
(`InOrder`); `Numbered` counts them, which gives `DeliversAll` its number. Every
step stays within a stage, goes on to the next or counts a fault; in particular the
client's five seconds cannot pass without a fault while an answer is due
(`NoSilence`).

`ServiceSetupProofs`: `Inv` says which blocks and sockets are owned at each
position (`Owned`, `Untouched`, `Stage`) and what is left afterwards (`Undone`);
`LosesNothing`, `ReturnsComplete` and `NeverCut` follow.

`AdvertiseProofs`: `Sendable` describes every message there can be, one of five
answers (`Carries`) with all its records alive, or the goodbye with all of them
dead, and the lemmas from `RecordTypes` to `ReplyMessageIs` show that the functions of
the code produce no other. `WireInv` says that only such messages are on the wire,
from which `TypeCorrect`, `CountsRight`, `NothingTwice` and `OnlyReachable` follow, the
last with `ServiceInv`: the addresses are eligible ones of this host. For listeners,
`ReplyAdds` says that an answer adds all its records, and `KeysOf` that of the five
only the one for the service mentions it and brings host, port and an address along
(`KnowsAll`); expiry adds nothing. `GoodbyeTakes` says that the goodbye names all
that any message told; `GoodbyeInv` adds that nothing follows a goodbye on the wire
(`GoodbyeTakesAll`). `RepliesFit` and `EveryQuestionRead` are from `PhaseInv`: while a
datagram is parsed the buffer is what arrived, because answers are written elsewhere;
`Answered` says what that leaves of a question that was cut off, its name.

`MdnsNamesProofs`: `StaysInside`, and `NoChains`, that a written reference leads to
a label and never to another reference. The invariant has to say the same of the
table (`TableToLabels`), and the proof that `mdns_string_table_find` returns what
the table holds needs a least element, from the well-foundedness of the naturals
(`Least`). `ReadBack` turns the recursive reading of a name into a trace of the
places it visits (`TraceExists`, `TraceUnique`), of which one proves that it stays
as it is when the message grows (`ReadsGrows`). `RoundInv` then says that from every
label in the message the rest of one of the names is read, except in the name that
is being written (`LabelsReadable`), so that a place the table offers continues some
name; `Unambiguous` and `FindsRest` make that the right one.

`MdnsReadProofs` is about functions that are defined by recursion, `Follow`, `EndsAt`
and `NamesAt`. `SequenceExists` gives the sequence of a function's approximations,
so that its equation can be proved (`FollowRefers`, `EndsEquation`, `NamesEquation`)
and induction over a number becomes membership in a set (`AllNumbers`).

* `TypeCorrect`; `AlwaysInside` from `RecordsInv`: what was parsed lies before
  `offset`, which only moves forward.
* `AgreeOnEnds` from `EndsInv`: as long as the end is not known it is the end of the
  name at `cur`.
* `ReadsTheName` from one relation: `Leads(m, size, o, L, u, p)` says that the names at
  `o` are those at `p` with the labels `L` before them, read in `u` steps more.
  `FollowLeads` and `SubstringLeads` show that `mdns_get_next_substring` leads from one
  place to the next or that no name within the limits is there, `LeadsOn` composes.
  The invariants (`ExtractInv`, `EqualInv`) say that the loops have come from the start
  to where they are (`ReadSoFar`), with the labels extracted or found equal to those
  of the query (`Matched`). That a name within the limits is not missed is
  `ReadFails`; that one which is read visits no place twice, so that `AllNames` has
  it, is `ReadSoon`: of a message's places there are finitely many, and once no new
  place gets a name no place ever does (`ReadingsStop`).

Only model-checked: liveness, that is `QuitHeeded`, `DatagramsTaken`, `QueriesTaken`,
`RequestsShown`, `ClientExits` and `ReadsEnd`. Temporal reasoning about fairness and
`ENABLED` is out of the prover's reach. The three failing runs are
counterexamples and need no proof.

## Not modelled

* `mdns.h`: discovery and sending of queries, `mdns_query_recv`,
  `mdns_discovery_recv`, and the `mdns_record_parse_*` functions. Nothing in the
  repository calls them; `mdns_records_parse` is modelled because
  `mdns_socket_listen` does.
* The bytes of a record's data, the spelling of names, the wording of messages;
  `net_handle_event`, which on the server only prints.
* Allocation inside libwayland, libc and tinydtls. What tinydtls does is modelled
  from its callbacks, without its cookie exchange and its own timers.
* The build rules (`CMakeLists.txt`) and the description of the protocol the glue
  code is generated from: nothing there has a state.

## How it was built, and what could follow

The order was `VirtualPointer`, `RemotePointer`, `Server` and its proofs first,
since moving somebody's pointer is what the program is about; then `Lifecycle`, the
mDNS modules, and the composition with the test client, which needed `Server` to be
stable. What could follow: variants for the liveness properties, a bound that every step of
a fair process lowers, which is the part of such an argument the prover can check.
