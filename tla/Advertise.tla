----------------------------- MODULE Advertise -----------------------------
(***************************************************************************)
(* The mDNS service while it exists: what advertise.c announces, answers   *)
(* and takes back, as messages that lib/mdns.h builds, and what a listener *)
(* on each link holds of it.  How names are written is in MdnsNames; here  *)
(* a name stands for itself.                                               *)
(***************************************************************************)
EXTENDS Naturals, Sequences, FiniteSets

CONSTANTS
  IfAddr,        \* the addresses getifaddrs may list
  MaxIfs,        \* bound: how many it lists
  Questions,     \* the questions that are asked
  MaxQuestions,  \* bound: in one datagram
  MaxDatagrams,  \* bound: datagrams that arrive
  MaxExpired     \* bound: entries that expire at listeners

Link == {"v4", "v6"}

\* DNS_SD_SERVICE_INSTANCE, SERVICE_NAME, service_instance and
\* qualified_hostname; somebody else's, and one that cannot be read.
Name == {"services", "service", "instance", "host", "other", "broken"}
Type == {"PTR", "SRV", "A", "AAAA", "TXT"}

Question == [name: Name, rtype: Type \cup {"ANY"},
             class: {"IN", "ANY", "CH"}, unicast: BOOLEAN]

Flag == {"UP", "MULTICAST", "LOOPBACK", "POINTOPOINT"}

ASSUME AdvertiseAssumption ==
  /\ IfAddr \subseteq [addr: STRING \ {"none"}, family: Link \cup {"packet"},
                       flags: SUBSET Flag, scope: {"global", "local", "mapped"}]
  /\ Questions \subseteq Question
  /\ MaxIfs \in Nat /\ MaxQuestions \in Nat /\ MaxDatagrams \in Nat
  /\ MaxExpired \in Nat

VARIABLES
  phase,   \* "created", "idle" in main's loop, "listen" in mdns_socket_listen, "gone"
  addrs,   \* the address advertised for each family, or "none"
  socks,   \* the families whose mDNS socket is open
  queue,   \* the datagrams each socket holds
  buffer,  \* service->buffer: the datagram that is being parsed; what else is
           \* in it, of older ones and of announcements, Seen leaves open
  link,    \* the socket it came from
  pos,     \* the question that is next
  asked,   \* history: that datagram as it arrived
  wire,    \* the messages on their way to the listener of each link
  cache,   \* what that listener holds
  bye,     \* history: the links the goodbye was sent on
  told,    \* history: the links whose listener has heard it
  arrived, \* the number of datagrams so far
  expired  \* the number of entries that have expired so far

service == <<addrs, socks>>
parsing == <<buffer, link, pos, asked>>
heard == <<cache, told>>
counts == <<arrived, expired>>
vars == <<phase, service, queue, parsing, wire, bye, heard, counts>>

-----------------------------------------------------------------------------
(***************************************************************************)
(* The records, and the messages made of them.                             *)
(***************************************************************************)

\* What a record says: another of our names, an address of this host, nothing.
Data == {"service", "instance", "host", "empty"} \cup {i.addr : i \in IfAddr}

\* A class is the set of its bits; a record without one has none yet.
Record == [name: Name, type: Type, data: Data,
           rclass: SUBSET {"IN", "FLUSH"}, ttl: Nat]

InRecord(name, type, data, ttl) ==
  [name |-> name, type |-> type, data |-> data, rclass |-> {"IN"}, ttl |-> ttl]

record_ptr  == InRecord("service", "PTR", "instance", 4500)
record_srv  == InRecord("instance", "SRV", "host", 120)
record_a    == InRecord("host", "A", addrs["v4"], 120)
record_aaaa == InRecord("host", "AAAA", addrs["v6"], 120)
record_txt  == InRecord("instance", "TXT", "empty", 120)

\* The answer to a browser that asks which services there are at all.
record_enum == [name |-> "services", type |-> "PTR", data |-> "service",
                rclass |-> {}, ttl |-> 0]

Has(f) == addrs[f] # "none"

\* The additional records by the statement of build_additional that adds each,
\* of which none runs twice; what order they have in the array is left out.
Additional == [ptr |-> record_ptr, srv |-> record_srv, a |-> record_a,
               aaaa |-> record_aaaa, txt |-> record_txt]

\* Faulty: no fall-through from the case of PTR.
FallThroughBreaks(type) ==
  IF type = "PTR" THEN {"srv"}
  ELSE {e \in {"a"} : type # "A" /\ Has("v4")}
         \cup {e \in {"aaaa"} : type # "AAAA" /\ Has("v6")}
         \cup {"txt"}

\* Faulty: the AAAA record goes along with itself.
FallThroughRepeats(type) ==
  {e \in {"srv"} : type = "PTR"}
    \cup {e \in {"a"} : type # "A" /\ Has("v4")}
    \cup {e \in {"aaaa"} : Has("v6")}
    \cup {"txt"}

\* Faulty: the answer to a PTR question is added to its own additional records.
FallThroughAnswer(type) ==
  {e \in {"ptr", "srv"} : type = "PTR"}
    \cup {e \in {"a"} : type # "A" /\ Has("v4")}
    \cup {e \in {"aaaa"} : type # "AAAA" /\ Has("v6")}
    \cup {"txt"}

\* The cases fall through: PTR, SRV and AAAA, A, TXT.
FallThrough(type) ==
  {e \in {"srv"} : type = "PTR"}
    \cup {e \in {"a"} : type # "A" /\ Has("v4")}
    \cup {e \in {"aaaa"} : type # "AAAA" /\ Has("v6")}
    \cup {"txt"}

build_additional(type) == [e \in FallThrough(type) |-> Additional[e]]

\* Faulty: a lifetime of zero does not replace the record's own.
mdns_record_update_keeps_ttl(r, rclass, ttl) ==
  [r EXCEPT !.rclass = (IF @ = {} THEN rclass ELSE @)
                         \ (IF r.type = "PTR" THEN {"FLUSH"} ELSE {}),
            !.ttl = IF @ = 0 THEN ttl ELSE @]

mdns_record_update_rclass_ttl(r, rclass, ttl) ==
  [r EXCEPT !.rclass = (IF @ = {} THEN rclass ELSE @)
                         \ (IF r.type = "PTR" THEN {"FLUSH"} ELSE {}),
            !.ttl = IF @ = 0 \/ ttl = 0 THEN ttl ELSE @]

Txt(rs) == {e \in DOMAIN rs : rs[e].type = "TXT"}
Others(rs) == DOMAIN rs \ Txt(rs)

\* Faulty: the coalesced TXT record is not counted.
mdns_answer_get_record_count_no_txt(rs) == Cardinality(Others(rs))

\* TXT records count as one.
mdns_answer_get_record_count(rs) ==
  Cardinality(Others(rs)) + (IF Txt(rs) # {} THEN 1 ELSE 0)

\* mdns_answer_add_record passes over TXT records, which
\* mdns_answer_add_txt_record writes as one with the header of the first.
Coalesced(rs) == IF Txt(rs) = {} THEN {} ELSE {CHOOSE e \in Txt(rs) : TRUE}
Section(rs) == [e \in Others(rs) \cup Coalesced(rs) |-> rs[e]]

\* A response; no caller passes authority records, or a TXT record as answer.
Message(questions, answer, additional) ==
  [response   |-> TRUE,
   questions  |-> questions,
   answers    |-> 1,
   additional |-> mdns_answer_get_record_count(additional),
   records    |-> [e \in {"answer"} \cup DOMAIN Section(additional) |->
                     IF e = "answer" THEN answer ELSE Section(additional)[e]]]

mdns_answer_multicast_rclass_ttl(answer, additional, rclass, ttl) ==
  Message(<<>>, mdns_record_update_rclass_ttl(answer, rclass, ttl),
          [e \in DOMAIN additional |->
             mdns_record_update_rclass_ttl(additional[e], rclass, ttl)])

mdns_query_answer_multicast(answer, additional) ==
  mdns_answer_multicast_rclass_ttl(answer, additional, {"IN"}, 60)

mdns_announce_multicast(answer, additional) ==
  mdns_answer_multicast_rclass_ttl(answer, additional, {"IN", "FLUSH"}, 60)

mdns_goodbye_multicast(answer, additional) ==
  mdns_answer_multicast_rclass_ttl(answer, additional, {"IN"}, 0)

\* The question is repeated, and the answer is short-lived.
mdns_query_answer_unicast(q, answer, additional) ==
  Message(<<[q EXCEPT !.class = "IN", !.unicast = TRUE]>>,
          [answer EXCEPT !.rclass = {"IN"}, !.ttl = 10],
          [e \in DOMAIN additional |->
             [additional[e] EXCEPT !.rclass = {"IN"}, !.ttl = IF @ = 0 THEN 10 ELSE @]])

-----------------------------------------------------------------------------
(***************************************************************************)
(* The service.                                                            *)
(***************************************************************************)

\* Faulty: link-local addresses are taken, too.
EligibleLinkLocal(e, f) ==
  /\ e.family = f
  /\ {"UP", "MULTICAST"} \subseteq e.flags
  /\ e.flags \cap {"LOOPBACK", "POINTOPOINT"} = {}
  /\ f = "v6" => e.scope # "mapped"

Eligible(e, f) ==
  /\ e.family = f
  /\ {"UP", "MULTICAST"} \subseteq e.flags
  /\ e.flags \cap {"LOOPBACK", "POINTOPOINT"} = {}
  /\ f = "v6" => e.scope = "global"

\* The first address of each family that can be advertised.
get_interfaces(ifas) ==
  [f \in Link |->
     LET fit == {i \in DOMAIN ifas : Eligible(ifas[i], f)}
     IN  IF fit = {} THEN "none"
         ELSE ifas[CHOOSE i \in fit : \A j \in fit : i <= j].addr]

Nothing == [response |-> FALSE, questions |-> <<>>, cut |-> FALSE]

\* advertise_create_service has found an address and opened a socket; an
\* address is advertised even if the socket of its family could not be opened.
Init ==
  /\ phase = "created"
  /\ \E n \in 0 .. MaxIfs : \E ifas \in [1 .. n -> IfAddr] :
       addrs = get_interfaces(ifas)
  /\ socks \in (SUBSET {f \in Link : Has(f)}) \ {{}}
  /\ queue = [l \in Link |-> <<>>]
  /\ buffer = Nothing /\ asked = Nothing /\ link = "v4" /\ pos = 1
  /\ wire = [l \in Link |-> <<>>] /\ cache = [l \in Link |-> {}]
  /\ bye = {} /\ told = {} /\ arrived = 0 /\ expired = 0

\* advertise_announce: a message is sent on every link; where it does not fit
\* its buffer or sendto fails, nothing is sent and the caller goes on.
Multicast(m, sent) ==
  /\ sent \subseteq socks
  /\ wire' = [l \in Link |-> IF l \in sent THEN Append(wire[l], m) ELSE wire[l]]

advertise_announce_service ==
  /\ phase = "created"
  /\ \E sent \in SUBSET socks :
       Multicast(mdns_announce_multicast(record_ptr, build_additional("PTR")), sent)
  /\ phase' = "idle"
  /\ UNCHANGED <<service, queue, parsing, bye, heard, counts>>

\* At the end of main, also when advertise_setup_epoll failed before.
advertise_announce_goodbye ==
  /\ phase \in {"created", "idle"}
  /\ \E sent \in SUBSET socks :
       /\ Multicast(mdns_goodbye_multicast(record_ptr, build_additional("PTR")), sent)
       /\ bye' = sent
  /\ phase' = "gone"
  /\ UNCHANGED <<service, queue, parsing, heard, counts>>

\* advertise_respond_request: one datagram is received into service->buffer.
advertise_respond_request ==
  \E l \in socks :
    /\ phase = "idle" /\ queue[l] # <<>>
    /\ buffer' = Head(queue[l]) /\ asked' = Head(queue[l])
    /\ queue' = [queue EXCEPT ![l] = Tail(@)]
    /\ link' = l /\ pos' = 1
    /\ phase' = "listen"
    /\ UNCHANGED <<service, wire, bye, heard, counts>>

\* Faulty: the type is not compared.
FitsName(q, r) == q.name = r.name

\* This record answers the question.
Fits(q, r) == q.name = r.name /\ q.rtype \in {r.type, "ANY"}

\* The answer of service_callback with its additional records, or nothing; of
\* two addresses the answer is the first.
Reply(q) ==
  CASE Fits(q, record_enum) -> <<record_enum, <<>>>>
    [] Fits(q, record_ptr) -> <<record_ptr, build_additional("PTR")>>
    [] Fits(q, record_srv) -> <<record_srv, build_additional("SRV")>>
    [] Fits(q, record_a) /\ Has("v4") -> <<record_a, build_additional("A")>>
    [] Fits(q, record_aaaa) /\ Has("v6") /\ ~(Fits(q, record_a) /\ Has("v4")) ->
         <<record_aaaa, build_additional("AAAA")>>
    [] OTHER -> <<>>

ReplyMessage(q) ==
  IF q.unicast THEN mdns_query_answer_unicast(q, Reply(q)[1], Reply(q)[2])
               ELSE mdns_query_answer_multicast(Reply(q)[1], Reply(q)[2])

\* Faulty: the reply is built in service->buffer, over the questions that are
\* still to be read.
service_callback_aliases(q) ==
  IF Reply(q) = <<>> THEN UNCHANGED <<wire, buffer>>
  ELSE /\ buffer' = [response |-> TRUE, questions |-> ReplyMessage(q).questions,
                     cut |-> FALSE]
       /\ wire' = [wire EXCEPT ![link] = Append(@, ReplyMessage(q))]

\* The reply is built in a buffer of its own.
service_callback(q) ==
  /\ \/ /\ Reply(q) # <<>>
        /\ wire' = [wire EXCEPT ![link] = Append(@, ReplyMessage(q))]
     \/ UNCHANGED wire
  /\ UNCHANGED buffer

\* What mdns_socket_listen stops at: names it cannot skip, classes that are
\* neither IN nor ANY.
Stops(q) == q.name = "broken" \/ q.class = "CH"

\* The last question of a datagram that ends behind the name of that question.
CutOff(d, k) == d.cut /\ k = Len(d.questions)

\* A question as it is read.  Names are read up to the length of the datagram;
\* the type and class that follow are read wherever it ends, and are then what
\* something older left at their place in service->buffer.
Seen(k) ==
  IF CutOff(buffer, k)
  THEN [name: {buffer.questions[k].name}, rtype: Type \cup {"ANY"},
        class: {"IN", "ANY", "CH"}, unicast: BOOLEAN]
  ELSE {buffer.questions[k]}

\* The next question; that for all services is passed over in a response.
ReadQuestion ==
  /\ phase = "listen" /\ pos <= Len(buffer.questions)
  /\ \E q \in Seen(pos) :
       /\ ~Stops(q)
       /\ IF q.name = "services" /\ buffer.response
          THEN UNCHANGED <<wire, buffer>>
          ELSE service_callback(q)
  /\ pos' = pos + 1
  /\ UNCHANGED <<phase, service, queue, link, asked, bye, heard, counts>>

\* The questions are through; service_callback ignores the records after them.
\* Of what stays in service->buffer nothing is kept: Seen allows for all of it.
EndListen ==
  /\ phase = "listen"
  /\ pos <= Len(buffer.questions) => \E q \in Seen(pos) : Stops(q)
  /\ buffer' = Nothing /\ asked' = Nothing /\ pos' = 1
  /\ phase' = "idle"
  /\ UNCHANGED <<service, queue, link, wire, bye, heard, counts>>

-----------------------------------------------------------------------------
(***************************************************************************)
(* The links.  Messages of one sender arrive in order, or not at all.      *)
(***************************************************************************)

\* A datagram that ends in its header or in a name has a name that cannot be read.
DatagramArrives ==
  \E l \in socks, response \in BOOLEAN, cut \in BOOLEAN, n \in 1 .. MaxQuestions :
    \E questions \in [1 .. n -> Questions] :
      /\ phase # "gone" /\ arrived < MaxDatagrams
      /\ queue' = [queue EXCEPT ![l] =
           Append(@, [response |-> response, questions |-> questions, cut |-> cut])]
      /\ arrived' = arrived + 1
      /\ UNCHANGED <<phase, service, parsing, wire, bye, heard, expired>>

Key(r) == [name |-> r.name, type |-> r.type, data |-> r.data]

\* What a listener reads of a message, which it discards if the header announces
\* other than what follows.
Read(m) ==
  IF m.answers + m.additional = Cardinality(DOMAIN m.records)
  THEN {m.records[e] : e \in DOMAIN m.records} ELSE {}

Hear ==
  \E l \in Link :
    /\ wire[l] # <<>>
    /\ LET rs == Read(Head(wire[l]))
       IN  /\ cache' = [cache EXCEPT ![l] =
                 {k \in @ : \A r \in rs : r.ttl = 0 => k # Key(r)}
                   \cup {Key(r) : r \in {r \in rs : r.ttl > 0}}]
           /\ told' = IF l \in bye /\ Len(wire[l]) = 1 THEN told \cup {l}
                                                 ELSE told
    /\ wire' = [wire EXCEPT ![l] = Tail(@)]
    /\ UNCHANGED <<phase, service, queue, parsing, bye, counts>>

Lose ==
  \E l \in Link :
    /\ wire[l] # <<>>
    /\ wire' = [wire EXCEPT ![l] = Tail(@)]
    /\ UNCHANGED <<phase, service, queue, parsing, bye, heard, counts>>

\* Entries live 10 to 4500 seconds after they were last heard, each its own time:
\* any may go before any other.
Expire ==
  \E l \in Link : \E k \in cache[l] :
    /\ expired < MaxExpired /\ expired' = expired + 1
    /\ cache' = [cache EXCEPT ![l] = @ \ {k}]
    /\ UNCHANGED <<phase, service, queue, parsing, wire, bye, told, arrived>>

Done == phase = "gone" /\ UNCHANGED vars

Next == advertise_announce_service \/ advertise_announce_goodbye
          \/ advertise_respond_request \/ ReadQuestion \/ EndListen
          \/ DatagramArrives \/ Hear \/ Lose \/ Expire \/ Done

Spec == Init /\ [][Next]_vars

-----------------------------------------------------------------------------
Messages == UNION {{wire[l][i] : i \in DOMAIN wire[l]} : l \in Link}

\* The array of additional records has room for four.
TypeOK ==
  /\ phase \in {"created", "idle", "listen", "gone"}
  /\ socks \subseteq {f \in Link : Has(f)}
  /\ link \in Link /\ pos \in 1 .. Len(asked.questions) + 1
  /\ \A m \in Messages : /\ m.answers = 1 /\ m.additional \in 0 .. 4
                         /\ \A e \in DOMAIN m.records : m.records[e] \in Record
  /\ told \subseteq bye /\ bye \subseteq socks

\* The counts in a header, made from the arrays, agree with the records that
\* follow, of which the TXT ones are written by another function, elsewhere.
CountsMatch ==
  \A m \in Messages : m.answers + m.additional = Cardinality(DOMAIN m.records)

\* No record is in a message twice, once as the answer and once beside it.
NoneTwice ==
  \A m \in Messages : \A d, e \in DOMAIN m.records :
    d # e => Key(m.records[d]) # Key(m.records[e])

\* Only addresses of this host at which others can reach it are told, also
\* when one family has none or its socket could not be opened.
AddressesReach ==
  \A m \in Messages : \A e \in DOMAIN m.records :
    m.records[e].type \in {"A", "AAAA"} =>
      \E i \in IfAddr :
        /\ i.addr = m.records[e].data
        /\ {"UP", "MULTICAST"} \subseteq i.flags /\ "LOOPBACK" \notin i.flags
        /\ i.family = "v4" \/ i.scope = "global"

\* Who learns of the service, from the announcement or an answer, for the first
\* time or after it had expired, has with that the host, port and at least one
\* address, without asking again.  Later each expires in its own time.
Resolvable ==
  [][\A l \in Link : Key(record_ptr) \in cache'[l] \ cache[l] =>
       /\ {Key(record_srv), Key(record_txt)} \subseteq cache'[l]
       /\ {Key(record_a), Key(record_aaaa)} \cap cache'[l] # {}]_vars

\* Who heard the goodbye holds nothing more of the service, whatever it was
\* told before: the goodbye covers the records of every answer, and each with
\* lifetime zero.  Only that there are services of the kind stays.
GoodbyeClears ==
  \A l \in told : cache[l] \subseteq {Key(record_enum)}

\* A reply goes to the socket the question came from and answers the question
\* as it arrived, unicast if that asked for it.  Of a question that was cut off
\* only the name arrived, and only the name is certain to be answered.
AnswersAsked ==
  [][\A l \in Link : phase = "listen" /\ Len(wire'[l]) > Len(wire[l]) =>
       LET m == wire'[l][Len(wire'[l])]
           q == asked.questions[pos]
       IN  /\ l = link
           /\ m.records["answer"].name = q.name
           /\ ~CutOff(asked, pos) =>
                /\ q.rtype \in {m.records["answer"].type, "ANY"}
                /\ q.unicast <=> m.questions # <<>>]_vars

\* No question that arrived whole is skipped because the answer to an earlier one
\* of its datagram was written in the meantime.
QuestionsRead ==
  [][phase = "listen" /\ phase' = "idle" /\ pos <= Len(asked.questions) =>
       Stops(asked.questions[pos]) \/ CutOff(asked, pos)]_vars

\* What mdns.h says of mdns_socket_listen: it listens for "query requests".
\* A response is not answered, though it may repeat the question.
ResponsesUnanswered ==
  [][phase = "listen" /\ asked.response =>
       \A l \in Link : Len(wire'[l]) <= Len(wire[l])]_vars

=============================================================================
