-------------------------- MODULE AdvertiseProofs --------------------------
(***************************************************************************)
(* What listeners may rely on, for any interfaces, questions and losses:   *)
(* every message is one of five answers with the records that belong to    *)
(* it, and from that follows what a listener can hold of the service, and  *)
(* that the goodbye takes all of it back.                                  *)
(***************************************************************************)
EXTENDS Advertise, FiniteSetTheorems, SequenceTheorems, NaturalsInduction,
        WellFoundedInduction, TLAPS

Datagram == [response: BOOLEAN, questions: Seq(Question), cut: BOOLEAN]

\* The answers there are, and what goes along with each.
Answer == [enum |-> record_enum, ptr |-> record_ptr, srv |-> record_srv,
           a |-> record_a, aaaa |-> record_aaaa]

Slot == {"answer", "ptr", "srv", "a", "aaaa", "txt"}

With(a) == IF a = "enum" THEN {} ELSE FallThrough(Answer[a].type)

Given(a) == /\ a = "a" => Has("v4")
            /\ a = "aaaa" => Has("v6")

Content(a) == [e \in {"answer"} \cup With(a) |->
                 IF e = "answer" THEN Answer[a] ELSE Additional[e]]

Shaped == [response: {TRUE}, questions: Seq(Question), answers: {1}, additional: 0 .. 4,
           records: UNION {[D -> Record] : D \in SUBSET Slot}]

\* Message m carries the records of answer a, with other classes and lifetimes.
Carries(m, a) ==
  /\ DOMAIN m.records = {"answer"} \cup With(a)
  /\ m.answers + m.additional = Cardinality(DOMAIN m.records)
  /\ \A e \in DOMAIN m.records : Key(m.records[e]) = Key(Content(a)[e])

Living(m) == \A e \in DOMAIN m.records : m.records[e].ttl > 0
Dead(m) == \A e \in DOMAIN m.records : m.records[e].ttl = 0

Reply_ == {m \in Shaped : Living(m) /\ \E a \in DOMAIN Answer : Given(a) /\ Carries(m, a)}
Goodbye == {m \in Shaped : Dead(m) /\ Carries(m, "ptr")}

Sendable == Reply_ \cup Goodbye

\* The addresses advertised are eligible ones of this host.
ServiceInv ==
  /\ addrs \in [Link -> {i.addr : i \in IfAddr} \cup {"none"}]
  /\ socks \in SUBSET {f \in Link : Has(f)} /\ socks # {}
  /\ \A f \in Link : Has(f) => \E i \in IfAddr : Eligible(i, f) /\ i.addr = addrs[f]

PhaseInv ==
  /\ phase \in {"created", "idle", "listen", "gone"}
  /\ queue \in [Link -> Seq(Datagram)]
  /\ asked \in Datagram /\ link \in Link /\ pos \in 1 .. Len(asked.questions) + 1
  /\ told \subseteq bye /\ bye \subseteq socks
  /\ bye # {} => phase = "gone"
  /\ phase = "listen" => buffer = asked /\ link \in socks

WireInv == wire \in [Link -> Seq(Sendable)]

-----------------------------------------------------------------------------
(***************************************************************************)
(* The messages.                                                           *)
(***************************************************************************)
LEMMA InRecordTyped ==
  ASSUME NEW n \in Name, NEW t \in Type, NEW d \in Data, NEW ttl \in Nat
  PROVE  InRecord(n, t, d, ttl) \in Record
BY DEF InRecord, Record

\* The six records the service has, with the addresses it found.
LEMMA RecordsTyped ==
  ASSUME ServiceInv
  PROVE  /\ record_ptr \in Record /\ record_srv \in Record
         /\ record_txt \in Record /\ record_enum \in Record
         /\ Has("v4") => record_a \in Record
         /\ Has("v6") => record_aaaa \in Record
<1>1. \A f \in Link : Has(f) => addrs[f] \in Data
  BY DEF ServiceInv, Has, Data
<1>2. Has("v4") => record_a \in Record
  BY <1>1, InRecordTyped DEF record_a, Name, Type, Link
<1>3. Has("v6") => record_aaaa \in Record
  BY <1>1, InRecordTyped DEF record_aaaa, Name, Type, Link
<1>4. record_ptr \in Record /\ record_srv \in Record /\ record_txt \in Record
  <2>1. /\ "service" \in Name /\ "instance" \in Name /\ "PTR" \in Type
        /\ "SRV" \in Type /\ "TXT" \in Type /\ "instance" \in Data /\ "host" \in Data
        /\ "empty" \in Data /\ 4500 \in Nat
    BY DEF Name, Type, Data
  <2>2. record_ptr \in Record
    <3>1. InRecord("service", "PTR", "instance", 4500) \in Record
      BY <2>1, InRecordTyped
    <3> QED
      BY <3>1 DEF record_ptr
  <2>3. record_srv \in Record
    <3>1. InRecord("instance", "SRV", "host", 120) \in Record
      BY <2>1, InRecordTyped
    <3> QED
      BY <3>1 DEF record_srv
  <2>4. record_txt \in Record
    <3>1. InRecord("instance", "TXT", "empty", 120) \in Record
      BY <2>1, InRecordTyped
    <3> QED
      BY <3>1 DEF record_txt
  <2> QED
    BY <2>2, <2>3, <2>4
<1>5. record_enum \in Record
  BY DEF record_enum, Record, Name, Type, Data
<1> QED
  BY <1>2, <1>3, <1>4, <1>5

LEMMA RecordTypes ==
  /\ record_ptr.type = "PTR" /\ record_srv.type = "SRV" /\ record_a.type = "A"
  /\ record_aaaa.type = "AAAA" /\ record_txt.type = "TXT" /\ record_enum.type = "PTR"
BY DEF record_ptr, record_srv, record_a, record_aaaa, record_txt, record_enum, InRecord

\* What may go along with an answer, which is always a record this host has.
LEMMA AnswerRecords ==
  ASSUME ServiceInv, NEW a \in DOMAIN Answer
  PROVE  /\ DOMAIN Answer = {"enum", "ptr", "srv", "a", "aaaa"}
         /\ With(a) \subseteq {"srv", "a", "aaaa", "txt"}
         /\ With(a) \subseteq DOMAIN Additional
         /\ Given(a) => Answer[a] \in Record
         /\ \A e \in With(a) : Additional[e] \in Record
         /\ \A e \in With(a) : Additional[e].type = "TXT" <=> e = "txt"
         /\ Answer[a].type # "TXT"
<1>1. DOMAIN Answer = {"enum", "ptr", "srv", "a", "aaaa"}
  BY DEF Answer
<1>2. DOMAIN Additional = {"ptr", "srv", "a", "aaaa", "txt"}
  BY DEF Additional
<1>3. With(a) \subseteq {"srv", "a", "aaaa", "txt"}
  BY DEF With, FallThrough
<1>4. Given(a) => Answer[a] \in Record
  BY <1>1, RecordsTyped DEF Given, Answer
<1>5. \A e \in With(a) : Additional[e] \in Record
  <2>1. ("a" \in With(a) => Has("v4")) /\ ("aaaa" \in With(a) => Has("v6"))
    BY DEF With, FallThrough
  <2> QED
    BY <1>2, <1>3, <2>1, RecordsTyped DEF Additional
<1>6. \A e \in With(a) : Additional[e].type = "TXT" <=> e = "txt"
  BY <1>2, <1>3, RecordTypes DEF Additional
<1>7. Answer[a].type # "TXT"
  BY <1>1, RecordTypes DEF Answer
<1> QED
  BY <1>1, <1>2, <1>3, <1>4, <1>5, <1>6, <1>7

\* A set of slots has at most four elements without the answer and without
\* the record that only ever is one.
LEMMA FourSlots ==
  ASSUME NEW D \in SUBSET {"srv", "a", "aaaa", "txt"}
  PROVE  IsFiniteSet(D) /\ Cardinality(D) \in 0 .. 4
<1> DEFINE S == {"srv", "a", "aaaa", "txt"}
<1>1. IsFiniteSet({"srv"}) /\ Cardinality({"srv"}) = 1
  BY FS_Singleton
<1>2. IsFiniteSet({"srv"} \cup {"a"}) /\ Cardinality({"srv"} \cup {"a"}) = 2
  BY <1>1, FS_AddElement
<1>3. IsFiniteSet({"srv", "a"} \cup {"aaaa"}) /\ Cardinality({"srv", "a"} \cup {"aaaa"}) = 3
  <2>1. {"srv", "a"} = {"srv"} \cup {"a"}
    OBVIOUS
  <2> QED
    BY <1>2, <2>1, FS_AddElement
<1>4. IsFiniteSet(S) /\ Cardinality(S) = 4
  <2>1. S = {"srv", "a", "aaaa"} \cup {"txt"} /\ {"srv", "a", "aaaa"} = {"srv", "a"} \cup {"aaaa"}
    OBVIOUS
  <2> QED
    BY <1>3, <2>1, FS_AddElement
<1>5. IsFiniteSet(D) /\ Cardinality(D) <= 4
  BY <1>4, FS_Subset
<1> QED
  BY <1>5, FS_CardinalityType

\* The records of a message: the answer, and those that go along with it.
Joined(answer, rs) == [e \in {"answer"} \cup DOMAIN rs |->
                         IF e = "answer" THEN answer ELSE rs[e]]

\* The header counts what follows it, for any array with at most one TXT
\* record.
LEMMA MessageCounts ==
  ASSUME NEW qs, NEW answer, NEW rs,
         DOMAIN rs \subseteq {"srv", "a", "aaaa", "txt"},
         \A e \in DOMAIN rs : rs[e].type = "TXT" <=> e = "txt",
         NEW m, m = Message(qs, answer, rs)
  PROVE  /\ m.records = Joined(answer, rs)
         /\ m.additional \in 0 .. 4
         /\ m.answers + m.additional = Cardinality(DOMAIN m.records)
<1> DEFINE D == DOMAIN rs
<1>1. Txt(rs) = D \cap {"txt"} /\ Others(rs) = D \ {"txt"}
  BY DEF Txt, Others
<1>2. Others(rs) \cup Coalesced(rs) = D
  <2>1. CASE "txt" \in D
    BY <1>1, <2>1 DEF Coalesced
  <2>2. CASE "txt" \notin D
    BY <1>1, <2>2 DEF Coalesced
  <2> QED
    BY <2>1, <2>2
<1>3. DOMAIN Section(rs) = D /\ \A e \in D : Section(rs)[e] = rs[e]
  BY <1>2 DEF Section
<1>4. m.records = Joined(answer, rs)
  BY <1>3 DEF Message, Joined
<1>5. IsFiniteSet(D) /\ Cardinality(D) \in 0 .. 4
  BY FourSlots
<1>6. mdns_answer_get_record_count(rs) = Cardinality(D)
  <2>1. Cardinality(D \ {"txt"}) = IF "txt" \in D THEN Cardinality(D) - 1 ELSE Cardinality(D)
    BY <1>5, FS_RemoveElement
  <2>2. CASE "txt" \in D
    BY <1>1, <1>5, <2>1, <2>2 DEF mdns_answer_get_record_count
  <2>3. CASE "txt" \notin D
    BY <1>1, <1>5, <2>1, <2>3 DEF mdns_answer_get_record_count
  <2> QED
    BY <2>2, <2>3
<1>7. m.answers = 1 /\ m.additional = Cardinality(D)
  BY <1>6 DEF Message
<1>8. Cardinality(D \cup {"answer"}) = Cardinality(D) + 1
  BY <1>5, FS_AddElement
<1>9. DOMAIN m.records = D \cup {"answer"}
  BY <1>4 DEF Joined
<1> QED
  BY <1>4, <1>5, <1>7, <1>8, <1>9

\* The records of answer a and what goes along with it, whatever classes and
\* lifetimes they were given.
Versions(a, answer, rs) ==
  /\ answer \in Record /\ Key(answer) = Key(Answer[a])
  /\ DOMAIN rs = With(a)
  /\ \A e \in With(a) : rs[e] \in Record /\ Key(rs[e]) = Key(Additional[e])

LEMMA MessageCarries ==
  ASSUME ServiceInv, NEW a \in DOMAIN Answer, Given(a),
         NEW qs \in Seq(Question), NEW answer, NEW rs, Versions(a, answer, rs),
         NEW m, m = Message(qs, answer, rs)
  PROVE  /\ m \in Shaped /\ Carries(m, a)
         /\ m.questions = qs
         /\ m.records = Joined(answer, rs)
<1> USE DEF Versions
<1>1. /\ With(a) \subseteq {"srv", "a", "aaaa", "txt"}
      /\ \A e \in With(a) : Additional[e].type = "TXT" <=> e = "txt"
  BY AnswerRecords
<1>2. \A e \in With(a) : rs[e].type = Additional[e].type
  BY DEF Key
<1>3. /\ m.records = Joined(answer, rs)
      /\ m.additional \in 0 .. 4
      /\ m.answers + m.additional = Cardinality(DOMAIN m.records)
  <2>1. DOMAIN rs \subseteq {"srv", "a", "aaaa", "txt"}
    BY <1>1
  <2>2. \A e \in DOMAIN rs : rs[e].type = "TXT" <=> e = "txt"
    BY <1>1, <1>2
  <2> QED
    BY <2>1, <2>2, MessageCounts
<1>4. "answer" \notin With(a)
  BY <1>1
<1>5. /\ m.questions = qs /\ m.answers = 1 /\ m.response = TRUE
      /\ m = [response |-> m.response, questions |-> m.questions, answers |-> m.answers,
              additional |-> m.additional, records |-> m.records]
  BY DEF Message
<1>6. m.records \in [{"answer"} \cup With(a) -> Record]
  BY <1>3, <1>4 DEF Joined
<1>7. {"answer"} \cup With(a) \in SUBSET Slot
  BY <1>1 DEF Slot
<1>8. m \in Shaped
  BY <1>3, <1>5, <1>6, <1>7 DEF Shaped
<1>9. /\ DOMAIN m.records = {"answer"} \cup With(a)
      /\ m.records["answer"] = answer
      /\ \A e \in With(a) : m.records[e] = rs[e]
  BY <1>3, <1>4 DEF Joined
<1>10. \A e \in DOMAIN m.records : Key(m.records[e]) = Key(Content(a)[e])
  BY <1>4, <1>9 DEF Content
<1>11. Carries(m, a)
  BY <1>3, <1>9, <1>10 DEF Carries
<1> QED
  BY <1>3, <1>5, <1>8, <1>11

\* A record with another class and lifetime, which change nothing of what it is
\* about.
Stamped(r, c, t) == [r EXCEPT !.rclass = c, !.ttl = t]

LEMMA StampedKeeps ==
  ASSUME NEW r \in Record, NEW c \in SUBSET {"IN", "FLUSH"}, NEW t \in Nat
  PROVE  /\ Stamped(r, c, t) \in Record /\ Key(Stamped(r, c, t)) = Key(r)
         /\ Stamped(r, c, t).ttl = t
<1>1. Stamped(r, c, t) \in Record
  BY DEF Stamped, Record
<1>2. Key(Stamped(r, c, t)) = Key(r)
  BY DEF Stamped, Record, Key
<1>3. Stamped(r, c, t).ttl = t
  BY DEF Stamped, Record
<1> QED
  BY <1>1, <1>2, <1>3

\* A lifetime of zero is the only one that takes a record back.
LEMMA UpdateKeeps ==
  ASSUME NEW r \in Record, NEW rclass \in SUBSET {"IN", "FLUSH"}, NEW ttl \in Nat
  PROVE  LET u == mdns_record_update_rclass_ttl(r, rclass, ttl)
         IN  /\ u \in Record /\ Key(u) = Key(r)
             /\ ttl = 0 => u.ttl = 0
             /\ ttl > 0 => u.ttl > 0
<1> DEFINE c == (IF r.rclass = {} THEN rclass ELSE r.rclass)
                  \ (IF r.type = "PTR" THEN {"FLUSH"} ELSE {})
           t == IF r.ttl = 0 \/ ttl = 0 THEN ttl ELSE r.ttl
           u == mdns_record_update_rclass_ttl(r, rclass, ttl)
<1>1. u = Stamped(r, c, t)
  BY DEF mdns_record_update_rclass_ttl, Stamped
<1>2. r.rclass \in SUBSET {"IN", "FLUSH"} /\ r.ttl \in Nat
  BY DEF Record
<1>3. /\ c \in SUBSET {"IN", "FLUSH"} /\ t \in Nat
      /\ ttl = 0 => t = 0
      /\ ttl > 0 => t > 0
  BY <1>2
<1> HIDE DEF c, t, u
<1>4. u \in Record /\ Key(u) = Key(r) /\ u.ttl = t
  BY <1>1, <1>3, StampedKeeps
<1> QED
  BY <1>3, <1>4 DEF u

LEMMA MulticastCarries ==
  ASSUME ServiceInv, NEW a \in DOMAIN Answer, Given(a),
         NEW rclass \in SUBSET {"IN", "FLUSH"}, NEW ttl \in Nat
  PROVE  LET m == mdns_answer_multicast_rclass_ttl(
                    Answer[a], [e \in With(a) |-> Additional[e]], rclass, ttl)
         IN  /\ m \in Shaped /\ Carries(m, a) /\ m.questions = <<>>
             /\ Key(m.records["answer"]) = Key(Answer[a])
             /\ ttl = 0 => Dead(m)
             /\ ttl > 0 => Living(m)
<1> DEFINE up(r) == mdns_record_update_rclass_ttl(r, rclass, ttl)
           more == [e \in With(a) |-> Additional[e]]
           rs == [e \in DOMAIN more |-> up(more[e])]
           qs == <<>>
           m == Message(qs, up(Answer[a]), rs)
<1>1. Answer[a] \in Record /\ \A e \in With(a) : Additional[e] \in Record
  BY AnswerRecords
<1>2. /\ up(Answer[a]) \in Record /\ Key(up(Answer[a])) = Key(Answer[a])
      /\ ttl = 0 => up(Answer[a]).ttl = 0
      /\ ttl > 0 => up(Answer[a]).ttl > 0
  BY <1>1, UpdateKeeps
<1>3. /\ DOMAIN rs = With(a)
      /\ \A e \in With(a) : rs[e] = up(Additional[e])
  OBVIOUS
<1> HIDE DEF rs, up
<1>4. \A e \in With(a) : /\ rs[e] \in Record /\ Key(rs[e]) = Key(Additional[e])
                         /\ ttl = 0 => rs[e].ttl = 0
                         /\ ttl > 0 => rs[e].ttl > 0
  BY <1>1, <1>3, UpdateKeeps DEF up
<1>5. qs \in Seq(Question)
  OBVIOUS
<1> HIDE DEF qs
<1>6. /\ m \in Shaped /\ Carries(m, a) /\ m.questions = qs
      /\ DOMAIN m.records = {"answer"} \cup With(a)
      /\ m.records["answer"] = up(Answer[a])
      /\ \A e \in With(a) : m.records[e] = rs[e]
  <2>1. m \in Shaped /\ Carries(m, a) /\ m.questions = qs /\ m.records = Joined(up(Answer[a]), rs)
    <3>1. m = Message(qs, up(Answer[a]), rs)
      OBVIOUS
    <3>2. Versions(a, up(Answer[a]), rs)
      BY <1>2, <1>3, <1>4 DEF Versions
    <3> HIDE DEF m
    <3> QED
      BY <1>5, <3>1, <3>2, MessageCarries
  <2>2. "answer" \notin With(a)
    BY AnswerRecords
  <2> HIDE DEF m
  <2> QED
    BY <1>3, <2>1, <2>2 DEF Joined
<1>7. mdns_answer_multicast_rclass_ttl(Answer[a], more, rclass, ttl) = m
  BY DEF mdns_answer_multicast_rclass_ttl, rs, up, qs
<1> HIDE DEF m, more
<1>8. (ttl = 0 => Dead(m)) /\ (ttl > 0 => Living(m))
  BY <1>2, <1>4, <1>6 DEF Dead, Living
<1> QED
  BY <1>2, <1>6, <1>7, <1>8 DEF more, qs

LEMMA UnicastCarries ==
  ASSUME ServiceInv, NEW a \in DOMAIN Answer, Given(a), NEW q \in Question
  PROVE  LET m == mdns_query_answer_unicast(q, Answer[a], [e \in With(a) |-> Additional[e]])
         IN  /\ m \in Shaped /\ Carries(m, a) /\ m.questions # <<>>
             /\ Key(m.records["answer"]) = Key(Answer[a])
             /\ Living(m)
<1> DEFINE again == [q EXCEPT !.class = "IN", !.unicast = TRUE]
           answer == [Answer[a] EXCEPT !.rclass = {"IN"}, !.ttl = 10]
           one(r) == [r EXCEPT !.rclass = {"IN"}, !.ttl = IF @ = 0 THEN 10 ELSE @]
           more == [e \in With(a) |-> Additional[e]]
           rs == [e \in DOMAIN more |-> one(more[e])]
           qs == <<again>>
           m == Message(qs, answer, rs)
<1>1. Answer[a] \in Record /\ \A e \in With(a) : Additional[e] \in Record
  BY AnswerRecords
<1>2. answer \in Record /\ Key(answer) = Key(Answer[a]) /\ answer.ttl > 0
  <2>1. answer = Stamped(Answer[a], {"IN"}, 10)
    BY DEF Stamped
  <2>2. {"IN"} \in SUBSET {"IN", "FLUSH"} /\ 10 \in Nat
    OBVIOUS
  <2> HIDE DEF answer
  <2> QED
    BY <1>1, <2>1, <2>2, StampedKeeps
<1>3. ASSUME NEW r \in Record
      PROVE  one(r) \in Record /\ Key(one(r)) = Key(r) /\ one(r).ttl > 0
  <2> DEFINE t == IF r.ttl = 0 THEN 10 ELSE r.ttl
  <2>1. one(r) = Stamped(r, {"IN"}, t)
    BY DEF Stamped
  <2>2. t \in Nat /\ t > 0 /\ {"IN"} \in SUBSET {"IN", "FLUSH"}
    BY DEF Record
  <2> HIDE DEF t, one
  <2> QED
    BY <2>1, <2>2, StampedKeeps
<1>4. qs \in Seq(Question) /\ qs # <<>>
  <2>1. again \in Question
    BY DEF Question
  <2> QED
    BY <2>1
<1>5. /\ DOMAIN rs = With(a)
      /\ \A e \in With(a) : rs[e] = one(Additional[e])
  OBVIOUS
<1> HIDE DEF rs, answer, again, one, qs
<1>6. \A e \in With(a) : rs[e] \in Record /\ Key(rs[e]) = Key(Additional[e]) /\ rs[e].ttl > 0
  BY <1>1, <1>3, <1>5
<1>7. /\ m \in Shaped /\ Carries(m, a) /\ m.questions = qs
      /\ DOMAIN m.records = {"answer"} \cup With(a)
      /\ m.records["answer"] = answer
      /\ \A e \in With(a) : m.records[e] = rs[e]
  <2>1. m \in Shaped /\ Carries(m, a) /\ m.questions = qs /\ m.records = Joined(answer, rs)
    <3>1. m = Message(qs, answer, rs)
      OBVIOUS
    <3>2. Versions(a, answer, rs)
      BY <1>2, <1>5, <1>6 DEF Versions
    <3> HIDE DEF m
    <3> QED
      BY <1>4, <3>1, <3>2, MessageCarries
  <2>2. "answer" \notin With(a)
    BY AnswerRecords
  <2> HIDE DEF m
  <2> QED
    BY <1>5, <2>1, <2>2 DEF Joined
<1>8. mdns_query_answer_unicast(q, Answer[a], more) = m
  BY DEF mdns_query_answer_unicast, rs, answer, again, one, qs
<1> HIDE DEF m, more
<1>9. Living(m)
  BY <1>2, <1>6, <1>7 DEF Living
<1> QED
  BY <1>2, <1>4, <1>7, <1>8, <1>9 DEF more

\* Every call that builds a message passes an answer and what goes along with it.
LEMMA BuildIs == \A a \in DOMAIN Answer \ {"enum"} :
                   build_additional(Answer[a].type) = [e \in With(a) |-> Additional[e]]
BY DEF build_additional, With

LEMMA Announcement ==
  ASSUME ServiceInv
  PROVE  /\ mdns_announce_multicast(record_ptr, build_additional("PTR")) \in Reply_
         /\ mdns_goodbye_multicast(record_ptr, build_additional("PTR")) \in Goodbye
<1> DEFINE more == [e \in With("ptr") |-> Additional[e]]
<1>1. "ptr" \in DOMAIN Answer /\ Answer["ptr"] = record_ptr /\ Given("ptr")
  BY DEF Answer, Given
<1>2. build_additional("PTR") = more
  BY <1>1, BuildIs, RecordTypes
<1> HIDE DEF more
<1>3. mdns_announce_multicast(record_ptr, more) \in Reply_
  <2> DEFINE m == mdns_answer_multicast_rclass_ttl(Answer["ptr"], more, {"IN", "FLUSH"}, 60)
  <2>1. m \in Shaped /\ Carries(m, "ptr") /\ Living(m)
    BY <1>1, MulticastCarries DEF more
  <2>2. mdns_announce_multicast(record_ptr, more) = m
    BY <1>1 DEF mdns_announce_multicast
  <2> HIDE DEF m
  <2> QED
    BY <1>1, <2>1, <2>2 DEF Reply_
<1>4. mdns_goodbye_multicast(record_ptr, more) \in Goodbye
  <2> DEFINE m == mdns_answer_multicast_rclass_ttl(Answer["ptr"], more, {"IN"}, 0)
  <2>1. m \in Shaped /\ Carries(m, "ptr") /\ Dead(m)
    BY <1>1, MulticastCarries DEF more
  <2>2. mdns_goodbye_multicast(record_ptr, more) = m
    BY <1>1 DEF mdns_goodbye_multicast
  <2> HIDE DEF m
  <2> QED
    BY <1>1, <2>1, <2>2 DEF Goodbye
<1> QED
  BY <1>2, <1>3, <1>4

LEMMA ReplyIs ==
  ASSUME ServiceInv, NEW q \in Question, Reply(q) # <<>>
  PROVE  \E a \in DOMAIN Answer :
           /\ Given(a) /\ Fits(q, Answer[a])
           /\ Reply(q)[1] = Answer[a]
           /\ Reply(q)[2] = [e \in With(a) |-> Additional[e]]
<1> DEFINE Is(a) == /\ a \in DOMAIN Answer /\ Given(a) /\ Fits(q, Answer[a])
                    /\ Reply(q)[1] = Answer[a]
                    /\ Reply(q)[2] = [e \in With(a) |-> Additional[e]]
<1>1. /\ DOMAIN Answer = {"enum", "ptr", "srv", "a", "aaaa"}
      /\ Answer["enum"] = record_enum /\ Answer["ptr"] = record_ptr
      /\ Answer["srv"] = record_srv /\ Answer["a"] = record_a
      /\ Answer["aaaa"] = record_aaaa
  BY DEF Answer
<1>2. /\ build_additional("PTR") = [e \in With("ptr") |-> Additional[e]]
      /\ build_additional("SRV") = [e \in With("srv") |-> Additional[e]]
      /\ build_additional("A") = [e \in With("a") |-> Additional[e]]
      /\ build_additional("AAAA") = [e \in With("aaaa") |-> Additional[e]]
  BY <1>1, BuildIs, RecordTypes
<1>0. /\ record_enum.name = "services" /\ record_ptr.name = "service"
      /\ record_srv.name = "instance" /\ record_a.name = "host"
      /\ record_aaaa.name = "host"
  BY DEF record_enum, record_ptr, record_srv, record_a, record_aaaa, InRecord
<1>3. CASE Fits(q, record_enum)
  <2>1. Reply(q) = <<record_enum, <<>>>>
    BY <1>0, <1>3 DEF Reply, Fits
  <2>2. [e \in With("enum") |-> Additional[e]] = <<>>
    BY DEF With
  <2>3. Is("enum")
    BY <1>1, <1>3, <2>1, <2>2 DEF Given
  <2> QED
    BY <2>3
<1>4. CASE ~Fits(q, record_enum) /\ Fits(q, record_ptr)
  <2>1. Reply(q) = <<record_ptr, build_additional("PTR")>>
    BY <1>0, <1>4 DEF Reply, Fits
  <2>2. Is("ptr")
    BY <1>1, <1>2, <1>4, <2>1 DEF Given
  <2> QED
    BY <2>2
<1> DEFINE Neither == ~Fits(q, record_enum) /\ ~Fits(q, record_ptr)
<1>5. CASE Neither /\ Fits(q, record_srv)
  <2>1. Reply(q) = <<record_srv, build_additional("SRV")>>
    BY <1>0, <1>5 DEF Reply, Fits
  <2>2. Is("srv")
    BY <1>1, <1>2, <1>5, <2>1 DEF Given
  <2> QED
    BY <2>2
<1>6. CASE Neither /\ ~Fits(q, record_srv) /\ Fits(q, record_a) /\ Has("v4")
  <2>1. Reply(q) = <<record_a, build_additional("A")>>
    BY <1>6 DEF Reply
  <2>2. Is("a")
    BY <1>1, <1>2, <1>6, <2>1 DEF Given
  <2> QED
    BY <2>2
<1>7. CASE /\ Neither /\ ~Fits(q, record_srv) /\ ~(Fits(q, record_a) /\ Has("v4"))
           /\ Fits(q, record_aaaa) /\ Has("v6")
  <2>1. Reply(q) = <<record_aaaa, build_additional("AAAA")>>
    BY <1>7 DEF Reply
  <2>2. Is("aaaa")
    BY <1>1, <1>2, <1>7, <2>1 DEF Given
  <2> QED
    BY <2>2
<1> QED
  BY <1>3, <1>4, <1>5, <1>6, <1>7 DEF Reply

\* The answer to a question is a reply that answers it, unicast if it asked for
\* that.
LEMMA ReplyMessageIs ==
  ASSUME ServiceInv, NEW q \in Question, Reply(q) # <<>>
  PROVE  /\ ReplyMessage(q) \in Reply_
         /\ ReplyMessage(q).records["answer"].name = q.name
         /\ q.rtype \in {ReplyMessage(q).records["answer"].type, "ANY"}
         /\ q.unicast <=> ReplyMessage(q).questions # <<>>
<1> DEFINE m == ReplyMessage(q)
<1>1. PICK a \in DOMAIN Answer :
        /\ Given(a) /\ Fits(q, Answer[a])
        /\ Reply(q)[1] = Answer[a]
        /\ Reply(q)[2] = [e \in With(a) |-> Additional[e]]
  BY ReplyIs
<1> DEFINE more == [e \in With(a) |-> Additional[e]]
<1>2. /\ m \in Shaped /\ Carries(m, a) /\ Living(m)
      /\ Key(m.records["answer"]) = Key(Answer[a])
      /\ q.unicast <=> m.questions # <<>>
  <2>1. CASE q.unicast
    <3>1. m = mdns_query_answer_unicast(q, Answer[a], more)
      BY <1>1, <2>1 DEF ReplyMessage
    <3> HIDE DEF m
    <3> QED
      BY <1>1, <2>1, <3>1, UnicastCarries
  <2>2. CASE ~q.unicast
    <3>1. m = mdns_answer_multicast_rclass_ttl(Answer[a], more, {"IN"}, 60)
      BY <1>1, <2>2 DEF ReplyMessage, mdns_query_answer_multicast
    <3>2. {"IN"} \in SUBSET {"IN", "FLUSH"} /\ 60 \in Nat /\ 60 > 0
      OBVIOUS
    <3> HIDE DEF m
    <3> QED
      BY <1>1, <2>2, <3>1, <3>2, MulticastCarries
  <2> QED
    BY <2>1, <2>2
<1> HIDE DEF m, more
<1>3. m \in Reply_
  BY <1>1, <1>2 DEF Reply_
<1>4. /\ m.records["answer"].name = Answer[a].name
      /\ m.records["answer"].type = Answer[a].type
  BY <1>2 DEF Key
<1> QED
  BY <1>1, <1>2, <1>3, <1>4 DEF m, Fits

-----------------------------------------------------------------------------
(***************************************************************************)
(* What a listener makes of a message.                                     *)
(***************************************************************************)
Keys(a) == {Key(Content(a)[e]) : e \in {"answer"} \cup With(a)}

\* All that anybody can be told.
Known == Keys("ptr") \cup {Key(record_enum)}

After(c, m) ==
  {k \in c : \A r \in Read(m) : r.ttl = 0 => k # Key(r)}
    \cup {Key(r) : r \in {r \in Read(m) : r.ttl > 0}}

LEMMA ReadAll ==
  ASSUME NEW m, NEW a, Carries(m, a)
  PROVE  /\ \A r \in Read(m) : Key(r) \in Keys(a)
         /\ \A k \in Keys(a) : \E r \in Read(m) : Key(r) = k
         /\ Living(m) => \A r \in Read(m) : r.ttl > 0
         /\ Dead(m) => \A r \in Read(m) : r.ttl = 0
<1>1. Read(m) = {m.records[e] : e \in DOMAIN m.records}
  BY DEF Carries, Read
<1>2. \A e \in DOMAIN m.records : Key(m.records[e]) = Key(Content(a)[e])
  BY DEF Carries
<1>3. Keys(a) = {Key(Content(a)[e]) : e \in DOMAIN m.records}
  BY DEF Carries, Keys
<1>4. \A r \in Read(m) : Key(r) \in Keys(a)
  BY <1>1, <1>2, <1>3
<1>5. \A k \in Keys(a) : \E r \in Read(m) : Key(r) = k
  BY <1>1, <1>2, <1>3
<1>6. Living(m) => \A r \in Read(m) : r.ttl > 0
  BY <1>1 DEF Living
<1>7. Dead(m) => \A r \in Read(m) : r.ttl = 0
  BY <1>1 DEF Dead
<1> QED
  BY <1>4, <1>5, <1>6, <1>7

\* A reply adds its records to what a listener holds and takes nothing away.
LEMMA ReplyAdds ==
  ASSUME NEW m \in Reply_, NEW c
  PROVE  \E a \in DOMAIN Answer : Given(a) /\ After(c, m) = c \cup Keys(a)
<1>1. PICK a \in DOMAIN Answer : Given(a) /\ Carries(m, a)
  BY DEF Reply_
<1>2. /\ \A r \in Read(m) : r.ttl > 0 /\ Key(r) \in Keys(a)
      /\ \A k \in Keys(a) : \E r \in Read(m) : Key(r) = k
  BY <1>1, ReadAll DEF Reply_
<1>3. {k \in c : \A r \in Read(m) : r.ttl = 0 => k # Key(r)} = c
  BY <1>2
<1>4. {r \in Read(m) : r.ttl > 0} = Read(m)
  BY <1>2
<1>5. {Key(r) : r \in Read(m)} = Keys(a)
  BY <1>2
<1> QED
  BY <1>1, <1>3, <1>4, <1>5 DEF After

\* The goodbye takes all records of the service and adds nothing.
LEMMA GoodbyeTakes ==
  ASSUME NEW m \in Goodbye, NEW c
  PROVE  After(c, m) = c \ Keys("ptr")
<1>1. /\ \A r \in Read(m) : r.ttl = 0 /\ Key(r) \in Keys("ptr")
      /\ \A k \in Keys("ptr") : \E r \in Read(m) : Key(r) = k
  BY ReadAll DEF Goodbye
<1>2. {r \in Read(m) : r.ttl > 0} = {}
  BY <1>1
<1>3. {k \in c : \A r \in Read(m) : r.ttl = 0 => k # Key(r)} = c \ Keys("ptr")
  BY <1>1
<1> QED
  BY <1>2, <1>3 DEF After

\* The records of the service itself bring all others along, and those of no
\* other answer mention it.
LEMMA KeysOf ==
  ASSUME ServiceInv
  PROVE  /\ {Key(record_ptr), Key(record_srv), Key(record_txt)} \subseteq Keys("ptr")
         /\ Key(record_a) \in Keys("ptr") \/ Key(record_aaaa) \in Keys("ptr")
         /\ \A a \in DOMAIN Answer : Given(a) => Keys(a) \subseteq Known
         /\ \A a \in DOMAIN Answer : Key(record_ptr) \in Keys(a) => a = "ptr"
         /\ Key(record_ptr) # Key(record_enum)
<1> DEFINE A == DOMAIN Answer
<1>1. /\ A = {"enum", "ptr", "srv", "a", "aaaa"}
      /\ Answer["enum"] = record_enum /\ Answer["ptr"] = record_ptr
      /\ Answer["srv"] = record_srv /\ Answer["a"] = record_a
      /\ Answer["aaaa"] = record_aaaa
  BY DEF Answer
<1>2. /\ Additional["srv"] = record_srv /\ Additional["a"] = record_a
      /\ Additional["aaaa"] = record_aaaa /\ Additional["txt"] = record_txt
  BY DEF Additional
<1>3. \A a \in A : With(a) \subseteq {"srv", "a", "aaaa", "txt"}
  BY DEF With, FallThrough
<1>4. \A a \in A : Keys(a) = {Key(Answer[a])} \cup {Key(Additional[e]) : e \in With(a)}
  <2> SUFFICES ASSUME NEW a \in A
               PROVE  Keys(a) = {Key(Answer[a])} \cup {Key(Additional[e]) : e \in With(a)}
    OBVIOUS
  <2>1. Content(a)["answer"] = Answer[a] /\ \A e \in With(a) : Content(a)[e] = Additional[e]
    BY <1>3 DEF Content
  <2> QED
    BY <2>1 DEF Keys
<1>5. With("ptr") = {"srv", "txt"} \cup {e \in {"a"} : Has("v4")} \cup {e \in {"aaaa"} : Has("v6")}
  BY <1>1, RecordTypes DEF With, FallThrough
<1>6. Has("v4") \/ Has("v6")
  BY DEF ServiceInv, Link
<1>7. \A a \in A : With(a) \subseteq With("ptr")
  BY <1>1, <1>5 DEF With, FallThrough
<1>8. {Key(record_ptr), Key(record_srv), Key(record_txt)} \subseteq Keys("ptr")
  BY <1>1, <1>2, <1>4, <1>5
<1>9. /\ Has("v4") => Key(record_a) \in Keys("ptr")
      /\ Has("v6") => Key(record_aaaa) \in Keys("ptr")
  BY <1>1, <1>2, <1>4, <1>5
<1>10. ASSUME NEW a \in A, Given(a) PROVE Keys(a) \subseteq Known
  <2>1. {Key(Additional[e]) : e \in With(a)} \subseteq Keys("ptr")
    BY <1>1, <1>4, <1>7
  <2>2. Key(Answer[a]) \in Known
    BY <1>1, <1>8, <1>9, <1>10 DEF Given, Known
  <2> QED
    BY <1>4, <2>1, <2>2 DEF Known
<1>11. /\ Key(record_ptr).name = "service" /\ Key(record_srv).name = "instance"
       /\ Key(record_a).name = "host" /\ Key(record_aaaa).name = "host"
       /\ Key(record_txt).name = "instance" /\ Key(record_enum).name = "services"
  BY DEF Key, record_ptr, record_srv, record_a, record_aaaa, record_txt, record_enum, InRecord
<1>12. ASSUME NEW a \in A, Key(record_ptr) \in Keys(a) PROVE a = "ptr"
  <2>1. \A e \in With(a) : Key(Additional[e]) # Key(record_ptr)
    BY <1>2, <1>3, <1>11
  <2>2. Key(Answer[a]) = Key(record_ptr)
    BY <1>4, <1>12, <2>1
  <2> QED
    BY <1>1, <1>11, <2>2
<1> QED
  BY <1>6, <1>8, <1>9, <1>10, <1>11, <1>12

-----------------------------------------------------------------------------
(***************************************************************************)
(* The invariant.                                                          *)
(***************************************************************************)

\* The addresses stay as they were found, and with them all that depends on them.
LEMMA SameRecords ==
  ASSUME UNCHANGED addrs
  PROVE  /\ UNCHANGED <<Reply_, Goodbye, Sendable, Known>>
         /\ UNCHANGED <<record_ptr, record_srv, record_a, record_aaaa, record_txt, record_enum>>
         /\ \A f : Has(f)' = Has(f)
<1>1. UNCHANGED <<record_ptr, record_srv, record_a, record_aaaa, record_txt, record_enum>>
  BY DEF record_ptr, record_srv, record_a, record_aaaa, record_txt, record_enum
<1>2. \A f : Has(f)' = Has(f)
  BY DEF Has
<1>3. UNCHANGED <<Answer, Additional>>
  BY <1>1 DEF Answer, Additional
<1>4. \A a : Given(a)' = Given(a)
  BY <1>2 DEF Given
<1>5. \A t : FallThrough(t)' = FallThrough(t)
  BY <1>2 DEF FallThrough
<1>6. \A a : With(a)' = With(a)
  BY <1>3, <1>5 DEF With
<1>7. \A a : Content(a)' = Content(a)
  BY <1>3, <1>6 DEF Content
<1>8. \A m, a : Carries(m, a)' <=> Carries(m, a)
  BY <1>6, <1>7 DEF Carries
<1>9. UNCHANGED <<Reply_, Goodbye>>
  BY <1>3, <1>4, <1>8 DEF Reply_, Goodbye
<1>10. \A a : Keys(a)' = Keys(a)
  BY <1>6, <1>7 DEF Keys
<1>11. UNCHANGED Known
  BY <1>1, <1>10 DEF Known
<1> QED
  BY <1>1, <1>2, <1>9, <1>11 DEF Sendable

CacheInv == cache \in [Link -> SUBSET Known]

\* Nothing follows a goodbye, and who has heard it keeps nothing of the service.
GoodbyeInv ==
  /\ \A l \in bye : wire[l] # <<>> => wire[l][Len(wire[l])] \in Goodbye
  /\ \A l \in told : wire[l] = <<>> /\ cache[l] \subseteq {Key(record_enum)}

Inv == ServiceInv /\ PhaseInv /\ WireInv /\ CacheInv /\ GoodbyeInv

LEMMA Least ==
  ASSUME NEW S \in SUBSET Nat, S # {}
  PROVE  \E n \in S : \A k \in S : n <= k
<1>1. PICK n \in S : \A k \in S : <<k, n>> \notin OpToRel(<, Nat)
  BY NatLessThanWellFounded, WFMin
<1>2. \A k \in S : ~(k < n)
  BY <1>1 DEF OpToRel
<1> QED
  BY <1>2

\* The address advertised for a family is an eligible one of an interface.
LEMMA InterfacesEligible ==
  ASSUME NEW n \in Nat, NEW ifas \in [1 .. n -> IfAddr], NEW f \in Link,
         get_interfaces(ifas)[f] # "none"
  PROVE  \E i \in IfAddr : Eligible(i, f) /\ i.addr = get_interfaces(ifas)[f]
<1> DEFINE fit == {i \in DOMAIN ifas : Eligible(ifas[i], f)}
           least == CHOOSE i \in fit : \A j \in fit : i <= j
<1>1. fit # {} /\ get_interfaces(ifas)[f] = ifas[least].addr
  BY DEF get_interfaces
<1>2. fit \in SUBSET Nat
  OBVIOUS
<1>3. \E i \in fit : \A j \in fit : i <= j
  <2> HIDE DEF fit
  <2> QED
    BY <1>1, <1>2, Least
<1>4. least \in fit
  <2> HIDE DEF fit
  <2> QED
    BY <1>3
<1>5. least \in DOMAIN ifas /\ Eligible(ifas[least], f)
  <2> HIDE DEF least
  <2> QED
    BY <1>4
<1>6. ifas[least] \in IfAddr
  BY <1>5
<1> QED
  BY <1>1, <1>5, <1>6

LEMMA InitInv == Init => Inv
<1> SUFFICES ASSUME Init PROVE Inv
  OBVIOUS
<1> USE DEF Init
<1>1. ServiceInv
  <2>1. PICK n \in 0 .. MaxIfs : \E ifas \in [1 .. n -> IfAddr] : addrs = get_interfaces(ifas)
    OBVIOUS
  <2>2. PICK ifas \in [1 .. n -> IfAddr] : addrs = get_interfaces(ifas)
    BY <2>1
  <2>3. n \in Nat
    BY AdvertiseAssumption
  <2>4. \A f \in Link : Has(f) => \E i \in IfAddr : Eligible(i, f) /\ i.addr = addrs[f]
    BY <2>2, <2>3, InterfacesEligible DEF Has
  <2>5. DOMAIN addrs = Link /\ addrs = [f \in Link |-> addrs[f]]
    BY <2>2 DEF get_interfaces
  <2>6. addrs \in [Link -> {i.addr : i \in IfAddr} \cup {"none"}]
    BY <2>4, <2>5 DEF Has
  <2> QED
    BY <2>4, <2>6 DEF ServiceInv
<1>2. PhaseInv
  <2>1. Nothing \in Datagram /\ Nothing.questions = <<>> /\ Len(Nothing.questions) = 0
    BY DEF Nothing, Datagram
  <2>2. [l \in Link |-> <<>>] \in [Link -> Seq(Datagram)]
    OBVIOUS
  <2> QED
    BY <2>1, <2>2 DEF PhaseInv, Link
<1>3. WireInv
  BY DEF WireInv
<1>4. CacheInv
  BY DEF CacheInv
<1>5. GoodbyeInv
  BY DEF GoodbyeInv
<1> QED
  BY <1>1, <1>2, <1>3, <1>4, <1>5 DEF Inv

\* Addresses and sockets are those of the start.
LEMMA ServiceStays == ServiceInv /\ [Next]_vars => ServiceInv' /\ UNCHANGED addrs
<1> SUFFICES ASSUME ServiceInv, [Next]_vars PROVE ServiceInv' /\ UNCHANGED addrs
  OBVIOUS
<1>1. UNCHANGED service
  BY DEF Next, vars, advertise_announce_service, advertise_announce_goodbye,
     advertise_respond_request, ReadQuestion, EndListen, DatagramArrives, Hear, Lose, Expire, Done
<1>2. UNCHANGED <<addrs, socks>>
  BY <1>1 DEF service
<1> QED
  BY <1>2 DEF ServiceInv, Has

\* The two messages of a list that matter are the one that is read next and the
\* last.
LEMMA Lists ==
  ASSUME NEW S, NEW s \in Seq(S)
  PROVE  /\ \A m \in S : /\ Append(s, m) \in Seq(S) /\ Append(s, m) # <<>>
                         /\ Len(Append(s, m)) = Len(s) + 1
                         /\ Append(s, m)[Len(Append(s, m))] = m
         /\ s # <<>> => /\ Tail(s) \in Seq(S) /\ Head(s) \in S
                        /\ Len(Tail(s)) = Len(s) - 1
                        /\ Tail(s) # <<>> => Tail(s)[Len(Tail(s))] = s[Len(s)]
                        /\ Len(s) = 1 => Head(s) = s[Len(s)] /\ Tail(s) = <<>>
<1>1. ASSUME NEW m \in S
      PROVE  /\ Append(s, m) \in Seq(S) /\ Append(s, m) # <<>>
             /\ Len(Append(s, m)) = Len(s) + 1
             /\ Append(s, m)[Len(Append(s, m))] = m
  OBVIOUS
<1>2. ASSUME s # <<>>
      PROVE  /\ Tail(s) \in Seq(S) /\ Head(s) \in S
             /\ Len(Tail(s)) = Len(s) - 1
             /\ Len(s) = 1 => Head(s) = s[Len(s)]
  BY <1>2
<1>3. ASSUME s # <<>>, Tail(s) # <<>>
      PROVE  Tail(s)[Len(Tail(s))] = s[Len(s)]
  <2>1. Len(Tail(s)) \in Nat \ {0} /\ Len(Tail(s)) = Len(s) - 1
    BY <1>3, HeadTailProperties, EmptySeq
  <2> QED
    BY <1>3, <2>1, HeadTailProperties
<1>4. ASSUME s # <<>>, Len(s) = 1
      PROVE  Tail(s) = <<>>
  <2>1. Tail(s) \in Seq(S) /\ Len(Tail(s)) = 0
    BY <1>2, <1>4
  <2> QED
    BY <2>1, EmptySeq
<1> QED
  BY <1>1, <1>2, <1>3, <1>4

\* A message is sent on some of the sockets.
LEMMA MulticastSends ==
  ASSUME NEW m \in Sendable, NEW sent, Multicast(m, sent), WireInv, ServiceInv
  PROVE  /\ wire' \in [Link -> Seq(Sendable)]
         /\ \A l \in sent : l \in socks /\ wire'[l] # <<>> /\ wire'[l][Len(wire'[l])] = m
         /\ \A l \in Link \ sent : wire'[l] = wire[l]
<1>1. /\ sent \subseteq socks
      /\ wire' = [l \in Link |-> IF l \in sent THEN Append(wire[l], m) ELSE wire[l]]
  BY DEF Multicast
<1>2. \A l \in Link : wire[l] \in Seq(Sendable)
  BY DEF WireInv
<1>3. \A l \in Link : /\ Append(wire[l], m) \in Seq(Sendable)
                      /\ Append(wire[l], m) # <<>>
                      /\ Append(wire[l], m)[Len(Append(wire[l], m))] = m
  BY <1>2, Lists
<1>4. sent \subseteq Link
  BY <1>1 DEF ServiceInv
<1> QED
  BY <1>1, <1>3, <1>4

LEMMA PhaseStep ==
  ASSUME ServiceInv, PhaseInv, Next
  PROVE  PhaseInv'
<1> SUFFICES /\ phase' \in {"created", "idle", "listen", "gone"}
             /\ queue' \in [Link -> Seq(Datagram)]
             /\ asked' \in Datagram /\ link' \in Link /\ pos' \in 1 .. Len(asked'.questions) + 1
             /\ told' \subseteq bye' /\ bye' \subseteq socks'
             /\ bye' # {} => phase' = "gone"
             /\ phase' = "listen" => buffer' = asked' /\ link' \in socks'
  BY DEF PhaseInv
<1> USE DEF PhaseInv, parsing, heard, service
<1>1. CASE advertise_announce_service
  BY <1>1 DEF advertise_announce_service
<1>2. CASE advertise_announce_goodbye
  <2>1. /\ phase' = "gone" /\ bye' \subseteq socks /\ told = {} /\ UNCHANGED <<socks, queue, buffer, link, pos, asked, told>>
    BY <1>2 DEF advertise_announce_goodbye, Multicast
  <2> QED
    BY <2>1
<1>3. CASE advertise_respond_request
  <2>1. PICK l \in socks :
          /\ phase = "idle" /\ queue[l] # <<>>
          /\ buffer' = Head(queue[l]) /\ asked' = Head(queue[l])
          /\ queue' = [queue EXCEPT ![l] = Tail(@)]
          /\ link' = l /\ pos' = 1
          /\ phase' = "listen"
          /\ UNCHANGED <<service, wire, bye, heard, counts>>
    BY <1>3 DEF advertise_respond_request
  <2>2. l \in Link
    BY DEF ServiceInv
  <2>3. Head(queue[l]) \in Datagram /\ Tail(queue[l]) \in Seq(Datagram)
    BY <2>1, <2>2, Lists
  <2>4. Len(asked'.questions) \in Nat
    BY <2>1, <2>3 DEF Datagram
  <2> QED
    BY <2>1, <2>2, <2>3, <2>4
<1>4. CASE ReadQuestion
  <2>1. /\ UNCHANGED <<phase, queue, link, asked, told, bye, socks, buffer>>
        /\ phase = "listen" /\ pos <= Len(buffer.questions) /\ pos' = pos + 1
    BY <1>4 DEF ReadQuestion, service_callback
  <2>2. Len(asked.questions) \in Nat
    BY DEF Datagram
  <2> QED
    BY <2>1, <2>2
<1>5. CASE EndListen
  <2>1. /\ asked' = Nothing /\ pos' = 1 /\ phase' = "idle"
        /\ UNCHANGED <<queue, link, told, bye, socks>> /\ phase = "listen"
    BY <1>5 DEF EndListen
  <2>2. Nothing \in Datagram /\ Len(Nothing.questions) = 0
    BY DEF Nothing, Datagram
  <2> QED
    BY <2>1, <2>2
<1>6. CASE DatagramArrives
  <2>1. PICK l \in socks, response \in BOOLEAN, cut \in BOOLEAN, n \in 1 .. MaxQuestions :
          \E questions \in [1 .. n -> Questions] :
            /\ phase # "gone"
            /\ queue' = [queue EXCEPT ![l] =
                 Append(@, [response |-> response, questions |-> questions, cut |-> cut])]
            /\ UNCHANGED <<phase, socks, buffer, link, pos, asked, bye, told>>
    BY <1>6 DEF DatagramArrives
  <2>2. PICK questions \in [1 .. n -> Questions] :
          queue' = [queue EXCEPT ![l] =
            Append(@, [response |-> response, questions |-> questions, cut |-> cut])]
    BY <2>1
  <2>3. questions \in Seq(Question)
    BY AdvertiseAssumption
  <2> DEFINE d == [response |-> response, questions |-> questions, cut |-> cut]
  <2>4. d \in Datagram /\ l \in Link
    BY <2>3 DEF Datagram, ServiceInv
  <2>5. Append(queue[l], d) \in Seq(Datagram)
    BY <2>4, Lists
  <2>6. queue' \in [Link -> Seq(Datagram)]
    BY <2>2, <2>5
  <2> QED
    BY <2>1, <2>6
<1>7. CASE Hear
  <2>1. UNCHANGED <<phase, queue, asked, link, pos, bye, socks, buffer>> /\ told' \subseteq bye
    BY <1>7 DEF Hear
  <2> QED
    BY <2>1
<1>8. CASE Lose
  BY <1>8 DEF Lose
<1>9. CASE Done
  BY <1>9 DEF Done, vars
<1>10. CASE Expire
  BY <1>10 DEF Expire
<1> QED
  BY <1>1, <1>2, <1>3, <1>4, <1>5, <1>6, <1>7, <1>8, <1>9, <1>10 DEF Next

\* What an answer to the question that is next adds to the wire: the answer to
\* that question, or, if it was cut off, to one with its name.
LEMMA Answered ==
  ASSUME Inv, ReadQuestion, wire' # wire
  PROVE  \E q \in Question :
           /\ q.name = asked.questions[pos].name
           /\ ~CutOff(asked, pos) => q = asked.questions[pos]
           /\ Reply(q) # <<>>
           /\ wire' = [wire EXCEPT ![link] = Append(@, ReplyMessage(q))]
           /\ ReplyMessage(q) \in Reply_
<1> DEFINE arrivedq == asked.questions[pos]
<1>1. phase = "listen" /\ buffer = asked /\ pos \in 1 .. Len(asked.questions)
  BY DEF ReadQuestion, Inv, PhaseInv
<1>2. arrivedq \in Question
  <2>1. asked.questions \in Seq(Question)
    BY DEF Inv, PhaseInv, Datagram
  <2> QED
    BY <1>1, <2>1, ElementOfSeq
<1>3. PICK q \in Seen(pos) : service_callback(q)
  BY DEF ReadQuestion
<1>4. /\ q \in Question /\ q.name = arrivedq.name
      /\ ~CutOff(asked, pos) => q = arrivedq
  <2>1. CASE CutOff(asked, pos)
    <3>1. q \in [name: {arrivedq.name}, rtype: Type \cup {"ANY"},
                 class: {"IN", "ANY", "CH"}, unicast: BOOLEAN]
      BY <1>1, <1>3, <2>1 DEF Seen
    <3>2. arrivedq.name \in Name
      BY <1>2 DEF Question
    <3> HIDE DEF arrivedq
    <3> QED
      BY <3>1, <3>2, <2>1 DEF Question
  <2>2. CASE ~CutOff(asked, pos)
    BY <1>1, <1>2, <1>3, <2>2 DEF Seen
  <2> QED
    BY <2>1, <2>2
<1>5. Reply(q) # <<>> /\ wire' = [wire EXCEPT ![link] = Append(@, ReplyMessage(q))]
  BY <1>3 DEF service_callback
<1>6. ReplyMessage(q) \in Reply_
  BY <1>4, <1>5, ReplyMessageIs DEF Inv
<1> QED
  BY <1>4, <1>5, <1>6

LEMMA WireStep ==
  ASSUME Inv, Next
  PROVE  WireInv'
<1>1. UNCHANGED Sendable
  BY ServiceStays, SameRecords DEF Inv
<1>2. wire \in [Link -> Seq(Sendable)] /\ ServiceInv /\ Reply_ \subseteq Sendable
  BY DEF Inv, WireInv, Sendable
<1> SUFFICES wire' \in [Link -> Seq(Sendable)]
  BY <1>1 DEF WireInv
<1>3. CASE advertise_announce_service
  <2>1. PICK sent \in SUBSET socks :
          Multicast(mdns_announce_multicast(record_ptr, build_additional("PTR")), sent)
    BY <1>3 DEF advertise_announce_service
  <2> QED
    BY <1>2, <2>1, Announcement, MulticastSends DEF Sendable, WireInv
<1>4. CASE advertise_announce_goodbye
  <2>1. PICK sent \in SUBSET socks :
          Multicast(mdns_goodbye_multicast(record_ptr, build_additional("PTR")), sent)
    BY <1>4 DEF advertise_announce_goodbye
  <2> QED
    BY <1>2, <2>1, Announcement, MulticastSends DEF Sendable, WireInv
<1>5. CASE ReadQuestion /\ wire' # wire
  <2>1. PICK m \in Sendable : wire' = [wire EXCEPT ![link] = Append(@, m)]
    BY <1>2, <1>5, Answered
  <2>2. Append(wire[link], m) \in Seq(Sendable)
    BY <1>2, Lists DEF Inv, PhaseInv
  <2> QED
    BY <1>2, <2>1, <2>2
<1>6. CASE Hear \/ Lose
  <2>1. PICK l \in Link : wire[l] # <<>> /\ wire' = [wire EXCEPT ![l] = Tail(@)]
    BY <1>6 DEF Hear, Lose
  <2>2. Tail(wire[l]) \in Seq(Sendable)
    BY <1>2, <2>1, Lists
  <2> QED
    BY <1>2, <2>1, <2>2
<1>7. CASE UNCHANGED wire
  BY <1>2, <1>7
<1> QED
  BY <1>3, <1>4, <1>5, <1>6, <1>7
     DEF Next, advertise_respond_request, EndListen, DatagramArrives, Expire, Done, vars

\* What a listener makes of the message that is next: it adds the records of a
\* reply, and takes those of the goodbye.
LEMMA Heard ==
  ASSUME Inv, Hear
  PROVE  \E l \in Link :
           \/ \E a \in DOMAIN Answer :
                Given(a) /\ cache' = [cache EXCEPT ![l] = @ \cup Keys(a)]
           \/ cache' = [cache EXCEPT ![l] = @ \ Keys("ptr")]
<1>1. PICK l \in Link : /\ wire[l] # <<>>
                        /\ cache' = [cache EXCEPT ![l] = After(@, Head(wire[l]))]
  BY DEF Hear, After
<1>2. Head(wire[l]) \in Sendable
  BY <1>1, Lists DEF Inv, WireInv
<1>3. CASE Head(wire[l]) \in Reply_
  <2>1. PICK a \in DOMAIN Answer :
          Given(a) /\ After(cache[l], Head(wire[l])) = cache[l] \cup Keys(a)
    BY <1>3, ReplyAdds
  <2> QED
    BY <1>1, <2>1
<1>4. CASE Head(wire[l]) \in Goodbye
  BY <1>1, <1>4, GoodbyeTakes
<1> QED
  BY <1>2, <1>3, <1>4 DEF Sendable

\* Nobody holds what no message carries.
LEMMA CacheStep ==
  ASSUME Inv, Next
  PROVE  CacheInv'
<1>1. UNCHANGED Known
  BY ServiceStays, SameRecords DEF Inv
<1>2. cache \in [Link -> SUBSET Known] /\ ServiceInv
  BY DEF Inv, CacheInv
<1> SUFFICES cache' \in [Link -> SUBSET Known]
  BY <1>1 DEF CacheInv
<1>3. CASE Hear
  <2>1. PICK l \in Link :
          \/ \E a \in DOMAIN Answer :
               Given(a) /\ cache' = [cache EXCEPT ![l] = @ \cup Keys(a)]
          \/ cache' = [cache EXCEPT ![l] = @ \ Keys("ptr")]
    BY <1>3, Heard
  <2>2. \A a \in DOMAIN Answer : Given(a) => Keys(a) \subseteq Known
    BY <1>2, KeysOf
  <2> QED
    BY <1>2, <2>1, <2>2
<1>4. CASE Expire
  BY <1>2, <1>4 DEF Expire
<1>5. CASE UNCHANGED cache
  BY <1>2, <1>5
<1> QED
  BY <1>3, <1>4, <1>5 DEF Next, heard, vars, advertise_announce_service,
     advertise_announce_goodbye, advertise_respond_request, ReadQuestion, EndListen,
     DatagramArrives, Lose, Done

LEMMA GoodbyeStep ==
  ASSUME Inv, Next
  PROVE  GoodbyeInv'
<1>1. UNCHANGED <<Goodbye, record_enum>>
  BY ServiceStays, SameRecords DEF Inv
<1>2. /\ wire \in [Link -> Seq(Sendable)] /\ cache \in [Link -> SUBSET Known] /\ GoodbyeInv
      /\ ServiceInv /\ PhaseInv
  BY DEF Inv, WireInv, CacheInv
<1>3. bye \subseteq Link /\ told \subseteq bye
  BY <1>2 DEF ServiceInv, PhaseInv
<1> SUFFICES /\ \A l \in bye' : wire'[l] # <<>> => wire'[l][Len(wire'[l])] \in Goodbye
             /\ \A l \in told' : wire'[l] = <<>> /\ cache'[l] \subseteq {Key(record_enum)}
  BY <1>1 DEF GoodbyeInv, Key
<1>4. CASE advertise_announce_goodbye
  <2>1. PICK sent \in SUBSET socks :
          /\ Multicast(mdns_goodbye_multicast(record_ptr, build_additional("PTR")), sent)
          /\ bye' = sent
    BY <1>4 DEF advertise_announce_goodbye
  <2>2. told' = {}
    BY <1>2, <1>4 DEF advertise_announce_goodbye, PhaseInv, heard
  <2>3. \A l \in sent : wire'[l] # <<>> /\ wire'[l][Len(wire'[l])] \in Goodbye
    BY <1>2, <2>1, Announcement, MulticastSends DEF Sendable, WireInv
  <2> QED
    BY <2>1, <2>2, <2>3
<1>5. CASE Hear \/ Lose
  <2>1. PICK l \in Link : wire[l] # <<>> /\ wire' = [wire EXCEPT ![l] = Tail(@)]
                          /\ \/ /\ cache' = [cache EXCEPT ![l] = After(@, Head(wire[l]))]
                                /\ told' = IF l \in bye /\ Len(wire[l]) = 1
                                           THEN told \cup {l} ELSE told
                             \/ UNCHANGED <<cache, told>>
    BY <1>5 DEF Hear, Lose, After, heard
  <2>2. UNCHANGED bye
    BY <1>5 DEF Hear, Lose
  <2>3. /\ Tail(wire[l]) # <<>> => Tail(wire[l])[Len(Tail(wire[l]))] = wire[l][Len(wire[l])]
        /\ Len(wire[l]) = 1 => Head(wire[l]) = wire[l][Len(wire[l])] /\ Tail(wire[l]) = <<>>
    BY <1>2, <2>1, Lists
  <2>4. ASSUME NEW k \in bye', wire'[k] # <<>>
        PROVE  wire'[k][Len(wire'[k])] \in Goodbye
    <3>1. CASE k = l
      BY <1>2, <1>3, <2>1, <2>2, <2>3, <2>4, <3>1 DEF GoodbyeInv
    <3>2. CASE k # l
      BY <1>2, <1>3, <2>1, <2>2, <2>4, <3>2 DEF GoodbyeInv
    <3> QED
      BY <3>1, <3>2
  <2>5. ASSUME NEW k \in told'
        PROVE  wire'[k] = <<>> /\ cache'[k] \subseteq {Key(record_enum)}
    <3>1. l \notin told
      BY <1>2, <2>1 DEF GoodbyeInv
    <3>2. CASE k \in told
      BY <1>2, <1>3, <2>1, <3>1, <3>2 DEF GoodbyeInv
    <3>3. CASE k \notin told
      <4>1. k = l /\ l \in bye /\ Len(wire[l]) = 1
            /\ cache' = [cache EXCEPT ![l] = After(@, Head(wire[l]))]
        BY <2>1, <2>5, <3>3
      <4>2. Head(wire[l]) \in Goodbye /\ wire'[l] = <<>>
        BY <1>2, <2>1, <2>3, <4>1 DEF GoodbyeInv
      <4>3. After(cache[l], Head(wire[l])) = cache[l] \ Keys("ptr")
        BY <4>2, GoodbyeTakes
      <4>4. cache[l] \ Keys("ptr") \subseteq {Key(record_enum)}
        BY <1>2, <2>1 DEF Known
      <4> QED
        BY <1>2, <2>1, <4>1, <4>2, <4>3, <4>4
    <3> QED
      BY <3>2, <3>3
  <2> QED
    BY <2>4, <2>5
<1>6. CASE advertise_announce_service \/ ReadQuestion
  <2>1. bye = {} /\ UNCHANGED <<bye, told>>
    BY <1>2, <1>6 DEF PhaseInv, advertise_announce_service, ReadQuestion, heard
  <2> QED
    BY <1>3, <2>1
<1>7. CASE Expire
  <2>1. /\ UNCHANGED <<bye, wire, told>>
        /\ \E l \in Link : \E k \in cache[l] : cache' = [cache EXCEPT ![l] = @ \ {k}]
    BY <1>7 DEF Expire
  <2>2. \A l \in Link : cache'[l] \subseteq cache[l]
    BY <1>2, <2>1
  <2> QED
    BY <1>2, <1>3, <2>1, <2>2 DEF GoodbyeInv
<1>8. CASE UNCHANGED <<bye, wire, cache, told>>
  BY <1>2, <1>8 DEF GoodbyeInv
<1> QED
  BY <1>4, <1>5, <1>6, <1>7, <1>8
     DEF Next, advertise_respond_request, EndListen, DatagramArrives, Done, vars, heard

LEMMA InvStep == Inv /\ [Next]_vars => Inv'
<1> SUFFICES ASSUME Inv, [Next]_vars PROVE Inv'
  OBVIOUS
<1>1. CASE Next
  BY <1>1, ServiceStays, PhaseStep, WireStep, CacheStep, GoodbyeStep DEF Inv
<1>2. CASE UNCHANGED vars
  <2>1. UNCHANGED <<Known, Goodbye, Sendable>>
    BY <1>2, SameRecords DEF vars, service
  <2>2. ServiceInv' /\ PhaseInv'
    BY <1>2 DEF Inv, ServiceInv, PhaseInv, Has, vars, service, parsing, heard
  <2>3. WireInv'
    BY <1>2, <2>1 DEF Inv, WireInv, vars
  <2>4. CacheInv'
    BY <1>2, <2>1 DEF Inv, CacheInv, vars, heard
  <2>5. GoodbyeInv'
    BY <1>2, <2>1 DEF Inv, GoodbyeInv, vars, heard, service, Key, record_enum
  <2> QED
    BY <2>2, <2>3, <2>4, <2>5 DEF Inv
<1> QED
  BY <1>1, <1>2

LEMMA Always == Spec => []Inv
BY InitInv, InvStep, PTL DEF Spec

-----------------------------------------------------------------------------
(***************************************************************************)
(* What the messages are.                                                  *)
(***************************************************************************)
LEMMA MessagesCarry ==
  ASSUME Inv, NEW m \in Messages
  PROVE  m \in Shaped /\ \E a \in DOMAIN Answer : Given(a) /\ Carries(m, a)
<1>1. PICK l \in Link : \E i \in DOMAIN wire[l] : m = wire[l][i]
  BY DEF Messages
<1>2. m \in Sendable
  BY <1>1, ElementOfSeq DEF Inv, WireInv
<1>3. "ptr" \in DOMAIN Answer /\ Given("ptr")
  BY DEF Answer, Given
<1> QED
  BY <1>2, <1>3 DEF Sendable, Reply_, Goodbye

\* The messages are well formed, with at most the four additional records the
\* array has room for, each of them one this host has.
THEOREM TypeCorrect == Spec => []TypeOK
<1>1. Inv => TypeOK
  <2> SUFFICES ASSUME Inv PROVE TypeOK
    OBVIOUS
  <2>1. ASSUME NEW m \in Messages
        PROVE  /\ m.answers = 1 /\ m.additional \in 0 .. 4
               /\ \A e \in DOMAIN m.records : m.records[e] \in Record
    <3>1. m \in Shaped
      BY MessagesCarry
    <3>2. m.answers = 1 /\ m.additional \in 0 .. 4
      BY <3>1 DEF Shaped
    <3>3. m.records \in UNION {[D -> Record] : D \in SUBSET Slot}
      BY <3>1 DEF Shaped
    <3>4. PICK D \in SUBSET Slot : m.records \in [D -> Record]
      BY <3>3
    <3> QED
      BY <3>2, <3>4
  <2> QED
    BY <2>1 DEF TypeOK, Inv, ServiceInv, PhaseInv
<1> QED
  BY <1>1, Always, PTL

\* The counts in a header agree with the records that follow.
THEOREM CountsRight == Spec => []CountsMatch
<1>1. Inv => CountsMatch
  BY MessagesCarry DEF CountsMatch, Carries
<1> QED
  BY <1>1, Always, PTL

\* No record is in a message twice, whatever was asked and whichever addresses
\* there are.
THEOREM NothingTwice == Spec => []NoneTwice
<1>1. Inv => NoneTwice
  <2> SUFFICES ASSUME Inv, NEW m \in Messages,
                      NEW d \in DOMAIN m.records, NEW e \in DOMAIN m.records, d # e
               PROVE  Key(m.records[d]) # Key(m.records[e])
    BY DEF NoneTwice
  <2>1. PICK a \in DOMAIN Answer : Given(a) /\ Carries(m, a)
    BY MessagesCarry
  <2> DEFINE T(x) == Content(a)[x].type
             D == {"answer"} \cup With(a)
  <2>2. /\ DOMAIN Answer = {"enum", "ptr", "srv", "a", "aaaa"}
        /\ With(a) \subseteq {"srv", "a", "aaaa", "txt"}
        /\ "ptr" \in DOMAIN Answer
    BY AnswerRecords DEF Inv
  <2>3. /\ Answer["enum"].type = "PTR" /\ Answer["ptr"].type = "PTR"
        /\ Answer["srv"].type = "SRV" /\ Answer["a"].type = "A"
        /\ Answer["aaaa"].type = "AAAA"
    BY RecordTypes DEF Answer
  <2>4. /\ Additional["srv"].type = "SRV" /\ Additional["a"].type = "A"
        /\ Additional["aaaa"].type = "AAAA" /\ Additional["txt"].type = "TXT"
    BY RecordTypes DEF Additional
  <2>5. /\ T("answer") = Answer[a].type
        /\ \A x \in With(a) : T(x) = Additional[x].type
    BY <2>2 DEF Content
  <2>6. \A x \in With(a) : Additional[x].type # Answer[a].type
    BY <2>2, <2>3, <2>4 DEF With, FallThrough
  <2>7. \A x, y \in With(a) : x # y => Additional[x].type # Additional[y].type
    BY <2>2, <2>4
  <2>8. d \in D /\ e \in D
    BY <2>1 DEF Carries
  <2>9. T(d) # T(e)
    <3> HIDE DEF T
    <3> QED
      BY <2>5, <2>6, <2>7, <2>8
  <2>10. m.records[d].type = T(d) /\ m.records[e].type = T(e)
    BY <2>1 DEF Carries, Key
  <2> QED
    BY <2>9, <2>10 DEF Key
<1> QED
  BY <1>1, Always, PTL

\* Only addresses that other hosts of the link can reach are told: of no message
\* is the record of a family that has none, or of an interface that cannot be
\* reached, a part.
THEOREM OnlyReachable == Spec => []AddressesReach
<1>1. Inv => AddressesReach
  <2> SUFFICES ASSUME Inv, NEW m \in Messages, NEW e \in DOMAIN m.records,
                      m.records[e].type \in {"A", "AAAA"}
               PROVE  \E i \in IfAddr :
                        /\ i.addr = m.records[e].data
                        /\ {"UP", "MULTICAST"} \subseteq i.flags /\ "LOOPBACK" \notin i.flags
                        /\ i.family = "v4" \/ i.scope = "global"
    BY DEF AddressesReach
  <2>1. PICK a \in DOMAIN Answer : Given(a) /\ Carries(m, a)
    BY MessagesCarry
  <2>2. /\ DOMAIN Answer = {"enum", "ptr", "srv", "a", "aaaa"}
        /\ With(a) \subseteq {"srv", "a", "aaaa", "txt"}
    BY AnswerRecords DEF Inv
  <2>3. e \in {"answer"} \cup With(a) /\ Key(m.records[e]) = Key(Content(a)[e])
    BY <2>1 DEF Carries
  <2>4. Content(a)[e] = IF e = "answer" THEN Answer[a] ELSE Additional[e]
    BY <2>3 DEF Content
  <2>5. /\ Content(a)[e].type = m.records[e].type
        /\ Content(a)[e].data = m.records[e].data
    BY <2>3 DEF Key
  <2>6. \/ Content(a)[e] = record_a /\ Has("v4")
        \/ Content(a)[e] = record_aaaa /\ Has("v6")
    <3>1. CASE e = "answer"
      <4>1. Answer[a].type \in {"A", "AAAA"}
        BY <2>4, <2>5, <3>1
      <4>2. a \in {"a", "aaaa"}
        BY <2>2, <4>1, RecordTypes DEF Answer
      <4> QED
        BY <2>1, <2>4, <3>1, <4>2 DEF Answer, Given
    <3>2. CASE e # "answer"
      <4>1. e \in With(a) /\ Additional[e].type \in {"A", "AAAA"}
        BY <2>3, <2>4, <2>5, <3>2
      <4>2. e \in {"a", "aaaa"}
        BY <2>2, <4>1, RecordTypes DEF Additional
      <4>3. ("a" \in With(a) => Has("v4")) /\ ("aaaa" \in With(a) => Has("v6"))
        BY DEF With, FallThrough
      <4> QED
        BY <2>4, <3>2, <4>1, <4>2, <4>3 DEF Additional
    <3> QED
      BY <3>1, <3>2
  <2>7. record_a.data = addrs["v4"] /\ record_aaaa.data = addrs["v6"]
    BY DEF record_a, record_aaaa, InRecord
  <2>8. PICK f \in Link : Has(f) /\ m.records[e].data = addrs[f]
    BY <2>5, <2>6, <2>7 DEF Link
  <2>9. PICK i \in IfAddr : Eligible(i, f) /\ i.addr = addrs[f]
    BY <2>8 DEF Inv, ServiceInv
  <2> QED
    BY <2>8, <2>9 DEF Eligible, Link
<1> QED
  BY <1>1, Always, PTL

-----------------------------------------------------------------------------
(***************************************************************************)
(* What listeners and those who ask may rely on.                           *)
(***************************************************************************)

\* Whatever is lost or has expired, a listener that learns of the service can
\* reach it: the answer that mentions it brings all other records along, and no
\* other answer mentions it.
THEOREM KnowsAll == Spec => Resolvable
<1> DEFINE Step == \A l \in Link : Key(record_ptr) \in cache'[l] \ cache[l] =>
                     /\ {Key(record_srv), Key(record_txt)} \subseteq cache'[l]
                     /\ {Key(record_a), Key(record_aaaa)} \cap cache'[l] # {}
<1>1. Inv /\ [Next]_vars => [Step]_vars
  <2> SUFFICES ASSUME Inv, Next, NEW l \in Link,
                      Key(record_ptr) \in cache'[l] \ cache[l]
               PROVE  /\ {Key(record_srv), Key(record_txt)} \subseteq cache'[l]
                      /\ {Key(record_a), Key(record_aaaa)} \cap cache'[l] # {}
    OBVIOUS
  <2>1. cache \in [Link -> SUBSET Known] /\ ServiceInv
    BY DEF Inv, CacheInv
  <2>2. ~Expire
    BY <2>1 DEF Expire
  <2>3. Hear
    BY <2>2 DEF Next, heard, vars, advertise_announce_service, advertise_announce_goodbye,
       advertise_respond_request, ReadQuestion, EndListen, DatagramArrives, Lose, Done
  <2>4. PICK k \in Link :
          \/ \E a \in DOMAIN Answer :
               Given(a) /\ cache' = [cache EXCEPT ![k] = @ \cup Keys(a)]
          \/ cache' = [cache EXCEPT ![k] = @ \ Keys("ptr")]
    BY <2>3, Heard
  <2>5. PICK a \in DOMAIN Answer :
          k = l /\ cache'[l] = cache[l] \cup Keys(a)
    BY <2>1, <2>4
  <2>6. a = "ptr"
    BY <2>1, <2>5, KeysOf
  <2>7. /\ {Key(record_srv), Key(record_txt)} \subseteq Keys("ptr")
        /\ Key(record_a) \in Keys("ptr") \/ Key(record_aaaa) \in Keys("ptr")
    BY <2>1, KeysOf
  <2> QED
    BY <2>5, <2>6, <2>7
<1> QED
  BY <1>1, Always, PTL DEF Spec, Resolvable

\* The goodbye, when it is heard, takes back all that was ever told.
THEOREM GoodbyeTakesAll == Spec => []GoodbyeClears
<1>1. Inv => GoodbyeClears
  BY DEF Inv, GoodbyeInv, GoodbyeClears
<1> QED
  BY <1>1, Always, PTL

\* A reply goes to the socket the question came from and answers the question as
\* it arrived, as far as it arrived, though answers to earlier ones have been
\* written since.
THEOREM RepliesFit == Spec => AnswersAsked
<1> DEFINE Step == \A l \in Link : phase = "listen" /\ Len(wire'[l]) > Len(wire[l]) =>
                     LET m == wire'[l][Len(wire'[l])]
                         q == asked.questions[pos]
                     IN  /\ l = link
                         /\ m.records["answer"].name = q.name
                         /\ ~CutOff(asked, pos) =>
                              /\ q.rtype \in {m.records["answer"].type, "ANY"}
                              /\ q.unicast <=> m.questions # <<>>
<1>1. Inv /\ [Next]_vars => [Step]_vars
  <2> SUFFICES ASSUME Inv, Next, NEW l \in Link, phase = "listen",
                      Len(wire'[l]) > Len(wire[l])
               PROVE  LET m == wire'[l][Len(wire'[l])]
                          q == asked.questions[pos]
                      IN  /\ l = link
                          /\ m.records["answer"].name = q.name
                          /\ ~CutOff(asked, pos) =>
                               /\ q.rtype \in {m.records["answer"].type, "ANY"}
                               /\ q.unicast <=> m.questions # <<>>
    OBVIOUS
  <2>1. wire \in [Link -> Seq(Sendable)] /\ link \in Link
    BY DEF Inv, WireInv, PhaseInv
  <2>2. ~(Hear \/ Lose)
    <3> SUFFICES ASSUME Hear \/ Lose PROVE FALSE
      OBVIOUS
    <3>1. PICK k \in Link : wire[k] # <<>> /\ wire' = [wire EXCEPT ![k] = Tail(@)]
      BY DEF Hear, Lose
    <3>2. Len(Tail(wire[k])) = Len(wire[k]) - 1 /\ Len(wire[k]) \in Nat /\ Len(wire[l]) \in Nat
      BY <2>1, <3>1, Lists, LenProperties
    <3> QED
      BY <2>1, <3>1, <3>2
  <2>3. wire' # wire
    <3>1. Len(wire[l]) \in Nat
      BY <2>1, LenProperties
    <3> QED
      BY <3>1
  <2>4. ReadQuestion
    BY <2>2, <2>3 DEF Next, advertise_announce_service, advertise_announce_goodbye,
       advertise_respond_request, EndListen, DatagramArrives, Expire, Done, vars
  <2>5. PICK q \in Question :
          /\ q.name = asked.questions[pos].name
          /\ ~CutOff(asked, pos) => q = asked.questions[pos]
          /\ Reply(q) # <<>>
          /\ wire' = [wire EXCEPT ![link] = Append(@, ReplyMessage(q))]
          /\ ReplyMessage(q) \in Reply_
    BY <2>3, <2>4, Answered
  <2> DEFINE m == ReplyMessage(q)
  <2>6. /\ Reply(q) # <<>> /\ m \in Sendable
        /\ wire' = [wire EXCEPT ![link] = Append(@, m)]
    BY <2>5 DEF Sendable
  <2>7. /\ m.records["answer"].name = q.name
        /\ q.rtype \in {m.records["answer"].type, "ANY"}
        /\ q.unicast <=> m.questions # <<>>
    BY <2>6, ReplyMessageIs DEF Inv
  <2> HIDE DEF m
  <2>8. l = link
    <3>1. Len(wire[l]) \in Nat
      BY <2>1, LenProperties
    <3> QED
      BY <2>1, <2>6, <3>1
  <2>9. wire'[l][Len(wire'[l])] = m
    <3>1. Append(wire[link], m)[Len(Append(wire[link], m))] = m
      BY <2>1, <2>6, Lists
    <3> QED
      BY <2>1, <2>6, <2>8, <3>1
  <2> QED
    BY <2>5, <2>7, <2>8, <2>9
<1> QED
  BY <1>1, Always, PTL DEF Spec, AnswersAsked

\* No question that arrived whole is skipped because of the answer to an earlier one:
\* mdns_socket_listen stops early only at a question it cannot read.
THEOREM EveryQuestionRead == Spec => QuestionsRead
<1> DEFINE Step == phase = "listen" /\ phase' = "idle" /\ pos <= Len(asked.questions) =>
                     Stops(asked.questions[pos]) \/ CutOff(asked, pos)
<1>1. Inv /\ [Next]_vars => [Step]_vars
  <2> SUFFICES ASSUME Inv, Next, phase = "listen", phase' = "idle",
                      pos <= Len(asked.questions)
               PROVE  Stops(asked.questions[pos]) \/ CutOff(asked, pos)
    OBVIOUS
  <2>1. EndListen
    BY DEF Next, advertise_announce_service, advertise_announce_goodbye,
       advertise_respond_request, ReadQuestion, DatagramArrives, Hear, Lose, Expire, Done, vars
  <2>2. buffer = asked /\ \E q \in Seen(pos) : Stops(q)
    BY <2>1 DEF EndListen, Inv, PhaseInv
  <2> QED
    BY <2>2 DEF Seen
<1> QED
  BY <1>1, Always, PTL DEF Spec, QuestionsRead

=============================================================================
