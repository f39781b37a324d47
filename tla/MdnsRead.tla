------------------------------ MODULE MdnsRead ------------------------------
(***************************************************************************)
(* How lib/mdns.h reads the names of a message that somebody else made:    *)
(* mdns_string_skip, mdns_string_equal, mdns_string_extract and            *)
(* mdns_records_parse, one call of one of them, on any bytes at all.  A    *)
(* name may refer to itself, end nowhere, or be longer than there is room  *)
(* for.                                                                    *)
(*                                                                         *)
(* A step is one pass of the function's loop.  The message is indexed from *)
(* 0, as in C.  Limits and the header of a record are scaled down.         *)
(***************************************************************************)
EXTENDS Integers, SequencesExt

CONSTANTS
  Byte,            \* the bytes that messages are made of
  Size,            \* the length of a message
  Starts,          \* where the call begins to read
  Query,           \* the name in mdns_services_query
  QuerySize,       \* its length
  MAX_SUBSTRINGS,  \* MDNS_MAX_SUBSTRINGS
  MaxRefs,         \* the references mdns_get_next_substring follows, 16
  Capacity,        \* the room mdns_string_extract is given
  HeaderSize,      \* type, class, lifetime and length of a record, 10 bytes
  MaxRecords       \* bound: the number of records the message announces

Bytes(size) == [0 .. size - 1 -> Byte]

ASSUME MdnsReadAssumption ==
  /\ Byte \subseteq 0 .. 255 /\ Size \in Nat /\ Starts \subseteq 0 .. Size
  /\ QuerySize \in Nat /\ Query \in Bytes(QuerySize)
  /\ MAX_SUBSTRINGS \in Nat /\ MaxRefs \in Nat /\ Capacity \in Nat
  /\ HeaderSize \in Nat \ {0} /\ MaxRecords \in Nat

VARIABLES
  call,     \* "skip", "equal", "extract" or "records"
  pc,       \* "skip", "equal", "extract", "header" or "done"
  buffer,   \* the message
  start,    \* *offset when the call was made
  offset,   \* *offset
  cur, rhs, \* where it reads in the message, and where in Query
  counter,
  end,      \* where the name ends in the message, once that is known
  str,      \* what was extracted
  ok,       \* the result
  names,    \* where the name of each record begins
  parsed    \* what the callback gets: where each record's data is, and its length

input == <<call, buffer, start>>
walk == <<cur, rhs, counter, end, str>>
records == <<names, parsed>>
vars == <<input, pc, offset, walk, ok, records>>

MDNS_INVALID_POS == -1

TypeOK ==
  /\ call \in {"skip", "equal", "extract", "records"}
  /\ pc \in {call, "skip", "header", "done"}
  /\ buffer \in Bytes(Size) /\ start \in Starts
  /\ offset \in Nat /\ cur \in Nat /\ rhs \in Nat
  /\ counter \in 0 .. MAX_SUBSTRINGS + 1
  /\ end \in Nat \cup {MDNS_INVALID_POS}
  /\ str \in Seq(Byte \cup {46}) /\ Len(str) <= Capacity
  /\ ok \in BOOLEAN
  /\ names \in Seq(Nat) /\ parsed \in Seq(Nat \X Nat)

-----------------------------------------------------------------------------
(***************************************************************************)
(* mdns_get_next_substring.                                                *)
(***************************************************************************)
mdns_is_string_ref(b) == b >= 192

\* mdns_ntohs of two bytes, without the two highest bits.
Reference(m, o) == (m[o] % 64) * 256 + m[o + 1]

Nowhere == [offset |-> MDNS_INVALID_POS, length |-> 0, ref |-> FALSE]

\* Where the reference at p leads, p itself if there is none, or nowhere.
Refer(m, size, p) ==
  IF p = MDNS_INVALID_POS \/ ~mdns_is_string_ref(m[p]) THEN p
  ELSE IF size < p + 2 \/ Reference(m, p) >= size THEN MDNS_INVALID_POS
  ELSE Reference(m, p)

\* Faulty: references of references are not followed.
FollowOnce(m, size, o, n) == Refer(m, size, o)

\* Where o leads after at most n references, or MDNS_INVALID_POS.
Follow(m, size, o, n) ==
  LET at[k \in 0 .. n] == IF k = 0 THEN o ELSE Refer(m, size, at[k - 1])
  IN  at[n]

\* A zero is its own place; a label begins after its length, wherever the
\* references at o lead.
mdns_get_next_substring(m, size, o) ==
  IF o >= size THEN Nowhere
  ELSE IF m[o] = 0 THEN [offset |-> o, length |-> 0, ref |-> FALSE]
  ELSE LET p == Follow(m, size, o, MaxRefs)
       IN  IF \/ p = MDNS_INVALID_POS
              \/ mdns_is_string_ref(m[p])
              \/ size < p + 1 + m[p]
           THEN Nowhere
           ELSE [offset |-> p + 1, length |-> m[p],
                 ref |-> mdns_is_string_ref(m[o])]

Substr == mdns_get_next_substring(buffer, Size, cur)
QuerySubstr == mdns_get_next_substring(Query, QuerySize, rhs)

-----------------------------------------------------------------------------
(***************************************************************************)
(* The loops.                                                              *)
(***************************************************************************)
Init ==
  /\ call \in {"skip", "equal", "extract", "records"}
  /\ pc = IF call # "records" THEN call
          ELSE IF MaxRecords = 0 THEN "done" ELSE "skip"
  /\ buffer \in Bytes(Size)
  /\ start \in Starts /\ offset = start /\ cur = start
  /\ rhs = 0 /\ counter = 0 /\ end = MDNS_INVALID_POS
  /\ str = <<>> /\ ok = FALSE
  /\ names = <<start>> /\ parsed = <<>>

\* mdns_records_parse ignores the result of mdns_string_skip, and goes on
\* where *offset is.
Return(result, o) ==
  /\ pc' = IF call = "records" THEN "header" ELSE "done"
  /\ ok' = result
  /\ offset' = o
  /\ UNCHANGED <<input, records>>

GoOn == UNCHANGED <<input, pc, offset, ok, records>>

\* Faulty: passes are not counted.
Uncounted == counter' = counter

Counted == counter' = counter + 1

TooMany == counter > MAX_SUBSTRINGS
Unreadable(s) == s.offset = MDNS_INVALID_POS \/ TooMany

After(s) == s.offset + s.length

SkipFails ==
  /\ pc = "skip" /\ Unreadable(Substr)
  /\ Return(FALSE, offset)
  /\ UNCHANGED walk

\* A reference is the end of the name, a zero too.
SkipEnd ==
  /\ pc = "skip" /\ ~Unreadable(Substr) /\ (Substr.ref \/ Substr.length = 0)
  /\ Return(TRUE, IF Substr.ref THEN cur + 2 ELSE After(Substr) + 1)
  /\ UNCHANGED walk

SkipLabel ==
  /\ pc = "skip" /\ ~Unreadable(Substr) /\ ~Substr.ref /\ Substr.length > 0
  /\ cur' = After(Substr)
  /\ Counted
  /\ GoOn
  /\ UNCHANGED <<rhs, end, str>>

\* Faulty: a later reference moves the end once more.
EndSeen_last(s) == IF s.ref THEN cur + 2 ELSE end

\* The first reference ends the name where it began to be read.
EndSeen(s) == IF s.ref /\ end = MDNS_INVALID_POS THEN cur + 2 ELSE end

\* The end, after the last pass.
EndOr(s, zero) == IF EndSeen(s) = MDNS_INVALID_POS THEN zero + 1 ELSE EndSeen(s)

ToLower(b) == IF b \in 65 .. 90 THEN b + 32 ELSE b

\* strncasecmp stops at a NUL both have; l and r are where the labels begin.
strncasecmp(l, r, n) ==
  \E k \in 0 .. n - 1 :
    /\ ToLower(buffer[l + k]) # ToLower(Query[r + k])
    /\ \A j \in 0 .. k - 1 : Query[r + j] # 0

Differ(s, q) ==
  s.length # q.length \/ strncasecmp(s.offset, q.offset, q.length)

SameLabel == /\ ~Unreadable(Substr) /\ QuerySubstr.offset # MDNS_INVALID_POS
             /\ ~Differ(Substr, QuerySubstr)

EqualFails ==
  /\ pc = "equal" /\ ~SameLabel
  /\ Return(FALSE, offset)
  /\ UNCHANGED walk

Equal ==
  /\ pc = "equal" /\ SameLabel
  /\ IF Substr.length > 0
     THEN GoOn /\ end' = EndSeen(Substr)
     ELSE Return(TRUE, EndOr(Substr, After(Substr))) /\ UNCHANGED end
  /\ cur' = After(Substr) /\ rhs' = After(QuerySubstr)
  /\ Counted
  /\ UNCHANGED str

Cut(t) == IF Len(t) <= Capacity THEN t ELSE SubSeq(t, 1, Capacity)

\* What mdns_string_extract adds for a label: as much as fits, and a dot.
Copied(s) ==
  Cut(str \o [k \in 1 .. s.length |-> buffer[s.offset + k - 1]] \o <<46>>)

ExtractFails ==
  /\ pc = "extract" /\ Unreadable(Substr)
  /\ Return(FALSE, offset)
  /\ UNCHANGED walk

Extract ==
  /\ pc = "extract" /\ ~Unreadable(Substr)
  /\ IF Substr.length > 0
     THEN GoOn /\ str' = Copied(Substr) /\ end' = EndSeen(Substr)
     ELSE Return(TRUE, EndOr(Substr, After(Substr))) /\ UNCHANGED <<str, end>>
  /\ cur' = After(Substr)
  /\ Counted
  /\ UNCHANGED rhs

\* Faulty: the header is forgotten when what is left is computed.
Fits_header(length) == length <= Size - offset

Fits(length) == length <= Size - (offset + HeaderSize)

\* Of a record's header only the length matters; service_callback returns 0
\* for records.  A record that does not fit is passed over.
ParseRecord ==
  /\ pc = "header" /\ offset + HeaderSize <= Size
  /\ LET length == buffer[offset + HeaderSize - 1]
         data == offset + HeaderSize
     IN  /\ parsed' = IF Fits(length) THEN Append(parsed, <<data, length>>) ELSE parsed
         /\ offset' = data + length
  /\ cur' = offset' /\ counter' = 0
  /\ pc' = IF Len(names) = MaxRecords THEN "done" ELSE "skip"
  /\ names' = IF Len(names) = MaxRecords THEN names ELSE Append(names, offset')
  /\ UNCHANGED <<input, rhs, end, str, ok>>

RecordsEnd ==
  /\ pc = "header" /\ offset + HeaderSize > Size
  /\ pc' = "done"
  /\ UNCHANGED <<input, offset, walk, ok, records>>

Over == pc = "done" /\ UNCHANGED vars

Step == SkipFails \/ SkipEnd \/ SkipLabel \/ EqualFails \/ Equal
          \/ ExtractFails \/ Extract \/ ParseRecord \/ RecordsEnd

Next == Step \/ Over

Spec == Init /\ [][Next]_vars

\* It is a function call.
FairSpec == Spec /\ WF_vars(Step)

-----------------------------------------------------------------------------
(***************************************************************************)
(* Names, as RFC 1035 defines them.                                        *)
(***************************************************************************)

\* The label whose length is at p.
LabelAt(m, p) == [j \in 1 .. m[p] |-> m[p + j]]

\* The names that are read from o on in at most n labels and references: one,
\* as the sequence of its labels, or none.  A byte that begins neither a label of
\* RFC 1035 (up to 63) nor a reference (from 192) counts as a length, as in the
\* code; the RFC reserves it.
NamesAt(m, size, o, n) ==
  LET read[k \in 0 .. n] ==
        [p \in 0 .. size |->
           IF k = 0 \/ p = size THEN {}
           ELSE IF m[p] = 0 THEN {<<>>}
           ELSE IF mdns_is_string_ref(m[p])
                THEN IF p + 1 < size /\ Reference(m, p) < size
                     THEN read[k - 1][Reference(m, p)] ELSE {}
           ELSE IF p + 1 + m[p] < size
                THEN {<<LabelAt(m, p)>> \o rest : rest \in read[k - 1][p + 1 + m[p]]}
                ELSE {}]
  IN  read[n][o]

\* No name is read that visits a place twice.
AllNames(m, size, o) == NamesAt(m, size, o, size + 1)

\* The names whose length and references are within the limits of the code.
Few == 1 + IF MAX_SUBSTRINGS < MaxRefs THEN MAX_SUBSTRINGS ELSE MaxRefs

\* With a dot after each label.
Text(name) == FlattenSeq([i \in DOMAIN name |-> Append(name[i], 46)])

Folded(name) == [i \in DOMAIN name |-> [j \in DOMAIN name[i] |-> ToLower(name[i][j])]]

\* No references, and no zero before the last byte: as the code has it written.
Plain(m, size) ==
  \A k \in 0 .. size - 1 : ~mdns_is_string_ref(m[k]) /\ (m[k] = 0 => k = size - 1)

SameName(name) ==
  \E q \in AllNames(Query, QuerySize, 0) : Folded(q) = Folded(name)

\* Where a name ends that begins at o, references not followed.
EndsAt(o) ==
  LET ends[p \in 0 .. Size] ==
        IF p = Size THEN {}
        ELSE IF buffer[p] = 0 THEN {p + 1}
        ELSE IF mdns_is_string_ref(buffer[p]) THEN {p + 2}
        ELSE IF p + 1 + buffer[p] < Size THEN ends[p + 1 + buffer[p]] ELSE {}
  IN  ends[o]

-----------------------------------------------------------------------------
(***************************************************************************)
(* Properties.                                                             *)
(***************************************************************************)

\* Every call ends, also on names that refer to themselves: each loop counts
\* its passes, and mdns_get_next_substring the references.
ReadsEnd == <>(pc = "done")

\* What is read is the name RFC 1035 means, cut off at the capacity; each name
\* within the limits is read; and mdns_string_equal recognises the query,
\* whatever the case of its letters, and nothing else.
NamesAgree ==
  pc = "done" =>
    LET all == AllNames(buffer, Size, start)
        few == NamesAt(buffer, Size, start, Few)
    IN  /\ call = "extract" =>
             /\ ok => \E n \in all : str = Cut(Text(n))
             /\ few # {} => ok
        /\ call = "equal" =>
             /\ ok => \E n \in all : SameName(n)
             /\ (\E n \in few : SameName(n)) => ok

\* All three agree on where the name ends, and leave *offset alone if they
\* fail: mdns_socket_listen skips from the same place what mdns_string_equal
\* did not recognise ("Offset variables are NOT updated if strings are
\* unequal", mdns.h 376).
EndsAgree ==
  pc = "done" /\ call # "records" =>
    IF ok THEN {offset} = EndsAt(start) ELSE offset = start

\* The callback gets records that lie within the message, one after the other,
\* though names that cannot be skipped and lengths that cannot be believed are
\* not the end of it.
RecordsInside ==
  /\ \A i \in DOMAIN parsed : parsed[i][1] + parsed[i][2] <= Size
  /\ \A i, j \in DOMAIN parsed :
       i < j => parsed[i][1] + parsed[i][2] + HeaderSize <= parsed[j][1]

=============================================================================
