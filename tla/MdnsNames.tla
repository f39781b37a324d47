----------------------------- MODULE MdnsNames -----------------------------
(***************************************************************************)
(* The names of one mDNS message as lib/mdns.h writes them: label by       *)
(* label, with a reference to an earlier place of the message instead of a *)
(* tail that the string table finds there (RFC 1035, 4.1.4).               *)
(*                                                                         *)
(* A name is the sequence of its labels.  The message is a sequence of     *)
(* cells, one for each label, reference and terminating zero, and an       *)
(* offset is the index of a cell; sizes in bytes are kept where the code   *)
(* compares them with the capacity.                                        *)
(***************************************************************************)
EXTENDS Naturals, Sequences

CONSTANTS
  Names,      \* the names written, as sequences of labels
  LabelSize,  \* the length of every label
  Capacity,   \* the bytes of the buffer that are left for names
  TableSize,  \* the entries of mdns_string_table_t
  MaxNames    \* bound: names in a message

ASSUME MdnsNamesAssumption ==
  /\ \A n \in Names : n \in Seq(STRING) /\ n # <<>>
  /\ LabelSize \in Nat /\ Capacity \in Nat /\ MaxNames \in Nat
  /\ TableSize \in Nat \ {0}

VARIABLES
  cells,   \* the message so far
  used,    \* its bytes
  offset,  \* string_table->offset, 0 where nothing was entered yet
  count,   \* string_table->count
  next,    \* string_table->next, from 1
  todo,    \* the labels of the current name that are still to be written
  written, \* the names of the message and where each begins
  state    \* "idle" between two names, "name" within one, "failed"

table == <<offset, count, next>>
vars == <<cells, used, table, todo, written, state>>

Label(l) == [kind |-> "label", is |-> l]
Ref(i)   == [kind |-> "ref", to |-> i]
End      == [kind |-> "end"]

TypeOK ==
  /\ \A i \in 1 .. Len(cells) :
       cells[i].kind = "ref" => cells[i].to \in 1 .. i - 1
  /\ used \in 0 .. Capacity
  /\ offset \in [1 .. TableSize -> 0 .. Len(cells)]
  /\ count \in 0 .. TableSize /\ next \in 1 .. TableSize
  /\ state \in {"idle", "name", "failed"}

Init ==
  /\ cells = <<>> /\ used = 0
  /\ offset = [i \in 1 .. TableSize |-> 0] /\ count = 0 /\ next = 1
  /\ todo = <<>> /\ written = <<>> /\ state = "idle"

-----------------------------------------------------------------------------
(***************************************************************************)
(* Reading.                                                                *)
(***************************************************************************)

\* mdns_get_next_substring: where the label at i really is.  References only
\* ever lead to labels, so there is no chain of them to follow.
Target(i) == IF i <= Len(cells) /\ cells[i].kind = "ref" THEN cells[i].to ELSE i

\* The places of n successive labels from i on.
Walk(i, n) ==
  LET at[k \in 1 .. n] == IF k = 1 THEN Target(i) ELSE Target(at[k - 1] + 1)
  IN  at

HasLabel(i, l) == i <= Len(cells) /\ cells[i] = Label(l)

\* A name that is read from i on is exactly this one.
Spells(i, name) ==
  LET at == Walk(i, Len(name) + 1)
  IN  /\ \A k \in 1 .. Len(name) : HasLabel(at[k], name[k])
      /\ at[Len(name) + 1] <= Len(cells) /\ cells[at[Len(name) + 1]] = End

-----------------------------------------------------------------------------
(***************************************************************************)
(* Writing.                                                                *)
(***************************************************************************)

\* Faulty: only the first label is compared.
MatchesFirst(i, name, stale) == HasLabel(i, name[1])

\* The comparison of mdns_string_table_find: the labels of the name, one by
\* one, against those from i on.  Of a name that is still being written the
\* buffer has no end yet, and what is read there is left from an earlier
\* message: stale says whether it matches, here for all entries alike, of which
\* none can match in that way if the names are Unambiguous.
Matches(i, name, stale) ==
  LET at == Walk(i, Len(name))
  IN  \A k \in 1 .. Len(name) :
        HasLabel(at[k], name[k]) \/ (at[k] > Len(cells) /\ stale)

\* The first entry of the table that matches, or 0.
mdns_string_table_find(name, stale) ==
  LET found == {e \in 1 .. count : Matches(offset[e], name, stale)}
  IN  IF found = {} THEN 0
      ELSE offset[CHOOSE e \in found : \A f \in found : e <= f]

\* Faulty: the count is not capped.
mdns_string_table_add_uncapped(i) ==
  /\ offset' = [offset EXCEPT ![next] = i]
  /\ count' = count + 1
  /\ next' = IF next = TableSize THEN 1 ELSE next + 1

mdns_string_table_add(i) ==
  /\ offset' = [offset EXCEPT ![next] = i]
  /\ count' = IF count = TableSize THEN count ELSE count + 1
  /\ next' = IF next = TableSize THEN 1 ELSE next + 1

remain == Capacity - used

Write(cell, size) ==
  /\ cells' = Append(cells, cell)
  /\ used' = used + size

\* There is no room: mdns_string_make returns 0 and the message is given up.
Fail ==
  /\ state' = "failed"
  /\ UNCHANGED <<cells, used, table, todo, written>>

BeginName ==
  /\ state = "idle" /\ Len(written) < MaxNames
  /\ \E n \in Names :
       /\ todo' = n
       /\ written' = Append(written, [name |-> n, at |-> Len(cells) + 1])
  /\ state' = "name"
  /\ UNCHANGED <<cells, used, table>>

\* The rest of the name is there already.
WriteRef ==
  /\ state = "name" /\ todo # <<>>
  /\ \E stale \in BOOLEAN :
       LET ref == mdns_string_table_find(todo, stale)
       IN  /\ ref # 0
           /\ IF remain < 2 THEN Fail
              ELSE /\ Write(Ref(ref), 2)
                   /\ todo' = <<>> /\ state' = "idle"
                   /\ UNCHANGED <<table, written>>

WriteLabel ==
  /\ state = "name" /\ todo # <<>>
  /\ \E stale \in BOOLEAN : mdns_string_table_find(todo, stale) = 0
  /\ IF remain <= LabelSize + 1 THEN Fail
     ELSE /\ Write(Label(Head(todo)), LabelSize + 1)
          /\ mdns_string_table_add(Len(cells) + 1)
          /\ todo' = Tail(todo)
          /\ UNCHANGED <<written, state>>

WriteEnd ==
  /\ state = "name" /\ todo = <<>>
  /\ IF remain = 0 THEN Fail
     ELSE /\ Write(End, 1)
          /\ state' = "idle"
          /\ UNCHANGED <<table, todo, written>>

\* The next message starts with an empty table.
NewMessage ==
  /\ state \in {"idle", "failed"} /\ written # <<>>
  /\ cells' = <<>> /\ used' = 0
  /\ offset' = [i \in 1 .. TableSize |-> 0] /\ count' = 0 /\ next' = 1
  /\ todo' = <<>> /\ written' = <<>> /\ state' = "idle"

Next == BeginName \/ WriteRef \/ WriteLabel \/ WriteEnd \/ NewMessage

Spec == Init /\ [][Next]_vars

-----------------------------------------------------------------------------
(***************************************************************************)
(* Whatever order names are written in, and whatever the ring has          *)
(* forgotten, each name that was completed is read back as it was given    *)
(* ("Return reference offset if entire string matches").                   *)
(***************************************************************************)
RoundTrip ==
  \A k \in 1 .. Len(written) :
    k < Len(written) \/ state = "idle" => Spells(written[k].at, written[k].name)

\* Names that cannot be mistaken for one another while they are compared with
\* what is there: no label occurs twice in one, and what remains of one at some
\* label never begins what remains of another.
Unambiguous(names) ==
  /\ \A n \in names : \A i, j \in DOMAIN n : n[i] = n[j] => i = j
  /\ \A m, n \in names : \A i \in DOMAIN m, j \in DOMAIN n :
       /\ Len(m) - i <= Len(n) - j
       /\ \A k \in 0 .. Len(m) - i : m[i + k] = n[j + k]
       => Len(m) - i = Len(n) - j

=============================================================================
