-------------------------- MODULE MdnsNamesProofs --------------------------
(***************************************************************************)
(* The bounds of MdnsNames for any names, buffer and table: the message    *)
(* stays within its buffer, the table within its entries, and a reference  *)
(* leads back to a place already written, so following references ends.    *)
(* Then that what was written is read back, for names that cannot be       *)
(* mistaken for one another.                                               *)
(***************************************************************************)
EXTENDS MdnsNames, WellFoundedInduction, SequenceTheorems, TLAPS

Cell == [kind: {"label"}, is: STRING] \cup [kind: {"ref"}, to: Nat] \cup [kind: {"end"}]

\* The entries of the table, and with them all references, lead to labels.
RefsToLabels ==
  \A i \in 1 .. Len(cells) : cells[i].kind = "ref" =>
    cells[i].to \in 1 .. i - 1 /\ cells[cells[i].to].kind = "label"

TableToLabels ==
  \A e \in 1 .. TableSize : offset[e] # 0 => cells[offset[e]].kind = "label"

NamesInv ==
  /\ TypeOK /\ RefsToLabels /\ TableToLabels
  /\ cells \in Seq(Cell)
  /\ todo \in Seq(STRING)

\* A set of numbers has a least one.
LEMMA Least ==
  ASSUME NEW T, T \subseteq Nat, T # {}
  PROVE  \E x \in T : \A y \in T : x <= y
<1> DEFINE R == OpToRel(<, Nat)
<1>1. IsWellFoundedOn(R, Nat)
  BY NatLessThanWellFounded
<1>2. PICK x \in T : \A y \in T : ~(<<y, x>> \in R)
  <2> HIDE DEF R
  <2> QED
    BY <1>1, WFMin
<1>3. \A y \in T : ~(y < x)
  BY <1>2 DEF OpToRel
<1> QED
  BY <1>3

\* The entries of the ring that find looks at are places of the message.
LEMMA FindsPlace ==
  ASSUME NamesInv, NEW name, NEW stale
  PROVE  /\ mdns_string_table_find(name, stale) \in 0 .. Len(cells)
         /\ mdns_string_table_find(name, stale) # 0 =>
              /\ cells[mdns_string_table_find(name, stale)].kind = "label"
              /\ Matches(mdns_string_table_find(name, stale), name, stale)
<1> DEFINE found == {e \in 1 .. count : Matches(offset[e], name, stale)}
           e == CHOOSE e \in found : \A f \in found : e <= f
<1>1. CASE found = {}
  BY <1>1 DEF mdns_string_table_find, NamesInv
<1>2. CASE found # {}
  <2>1. found \subseteq 1 .. TableSize /\ found \subseteq Nat /\ found \subseteq 1 .. count
    BY MdnsNamesAssumption DEF NamesInv, TypeOK
  <2>2. \E x \in found : \A y \in found : x <= y
    <3> HIDE DEF found
    <3> QED
      BY <1>2, <2>1, Least
  <2>3. e \in found
    BY <2>2
  <2>4. /\ offset[e] \in 0 .. Len(cells) /\ Matches(offset[e], name, stale)
        /\ offset[e] # 0 => cells[offset[e]].kind = "label"
    BY <2>1, <2>3 DEF NamesInv, TypeOK, TableToLabels
  <2> QED
    BY <1>2, <2>4 DEF mdns_string_table_find
<1> QED
  BY <1>1, <1>2

\* A cell of the right kind is appended.
LEMMA WriteKeeps ==
  ASSUME NamesInv, NEW c \in Cell, NEW size \in Nat, Write(c, size), size <= remain,
         c.kind = "ref" => c.to \in 1 .. Len(cells) /\ cells[c.to].kind = "label"
  PROVE  /\ cells' \in Seq(Cell) /\ RefsToLabels' /\ used' \in 0 .. Capacity
         /\ Len(cells') = Len(cells) + 1 /\ cells'[Len(cells) + 1] = c
         /\ \A i \in 1 .. Len(cells) : cells'[i] = cells[i]
<1>1. /\ cells \in Seq(Cell) /\ Len(cells) \in Nat /\ cells' = Append(cells, c)
  BY DEF NamesInv, Write
<1>2. /\ cells' \in Seq(Cell) /\ Len(cells') = Len(cells) + 1
      /\ cells'[Len(cells) + 1] = c
      /\ \A i \in 1 .. Len(cells) : cells'[i] = cells[i]
  BY <1>1
<1>3. used' \in 0 .. Capacity
  BY MdnsNamesAssumption DEF Write, remain, NamesInv, TypeOK
<1>4. RefsToLabels'
  <2> SUFFICES ASSUME NEW i \in 1 .. Len(cells'), cells'[i].kind = "ref"
               PROVE  cells'[i].to \in 1 .. i - 1 /\ cells'[cells'[i].to].kind = "label"
    BY DEF RefsToLabels
  <2>1. CASE i = Len(cells) + 1
    <3>1. cells'[i] = c
      BY <1>2, <2>1
    <3> QED
      BY <1>1, <1>2, <2>1, <3>1
  <2>2. CASE i # Len(cells) + 1
    <3>1. i \in 1 .. Len(cells) /\ cells'[i] = cells[i]
      BY <1>1, <1>2, <2>2
    <3>2. cells[i].to \in 1 .. i - 1 /\ cells[cells[i].to].kind = "label"
      BY <3>1 DEF NamesInv, RefsToLabels
    <3>3. cells[i].to \in 1 .. Len(cells)
      BY <1>1, <3>1, <3>2
    <3> QED
      BY <1>2, <3>1, <3>2, <3>3
  <2> QED
    BY <2>1, <2>2
<1> QED
  BY <1>2, <1>3, <1>4

LEMMA NamesInit == Init => NamesInv
<1> SUFFICES ASSUME Init PROVE NamesInv
  OBVIOUS
<1> USE MdnsNamesAssumption
<1>1. cells \in Seq(Cell) /\ todo \in Seq(STRING) /\ Len(cells) = 0
  BY DEF Init
<1>2. offset \in [1 .. TableSize -> 0 .. Len(cells)] /\ TableToLabels
  BY <1>1 DEF Init, TableToLabels
<1>3. RefsToLabels
  BY <1>1 DEF RefsToLabels
<1>4. used \in 0 .. Capacity /\ count \in 0 .. TableSize /\ next \in 1 .. TableSize
      /\ state \in {"idle", "name", "failed"}
  BY DEF Init
<1> QED
  BY <1>1, <1>2, <1>3, <1>4 DEF NamesInv, TypeOK, RefsToLabels

LEMMA NamesStep == NamesInv /\ [Next]_vars => NamesInv'
<1> SUFFICES ASSUME NamesInv, [Next]_vars PROVE NamesInv'
  OBVIOUS
<1>1. /\ cells \in Seq(Cell) /\ Len(cells) \in Nat /\ todo \in Seq(STRING)
      /\ offset \in [1 .. TableSize -> 0 .. Len(cells)]
      /\ count \in 0 .. TableSize /\ next \in 1 .. TableSize
      /\ TableSize \in Nat /\ TableSize # 0
      /\ used \in 0 .. Capacity /\ Capacity \in Nat /\ LabelSize \in Nat
      /\ RefsToLabels /\ TableToLabels
  BY MdnsNamesAssumption DEF NamesInv, TypeOK
<1>2. CASE UNCHANGED <<cells, used, table>> /\ todo' \in Seq(STRING)
           /\ state' \in {"idle", "name", "failed"}
  BY <1>2 DEF NamesInv, TypeOK, RefsToLabels, TableToLabels, table
<1>3. Fail => NamesInv'
  BY <1>1, <1>2 DEF Fail
<1>4. CASE BeginName
  <2>1. todo' \in Seq(STRING)
    BY <1>4, MdnsNamesAssumption DEF BeginName
  <2> QED
    BY <1>2, <1>4, <2>1 DEF BeginName
<1>5. CASE WriteRef /\ ~Fail
  <2>1. PICK stale \in BOOLEAN :
          /\ mdns_string_table_find(todo, stale) # 0
          /\ remain >= 2 /\ Write(Ref(mdns_string_table_find(todo, stale)), 2)
          /\ todo' = <<>> /\ state' = "idle" /\ UNCHANGED table
    BY <1>1, <1>5 DEF WriteRef, remain
  <2> DEFINE ref == mdns_string_table_find(todo, stale)
  <2>2. ref \in 1 .. Len(cells) /\ cells[ref].kind = "label"
    BY <1>1, <2>1, FindsPlace
  <2> HIDE DEF ref
  <2>3. /\ Ref(ref) \in Cell /\ Ref(ref).kind = "ref" /\ Ref(ref).to = ref
    BY <2>2 DEF Ref, Cell
  <2>4. Write(Ref(ref), 2)
    BY <2>1 DEF ref
  <2>5. /\ cells' \in Seq(Cell) /\ RefsToLabels' /\ used' \in 0 .. Capacity
        /\ Len(cells') = Len(cells) + 1
        /\ \A i \in 1 .. Len(cells) : cells'[i] = cells[i]
    BY <1>1, <2>1, <2>2, <2>3, <2>4, WriteKeeps
  <2>6. /\ UNCHANGED <<offset, count, next>>
        /\ offset' \in [1 .. TableSize -> 0 .. Len(cells')] /\ TableToLabels'
    <3>1. UNCHANGED <<offset, count, next>>
      BY <2>1 DEF table
    <3>2. offset' \in [1 .. TableSize -> 0 .. Len(cells')]
      BY <1>1, <2>5, <3>1
    <3>3. ASSUME NEW e \in 1 .. TableSize, offset[e] # 0 PROVE cells'[offset[e]].kind = "label"
      <4>1. offset[e] \in 1 .. Len(cells)
        BY <1>1, <3>3
      <4> QED
        BY <1>1, <2>5, <3>3, <4>1 DEF TableToLabels
    <3> QED
      BY <3>1, <3>2, <3>3 DEF TableToLabels
  <2> QED
    BY <1>1, <2>1, <2>5, <2>6 DEF NamesInv, TypeOK, RefsToLabels
<1>6. CASE WriteLabel /\ ~Fail
  <2>1. /\ remain > LabelSize + 1 /\ todo # <<>>
        /\ Write(Label(Head(todo)), LabelSize + 1)
        /\ mdns_string_table_add(Len(cells) + 1)
        /\ todo' = Tail(todo) /\ state' = "name"
    BY <1>1, <1>6 DEF WriteLabel, remain
  <2>2. Head(todo) \in STRING /\ todo' \in Seq(STRING)
    BY <1>1, <2>1
  <2>3. Label(Head(todo)) \in Cell /\ Label(Head(todo)).kind = "label"
    BY <2>2 DEF Label, Cell
  <2>4. /\ cells' \in Seq(Cell) /\ RefsToLabels' /\ used' \in 0 .. Capacity
        /\ Len(cells') = Len(cells) + 1 /\ cells'[Len(cells) + 1].kind = "label"
        /\ \A i \in 1 .. Len(cells) : cells'[i] = cells[i]
    <3>1. LabelSize + 1 \in Nat /\ LabelSize + 1 <= remain
      BY <1>1, <2>1 DEF remain
    <3> HIDE <1>1
    <3> QED
      BY <2>1, <2>3, <3>1, WriteKeeps
  <2>5. /\ offset' = [offset EXCEPT ![next] = Len(cells) + 1]
        /\ count' \in 0 .. TableSize /\ next' \in 1 .. TableSize
    BY <1>1, <2>1 DEF mdns_string_table_add
  <2>6. offset' \in [1 .. TableSize -> 0 .. Len(cells')]
    BY <1>1, <2>4, <2>5
  <2>7. TableToLabels'
    <3> SUFFICES ASSUME NEW e \in 1 .. TableSize, offset'[e] # 0
                 PROVE  cells'[offset'[e]].kind = "label"
      BY DEF TableToLabels
    <3>1. CASE e = next
      BY <1>1, <2>4, <2>5, <3>1
    <3>2. CASE e # next
      <4>1. offset'[e] = offset[e] /\ offset[e] \in 1 .. Len(cells)
        BY <1>1, <2>5, <3>2
      <4> QED
        BY <1>1, <2>4, <4>1 DEF TableToLabels
    <3> QED
      BY <3>1, <3>2
  <2> QED
    BY <2>1, <2>2, <2>4, <2>5, <2>6, <2>7 DEF NamesInv, TypeOK, RefsToLabels
<1>7. CASE WriteEnd /\ ~Fail
  <2>1. /\ 1 <= remain /\ Write(End, 1) /\ state' = "idle" /\ UNCHANGED <<table, todo>>
    BY <1>1, <1>7 DEF WriteEnd, remain
  <2>2. End \in Cell /\ End.kind # "ref"
    BY DEF End, Cell
  <2>3. /\ cells' \in Seq(Cell) /\ RefsToLabels' /\ used' \in 0 .. Capacity
        /\ Len(cells') = Len(cells) + 1
        /\ \A i \in 1 .. Len(cells) : cells'[i] = cells[i]
    BY <2>1, <2>2, WriteKeeps
  <2>4. /\ UNCHANGED <<offset, count, next>>
        /\ offset' \in [1 .. TableSize -> 0 .. Len(cells')] /\ TableToLabels'
    BY <1>1, <2>1, <2>3 DEF table, TableToLabels
  <2> QED
    BY <1>1, <2>1, <2>3, <2>4 DEF NamesInv, TypeOK, RefsToLabels
<1>8. CASE NewMessage
  <2>1. /\ cells' = <<>> /\ used' = 0 /\ offset' = [i \in 1 .. TableSize |-> 0]
        /\ count' = 0 /\ next' = 1 /\ todo' = <<>> /\ state' = "idle"
    BY <1>8 DEF NewMessage
  <2>2. cells' \in Seq(Cell) /\ todo' \in Seq(STRING) /\ Len(cells') = 0
    BY <2>1
  <2>3. offset' \in [1 .. TableSize -> 0 .. Len(cells')] /\ TableToLabels'
    BY <2>1, <2>2 DEF TableToLabels
  <2>4. RefsToLabels'
    BY <2>2 DEF RefsToLabels
  <2>5. used' \in 0 .. Capacity /\ count' \in 0 .. TableSize /\ next' \in 1 .. TableSize
        /\ state' \in {"idle", "name", "failed"}
    BY <1>1, <2>1
  <2> QED
    BY <2>2, <2>3, <2>4, <2>5 DEF NamesInv, TypeOK, RefsToLabels
<1>9. CASE UNCHANGED vars
  BY <1>1, <1>2, <1>9 DEF vars, NamesInv, TypeOK
<1> QED
  BY <1>3, <1>4, <1>5, <1>6, <1>7, <1>8, <1>9 DEF Next

\* mdns_string_make never writes past the buffer, the ring never names a place
\* beyond the message, and references lead backwards.
THEOREM StaysInside == Spec => []TypeOK
<1>1. NamesInv => TypeOK
  BY DEF NamesInv
<1> QED
  BY <1>1, NamesInit, NamesStep, PTL DEF Spec

\* A reference never leads to another: mdns_string_table_add is called for
\* labels only, so the reader has no chain to follow.
THEOREM NoChains == Spec => []RefsToLabels
<1>1. NamesInv => RefsToLabels
  BY DEF NamesInv
<1> QED
  BY <1>1, NamesInit, NamesStep, PTL DEF Spec

-----------------------------------------------------------------------------
(***************************************************************************)
(* Reading.                                                                *)
(***************************************************************************)

\* A set of numbers with zero and the successors of its members has them all.
LEMMA AllNumbers ==
  ASSUME NEW T, 0 \in T, \A n \in T \cap Nat : n + 1 \in T
  PROVE  Nat \subseteq T
<1> DEFINE U == Nat \ T
<1> SUFFICES ASSUME U # {} PROVE FALSE
  OBVIOUS
<1>1. U \subseteq Nat
  OBVIOUS
<1>2. PICK x \in U : \A y \in U : x <= y
  <2> HIDE DEF U
  <2> QED
    BY <1>1, Least
<1>3. x \in Nat /\ x # 0 /\ x - 1 \in Nat /\ ~(x <= x - 1)
  OBVIOUS
<1>4. x - 1 \in T
  BY <1>2, <1>3
<1>5. (x - 1) + 1 \in T
  BY <1>3, <1>4
<1> QED
  BY <1>2, <1>3, <1>5

\* f is where n successive labels from p on really are.
Trace(f, p, n) ==
  /\ f \in [1 .. n -> Nat \ {0}]
  /\ n >= 1 => f[1] = Target(p)
  /\ \A k \in 2 .. n : f[k] = Target(f[k - 1] + 1)

LEMMA TargetType ==
  ASSUME cells \in Seq(Cell), RefsToLabels, NEW p \in Nat \ {0} PROVE Target(p) \in Nat \ {0}
<1>1. CASE p <= Len(cells) /\ cells[p].kind = "ref"
  <2>1. cells[p] \in Cell
    BY <1>1
  <2> QED
    BY <1>1, <2>1 DEF Target, Cell, RefsToLabels
<1>2. CASE ~(p <= Len(cells) /\ cells[p].kind = "ref")
  BY <1>2 DEF Target
<1> QED
  BY <1>1, <1>2

\* There is such an f for every length.
LEMMA TraceExists ==
  ASSUME cells \in Seq(Cell), RefsToLabels, NEW p \in Nat \ {0}
  PROVE  \A n \in Nat : \E f : Trace(f, p, n)
<1> DEFINE T == {n \in Nat : \E f : Trace(f, p, n)}
<1>1. 0 \in T
  <2>1. Trace([k \in 1 .. 0 |-> 0], p, 0)
    BY DEF Trace
  <2> QED
    BY <2>1
<1>2. ASSUME NEW n \in T PROVE n + 1 \in T
  <2>1. PICK f : Trace(f, p, n)
    BY <1>2
  <2> DEFINE last == IF n = 0 THEN Target(p) ELSE Target(f[n] + 1)
             g == [k \in 1 .. n + 1 |-> IF k = n + 1 THEN last ELSE f[k]]
  <2>2. last \in Nat \ {0}
    <3>1. n # 0 => f[n] + 1 \in Nat \ {0}
      BY <2>1 DEF Trace
    <3> QED
      BY <3>1, TargetType
  <2> HIDE DEF last
  <2>3. g \in [1 .. n + 1 -> Nat \ {0}]
    BY <2>1, <2>2 DEF Trace
  <2>4. g[n + 1] = last /\ \A k \in 1 .. n : g[k] = f[k]
    OBVIOUS
  <2> HIDE DEF g
  <2>5. g[1] = Target(p)
    BY <2>1, <2>4 DEF Trace, last
  <2>6. ASSUME NEW k \in 2 .. n + 1 PROVE g[k] = Target(g[k - 1] + 1)
    <3>1. k - 1 \in 1 .. n
      OBVIOUS
    <3>2. CASE k = n + 1
      BY <2>4, <3>1, <3>2 DEF last
    <3>3. CASE k # n + 1
      <4>1. k \in 2 .. n /\ k \in 1 .. n
        BY <3>3
      <4>2. g[k] = f[k] /\ g[k - 1] = f[k - 1]
        BY <2>4, <3>1, <4>1
      <4> QED
        BY <2>1, <4>1, <4>2 DEF Trace
    <3> QED
      BY <3>2, <3>3
  <2>7. Trace(g, p, n + 1)
    BY <2>3, <2>5, <2>6 DEF Trace
  <2> QED
    BY <2>7
<1> HIDE DEF T
<1>3. Nat \subseteq T
  BY <1>1, <1>2, AllNumbers
<1> QED
  BY <1>3 DEF T

LEMMA WalkTraces ==
  ASSUME cells \in Seq(Cell), RefsToLabels, NEW p \in Nat \ {0}, NEW n \in Nat
  PROVE  Trace(Walk(p, n), p, n)
<1> DEFINE W(f) == [k \in 1 .. n |-> IF k = 1 THEN Target(p) ELSE Target(f[k - 1] + 1)]
           w == Walk(p, n)
<1>1. PICK f : Trace(f, p, n)
  BY TraceExists
<1>2. f = W(f)
  BY <1>1 DEF Trace
<1>3. w = CHOOSE g : g = W(g)
  BY DEF Walk
<1>4. w = W(w)
  BY <1>2, <1>3
<1> HIDE DEF w
<1> DEFINE T == {k \in Nat : k + 1 \in 1 .. n => w[k + 1] \in Nat \ {0}}
<1>5. 0 \in T
  BY <1>4, TargetType
<1>6. ASSUME NEW k \in T PROVE k + 1 \in T
  <2>1. CASE (k + 1) + 1 \in 1 .. n
    <3>1. w[k + 1] + 1 \in Nat \ {0}
      BY <1>6, <2>1
    <3>2. w[(k + 1) + 1] = Target(w[k + 1] + 1)
      BY <1>4, <1>6, <2>1
    <3> QED
      BY <1>6, <3>1, <3>2, TargetType
  <2> QED
    BY <1>6, <2>1
<1> HIDE DEF T
<1>7. Nat \subseteq T
  BY <1>5, <1>6, AllNumbers
<1>8. ASSUME NEW k \in 1 .. n PROVE w[k] \in Nat \ {0}
  <2>1. k - 1 \in T /\ (k - 1) + 1 = k
    BY <1>7
  <2> QED
    BY <2>1 DEF T
<1>9. w \in [1 .. n -> Nat \ {0}] /\ (n >= 1 => w[1] = Target(p))
      /\ \A k \in 2 .. n : w[k] = Target(w[k - 1] + 1)
  <2> DEFINE F(k) == IF k = 1 THEN Target(p) ELSE Target(w[k - 1] + 1)
  <2>1. w = [k \in 1 .. n |-> F(k)]
    BY <1>4
  <2>2. \A k \in 2 .. n : F(k) = Target(w[k - 1] + 1)
    OBVIOUS
  <2>3. F(1) = Target(p)
    OBVIOUS
  <2> HIDE DEF F
  <2> QED
    BY <1>8, <2>1, <2>2, <2>3
<1> QED
  BY <1>9 DEF Trace, w

\* Two of them agree as far as the shorter one goes.
LEMMA TraceUnique ==
  ASSUME NEW p, NEW n \in Nat, NEW m \in Nat, NEW f, NEW g, Trace(f, p, n), Trace(g, p, m)
  PROVE  \A k \in 1 .. n : k <= m => f[k] = g[k]
<1> DEFINE T == {k \in Nat : k + 1 \in 1 .. n /\ k + 1 <= m => f[k + 1] = g[k + 1]}
<1>1. 0 \in T
  BY DEF Trace
<1>2. ASSUME NEW k \in T PROVE k + 1 \in T
  <2>1. CASE (k + 1) + 1 \in 1 .. n /\ (k + 1) + 1 <= m
    <3>1. (k + 1) + 1 \in 2 .. n /\ (k + 1) + 1 \in 2 .. m /\ ((k + 1) + 1) - 1 = k + 1
      BY <1>2, <2>1
    <3>2. f[k + 1] = g[k + 1]
      BY <1>2, <2>1
    <3>3. f[(k + 1) + 1] = Target(f[k + 1] + 1) /\ g[(k + 1) + 1] = Target(g[k + 1] + 1)
      BY <3>1 DEF Trace
    <3> QED
      BY <1>2, <3>2, <3>3
  <2> QED
    BY <1>2, <2>1
<1> HIDE DEF T
<1>3. Nat \subseteq T
  BY <1>1, <1>2, AllNumbers
<1> SUFFICES ASSUME NEW k \in 1 .. n, k <= m PROVE f[k] = g[k]
  OBVIOUS
<1>4. k - 1 \in T /\ (k - 1) + 1 = k
  BY <1>3
<1> QED
  BY <1>4 DEF T

\* s is what is read from p on.
Reads(p, s) ==
  \E f : /\ Trace(f, p, Len(s) + 1)
         /\ \A k \in 1 .. Len(s) : HasLabel(f[k], s[k])
         /\ f[Len(s) + 1] <= Len(cells) /\ cells[f[Len(s) + 1]] = End

LEMMA ReadsSpells ==
  ASSUME cells \in Seq(Cell), RefsToLabels, NEW p \in Nat \ {0},
         NEW s \in Seq(STRING), Reads(p, s)
  PROVE  Spells(p, s)
<1> DEFINE n == Len(s) + 1
           w == Walk(p, n)
<1>1. n \in Nat /\ n \in 1 .. n /\ \A k \in 1 .. Len(s) : k \in 1 .. n /\ k <= n
  OBVIOUS
<1>2. PICK f : /\ Trace(f, p, n)
               /\ \A k \in 1 .. Len(s) : HasLabel(f[k], s[k])
               /\ f[n] <= Len(cells) /\ cells[f[n]] = End
  BY DEF Reads
<1>3. Trace(w, p, n)
  <2> HIDE DEF n
  <2> QED
    BY <1>1, WalkTraces
<1> HIDE DEF n, w
<1>4. \A k \in 1 .. n : k <= n => w[k] = f[k]
  BY <1>1, <1>2, <1>3, TraceUnique
<1>5. \A k \in 1 .. n : w[k] = f[k]
  BY <1>1, <1>4
<1>6. \A k \in 1 .. Len(s) : HasLabel(w[k], s[k])
  BY <1>1, <1>2, <1>5
<1>7. w[n] <= Len(cells) /\ cells[w[n]] = End
  BY <1>1, <1>2, <1>5
<1> QED
  BY <1>6, <1>7 DEF Spells, w, n

\* A label, a reference and the end are not one another.
LEMMA CellKinds ==
  /\ \A l, m : Label(l) = Label(m) => l = m
  /\ \A l : Label(l) # End /\ Label(l).kind = "label"
  /\ End.kind = "end" /\ \A i : Ref(i).kind = "ref" /\ Ref(i).to = i
<1>1. \A l : Label(l).kind = "label" /\ Label(l).is = l
  BY DEF Label
<1>2. End.kind = "end"
  BY DEF End
<1> QED
  BY <1>1, <1>2 DEF Ref

\* What has been written is read as before when the message grows.
LEMMA ReadsGrows ==
  ASSUME cells \in Seq(Cell), NEW c \in Cell, cells' = Append(cells, c),
         NEW p \in Nat \ {0}, NEW s \in Seq(STRING), Reads(p, s)
  PROVE  Reads(p, s)'
<1> DEFINE n == Len(s) + 1
<1>1. PICK f : /\ Trace(f, p, n)
               /\ \A k \in 1 .. Len(s) : HasLabel(f[k], s[k])
               /\ f[n] <= Len(cells) /\ cells[f[n]] = End
  BY DEF Reads
<1>2. /\ Len(cells') = Len(cells) + 1 /\ Len(cells) \in Nat
      /\ \A i \in 1 .. Len(cells) : cells'[i] = cells[i]
  OBVIOUS
<1>3. n \in Nat /\ n >= 1 /\ \A k \in 1 .. n : k \in 1 .. Len(s) \/ k = n
  OBVIOUS
<1> HIDE DEF n
<1>4. ASSUME NEW k \in 1 .. n PROVE f[k] \in 1 .. Len(cells) /\ cells'[f[k]] = cells[f[k]]
  <2>1. f[k] \in Nat \ {0}
    BY <1>1 DEF Trace
  <2>2. f[k] <= Len(cells)
    BY <1>1, <1>3 DEF HasLabel
  <2> QED
    BY <1>2, <2>1, <2>2
<1>5. ASSUME NEW q \in Nat \ {0}, Target(q) <= Len(cells) PROVE Target(q)' = Target(q)
  <2>1. q <= Len(cells)
    BY <1>2, <1>5 DEF Target
  <2> QED
    BY <1>2, <2>1 DEF Target
<1>6. f[1] = Target(p)' /\ \A k \in 2 .. n : f[k] = Target(f[k - 1] + 1)'
  <2>1. f[1] = Target(p) /\ f[1] <= Len(cells)
    BY <1>1, <1>3, <1>4 DEF Trace
  <2>2. ASSUME NEW k \in 2 .. n PROVE f[k] = Target(f[k - 1] + 1)'
    <3>1. k \in 1 .. n /\ k - 1 \in 1 .. n
      BY <1>3
    <3>2. f[k] = Target(f[k - 1] + 1) /\ f[k] <= Len(cells) /\ f[k - 1] + 1 \in Nat \ {0}
      BY <1>1, <1>2, <1>4, <3>1 DEF Trace
    <3> QED
      BY <1>5, <3>2
  <2> QED
    BY <1>5, <2>1, <2>2
<1>7. Trace(f, p, n)'
  BY <1>1, <1>6 DEF Trace
<1>8. \A k \in 1 .. Len(s) : HasLabel(f[k], s[k])'
  <2> SUFFICES ASSUME NEW k \in 1 .. Len(s) PROVE HasLabel(f[k], s[k])'
    OBVIOUS
  <2>1. k \in 1 .. n
    BY DEF n
  <2>2. f[k] <= Len(cells) /\ cells[f[k]] = Label(s[k])
    BY <1>1 DEF HasLabel
  <2> QED
    BY <1>2, <1>4, <2>1, <2>2 DEF HasLabel
<1>9. f[n] <= Len(cells') /\ cells'[f[n]] = End
  BY <1>1, <1>2, <1>3, <1>4
<1> QED
  BY <1>7, <1>8, <1>9 DEF Reads, n

\* How a name is put together: its end, a reference to it, a label before it.
LEMMA ReadsEnd ==
  ASSUME cells' \in Seq(Cell), NEW p \in 1 .. Len(cells'), cells'[p] = End
  PROVE  Reads(p, <<>>)'
<1> DEFINE f == [k \in 1 .. 1 |-> p]
<1>1. Target(p)' = p
  BY CellKinds DEF Target
<1>2. Trace(f, p, 1)'
  BY <1>1 DEF Trace
<1>3. f[1] = p
  OBVIOUS
<1> HIDE DEF f
<1>4. Len(<<>>) + 1 = 1 /\ \A k \in 1 .. Len(<<>>) : FALSE
  OBVIOUS
<1>5. Trace(f, p, Len(<<>>) + 1)' /\ f[Len(<<>>) + 1] = p
  BY <1>2, <1>3, <1>4
<1> QED
  BY <1>4, <1>5 DEF Reads

LEMMA ReadsRef ==
  ASSUME cells' \in Seq(Cell), NEW p \in 1 .. Len(cells'), NEW q \in 1 .. Len(cells'),
         NEW s \in Seq(STRING), cells'[p] = Ref(q), cells'[q].kind = "label", Reads(q, s)'
  PROVE  Reads(p, s)'
<1>1. Target(p)' = q /\ Target(q)' = q
  BY CellKinds DEF Target
<1>2. ASSUME NEW f, NEW n, Trace(f, q, n)' PROVE Trace(f, p, n)'
  BY <1>1, <1>2 DEF Trace
<1> QED
  BY <1>2 DEF Reads

LEMMA ReadsLabel ==
  ASSUME cells' \in Seq(Cell), NEW p \in 1 .. Len(cells'), NEW l \in STRING,
         NEW s \in Seq(STRING), cells'[p] = Label(l), Reads(p + 1, s)'
  PROVE  Reads(p, <<l>> \o s)'
<1> DEFINE n == Len(s) + 1
           t == <<l>> \o s
<1>1. PICK f : /\ Trace(f, p + 1, n)'
               /\ \A k \in 1 .. Len(s) : HasLabel(f[k], s[k])'
               /\ f[n] <= Len(cells') /\ cells'[f[n]] = End
  BY DEF Reads
<1> DEFINE g == [k \in 1 .. n + 1 |-> IF k = 1 THEN p ELSE f[k - 1]]
<1>2. /\ t \in Seq(STRING) /\ Len(t) = n /\ t[1] = l
      /\ \A k \in 1 .. Len(s) : t[k + 1] = s[k]
      /\ n \in Nat /\ n >= 1 /\ Len(s) \in Nat /\ Len(s) = n - 1
  OBVIOUS
<1>3. Target(p)' = p
  BY CellKinds DEF Target
<1> HIDE DEF n, t
<1>4. g[1] = p /\ \A k \in 1 .. n : g[k + 1] = f[k]
  BY <1>2
<1>5. g \in [1 .. n + 1 -> Nat \ {0}]
  BY <1>1, <1>2 DEF Trace
<1> HIDE DEF g
<1>6. ASSUME NEW k \in 2 .. n + 1 PROVE g[k] = Target(g[k - 1] + 1)'
  <2>1. CASE k = 2
    BY <1>1, <1>2, <1>4, <2>1 DEF Trace
  <2>2. CASE k # 2
    <3>1. k - 1 \in 2 .. n /\ (k - 1) - 1 \in 1 .. n /\ k - 1 \in 1 .. n
          /\ ((k - 1) - 1) + 1 = k - 1 /\ (k - 1) + 1 = k
      BY <1>2, <2>2
    <3>2. g[k] = f[k - 1] /\ g[k - 1] = f[(k - 1) - 1]
      BY <1>4, <3>1
    <3> QED
      BY <1>1, <3>1, <3>2 DEF Trace
  <2> QED
    BY <2>1, <2>2
<1>7. Trace(g, p, n + 1)'
  BY <1>3, <1>4, <1>5, <1>6 DEF Trace
<1>8. ASSUME NEW k \in 1 .. n PROVE HasLabel(g[k], t[k])'
  <2>1. CASE k = 1
    <3>1. HasLabel(p, l)'
      BY DEF HasLabel
    <3>2. g[k] = p /\ t[k] = l
      BY <1>2, <1>4, <2>1
    <3> QED
      BY <3>1, <3>2
  <2>2. CASE k # 1
    <3>1. k - 1 \in 1 .. Len(s) /\ k - 1 \in 1 .. n /\ (k - 1) + 1 = k
      BY <1>2, <2>2
    <3>2. g[k] = f[k - 1] /\ t[k] = s[k - 1]
      BY <1>2, <1>4, <3>1
    <3> QED
      BY <1>1, <3>1, <3>2
  <2> QED
    BY <2>1, <2>2
<1>9. g[n + 1] = f[n]
  BY <1>2, <1>4
<1>10. Reads(p, t)'
  BY <1>1, <1>2, <1>7, <1>8, <1>9 DEF Reads
<1> QED
  BY <1>10 DEF t

\* What is compared with a name and found equal is the beginning of that name.
LEMMA MatchReads ==
  ASSUME cells \in Seq(Cell), RefsToLabels, NEW p \in Nat \ {0}, NEW s \in Seq(STRING),
         NEW t \in Seq(STRING), NEW stale, Reads(p, t), Matches(p, s, stale)
  PROVE  Len(s) <= Len(t) /\ \A k \in 1 .. Len(s) : s[k] = t[k]
<1> DEFINE n == Len(t) + 1
           m == Len(s)
           w == Walk(p, m)
<1>1. /\ n \in Nat /\ n >= 1 /\ m \in Nat /\ Len(t) \in Nat
      /\ \A k \in 1 .. m : k <= Len(t) => k \in 1 .. Len(t) /\ k <= n
  OBVIOUS
<1>2. PICK f : /\ Trace(f, p, n)
               /\ \A k \in 1 .. Len(t) : HasLabel(f[k], t[k])
               /\ f[n] <= Len(cells) /\ cells[f[n]] = End
  BY DEF Reads
<1>3. Trace(w, p, m)
  <2> HIDE DEF m
  <2> QED
    BY <1>1, WalkTraces
<1>4. \A k \in 1 .. m : HasLabel(w[k], s[k]) \/ (w[k] > Len(cells) /\ stale)
  BY DEF Matches
<1>5. n = Len(t) + 1 /\ m = Len(s)
  OBVIOUS
<1> HIDE DEF n, m, w
<1>6. \A k \in 1 .. m : k <= n => w[k] = f[k]
  BY <1>1, <1>2, <1>3, TraceUnique
<1>7. ASSUME NEW k \in 1 .. m, k <= n PROVE HasLabel(f[k], s[k])
  <2>1. w[k] = f[k] /\ k \in 1 .. n
    BY <1>1, <1>6, <1>7
  <2>2. f[k] <= Len(cells) /\ f[k] \in Nat
    BY <1>1, <1>2, <1>5, <2>1 DEF HasLabel, Trace
  <2>3. ~(f[k] > Len(cells))
    BY <2>2
  <2> QED
    BY <1>4, <2>1, <2>3
<1>8. ~(n \in 1 .. m)
  BY <1>1, <1>2, <1>7, CellKinds DEF HasLabel
<1>9. m <= Len(t)
  BY <1>1, <1>5, <1>8
<1>10. ASSUME NEW k \in 1 .. m PROVE s[k] = t[k]
  <2>1. k <= n /\ k \in 1 .. Len(t)
    BY <1>1, <1>5, <1>9
  <2>2. cells[f[k]] = Label(s[k]) /\ cells[f[k]] = Label(t[k])
    BY <1>2, <1>7, <2>1 DEF HasLabel
  <2> QED
    BY <2>2, CellKinds
<1> QED
  BY <1>5, <1>9, <1>10

-----------------------------------------------------------------------------
(***************************************************************************)
(* Each name is read back.                                                 *)
(***************************************************************************)

\* The labels of a name from the j-th on.
Rest(n, j) == SubSeq(n, j, Len(n))

LEMMA RestFacts ==
  ASSUME NEW n \in Seq(STRING), NEW j \in 1 .. Len(n) + 1
  PROVE  /\ Rest(n, j) \in Seq(STRING) /\ Len(Rest(n, j)) = Len(n) - j + 1
         /\ \A k \in 1 .. Len(n) - j + 1 : Rest(n, j)[k] = n[j + k - 1]
         /\ j <= Len(n) => /\ Rest(n, j) = <<n[j]>> \o Rest(n, j + 1)
                          /\ Rest(n, j) # <<>>
                          /\ Head(Rest(n, j)) = n[j] /\ Tail(Rest(n, j)) = Rest(n, j + 1)
         /\ Rest(n, j) = <<>> => j = Len(n) + 1
         /\ Rest(n, Len(n) + 1) = <<>> /\ Rest(n, 1) = n
<1> USE DEF Rest
<1>1. Len(n) \in Nat /\ j \in Nat /\ j >= 1 /\ j <= Len(n) + 1
  OBVIOUS
<1>2. /\ Rest(n, j) \in Seq(STRING) /\ Len(Rest(n, j)) = Len(n) - j + 1
      /\ \A k \in 1 .. Len(n) - j + 1 : Rest(n, j)[k] = n[j + k - 1]
  <2>1. \A k \in j .. Len(n) : n[k] \in STRING
    OBVIOUS
  <2> QED
    BY <1>1, <2>1, SubSeqProperties
<1>3. ASSUME j <= Len(n)
      PROVE  /\ Rest(n, j) = <<n[j]>> \o Rest(n, j + 1)
             /\ Rest(n, j) # <<>>
             /\ Head(Rest(n, j)) = n[j] /\ Tail(Rest(n, j)) = Rest(n, j + 1)
  <2>1. j \in 1 .. Len(n) /\ Len(n) \in j .. Len(n)
    BY <1>1, <1>3
  <2>2. Rest(n, j) # <<>>
    <3>1. Len(Rest(n, j)) >= 1
      BY <1>1, <1>2, <1>3
    <3> HIDE DEF Rest
    <3> QED
      BY <1>2, <3>1, EmptySeq
  <2> QED
    BY <2>1, <2>2, SubSeqRecursiveFirst, HeadTailOfSubSeq
<1>4. Rest(n, j) = <<>> => j = Len(n) + 1
  BY <1>1, <1>2
<1>5. Rest(n, Len(n) + 1) = <<>>
  BY <1>1, SubSeqEmpty
<1>6. Rest(n, 1) = n
  BY SubSeqFull
<1> QED
  BY <1>2, <1>3, <1>4, <1>5, <1>6

\* A name whose first labels were written one after another is read once its
\* last part is.
LEMMA ReadsWhole ==
  ASSUME cells' \in Seq(Cell), NEW n \in Seq(STRING), NEW a \in Nat \ {0},
         NEW m \in 0 .. Len(n), a + m <= Len(cells'),
         \A j \in 1 .. m : cells'[a + j - 1] = Label(n[j]),
         Reads(a + m, Rest(n, m + 1))'
  PROVE  \A j \in 1 .. m + 1 : Reads(a + j - 1, Rest(n, j))'
<1> DEFINE T == {d \in Nat : d <= m => Reads(a + m - d, Rest(n, m + 1 - d))'}
<1>1. 0 \in T
  <2>1. a + m - 0 = a + m /\ m + 1 - 0 = m + 1
    OBVIOUS
  <2> QED
    BY <2>1
<1>2. ASSUME NEW d \in T PROVE d + 1 \in T
  <2> SUFFICES ASSUME d + 1 <= m PROVE Reads(a + m - (d + 1), Rest(n, m + 1 - (d + 1)))'
    BY <1>2
  <2> DEFINE j == m - d
             q == a + j - 1
  <2>1. /\ j \in 1 .. m /\ j \in 1 .. Len(n) + 1 /\ j <= Len(n)
        /\ j + 1 \in 1 .. Len(n) + 1
        /\ q \in 1 .. Len(cells') /\ q + 1 = a + m - d /\ j + 1 = m + 1 - d
        /\ q = a + m - (d + 1) /\ j = m + 1 - (d + 1)
    BY <1>2
  <2>2. Reads(q + 1, Rest(n, j + 1))'
    BY <1>2, <2>1
  <2>3. cells'[q] = Label(n[j]) /\ n[j] \in STRING
    <3>1. n[j] \in STRING
      BY <2>1, ElementOfSeq
    <3> QED
      BY <2>1, <3>1
  <2>4. Rest(n, j) = <<n[j]>> \o Rest(n, j + 1) /\ Rest(n, j + 1) \in Seq(STRING)
    BY <2>1, RestFacts
  <2> HIDE DEF j, q
  <2>5. Reads(q, <<n[j]>> \o Rest(n, j + 1))'
    BY <2>1, <2>2, <2>3, <2>4, ReadsLabel
  <2> QED
    BY <2>1, <2>4, <2>5
<1> HIDE DEF T
<1>3. Nat \subseteq T
  BY <1>1, <1>2, AllNumbers
<1> SUFFICES ASSUME NEW j \in 1 .. m + 1 PROVE Reads(a + j - 1, Rest(n, j))'
  OBVIOUS
<1>4. m + 1 - j \in T /\ m + 1 - j <= m
      /\ a + m - (m + 1 - j) = a + j - 1 /\ m + 1 - (m + 1 - j) = j
  BY <1>3
<1> QED
  BY <1>4 DEF T

Cur == written[Len(written)]

\* m labels of the current name have been written, one after another.
Begun(m) ==
  /\ m \in 0 .. Len(Cur.name) /\ todo = Rest(Cur.name, m + 1)
  /\ Cur.at + m = Len(cells) + 1
  /\ \A j \in 1 .. m : cells[Cur.at + j - 1] = Label(Cur.name[j])

\* From p on the rest of a name is read.
Readable(p) == \E n \in Names : \E j \in 1 .. Len(n) : Reads(p, Rest(n, j))

\* What the table may lead to, and what has been completed.
LabelsReadable ==
  state # "failed" =>
    \A p \in 1 .. Len(cells) : cells[p].kind = "label" =>
      Readable(p) \/ (state = "name" /\ p >= Cur.at)

Completed ==
  \A k \in 1 .. Len(written) :
    k < Len(written) \/ state = "idle" => Reads(written[k].at, written[k].name)

RoundInv ==
  /\ NamesInv
  /\ written \in Seq([name : Names, at : Nat \ {0}])
  /\ state = "name" => written # <<>> /\ \E m \in Nat : Begun(m)
  /\ LabelsReadable /\ Completed

\* The current name, as a constant of a step.
LEMMA CurType ==
  ASSUME RoundInv, written # <<>>
  PROVE  /\ Len(written) \in 1 .. Len(written) /\ Cur.name \in Names
         /\ Cur.name \in Seq(STRING) /\ Cur.at \in Nat \ {0}
<1>1. Len(written) \in 1 .. Len(written)
  BY EmptySeq DEF RoundInv
<1>2. Cur \in [name : Names, at : Nat \ {0}]
  <2> DEFINE S == [name : Names, at : Nat \ {0}]
  <2>1. written \in Seq(S)
    BY DEF RoundInv
  <2> HIDE DEF S
  <2>2. Cur \in S
    BY <1>1, <2>1, ElementOfSeq DEF Cur
  <2> QED
    BY <2>2 DEF S
<1> QED
  BY <1>1, <1>2, MdnsNamesAssumption

\* What find returns is read as the very rest that is to be written.
LEMMA FindsRest ==
  ASSUME RoundInv, Unambiguous(Names), state = "name", todo # <<>>, NEW stale,
         mdns_string_table_find(todo, stale) # 0
  PROVE  Reads(mdns_string_table_find(todo, stale), todo)
<1> DEFINE ref == mdns_string_table_find(todo, stale)
<1>1. /\ ref \in 1 .. Len(cells) /\ cells[ref].kind = "label" /\ Matches(ref, todo, stale)
      /\ cells \in Seq(Cell) /\ RefsToLabels /\ todo \in Seq(STRING) /\ Len(cells) \in Nat
  BY FindsPlace DEF RoundInv, NamesInv
<1> HIDE DEF ref
<1>2. PICK m \in Nat : Begun(m)
  BY DEF RoundInv
<1> DEFINE c == Cur.name
<1>3. c \in Names /\ c \in Seq(STRING) /\ Len(c) \in Nat /\ Cur.at \in Nat \ {0}
  BY CurType DEF RoundInv
<1>4. m \in 0 .. Len(c) /\ m + 1 \in 1 .. Len(c) + 1 /\ todo = Rest(c, m + 1)
  BY <1>2, <1>3 DEF Begun
<1>5. m + 1 <= Len(c) /\ Len(todo) = Len(c) - m
      /\ \A k \in 1 .. Len(c) - m : todo[k] = c[m + k]
  <2>1. /\ Len(Rest(c, m + 1)) = Len(c) - (m + 1) + 1
        /\ \A k \in 1 .. Len(c) - (m + 1) + 1 : Rest(c, m + 1)[k] = c[(m + 1) + k - 1]
        /\ m + 1 = Len(c) + 1 => Rest(c, m + 1) = <<>>
    <3> HIDE DEF c
    <3> QED
      BY <1>3, <1>4, RestFacts
  <2> HIDE DEF c
  <2>2. \A k \in 1 .. Len(c) - m : (m + 1) + k - 1 = m + k
    BY <1>3, <1>4
  <2> QED
    BY <1>3, <1>4, <2>1, <2>2
<1> HIDE DEF c
<1>6. CASE Readable(ref)
  <2>1. PICK n \in Names, j \in Nat : j \in 1 .. Len(n) /\ Reads(ref, Rest(n, j))
    BY <1>6 DEF Readable
  <2>2. n \in Seq(STRING) /\ Len(n) \in Nat /\ j \in 1 .. Len(n) + 1
    BY <2>1, MdnsNamesAssumption
  <2>3. /\ Rest(n, j) \in Seq(STRING) /\ Len(Rest(n, j)) = Len(n) - j + 1
        /\ \A k \in 1 .. Len(n) - j + 1 : Rest(n, j)[k] = n[j + k - 1]
    BY <2>2, RestFacts
  <2>4. Len(todo) <= Len(n) - j + 1 /\ \A k \in 1 .. Len(todo) : todo[k] = Rest(n, j)[k]
    BY <1>1, <2>1, <2>3, MatchReads
  <2>5. Len(c) - (m + 1) <= Len(n) - j
    BY <1>3, <1>4, <1>5, <2>2, <2>4
  <2>6. \A k \in 0 .. Len(c) - (m + 1) : c[(m + 1) + k] = n[j + k]
    <3> SUFFICES ASSUME NEW k \in 0 .. Len(c) - (m + 1) PROVE c[(m + 1) + k] = n[j + k]
      OBVIOUS
    <3>1. /\ k + 1 \in 1 .. Len(c) - m /\ k + 1 \in 1 .. Len(n) - j + 1
          /\ m + (k + 1) = (m + 1) + k /\ j + (k + 1) - 1 = j + k
      BY <1>3, <1>4, <2>2, <2>5
    <3>2. todo[k + 1] = c[(m + 1) + k] /\ Rest(n, j)[k + 1] = n[j + k]
      BY <1>5, <2>3, <3>1
    <3>3. todo[k + 1] = Rest(n, j)[k + 1]
      BY <1>5, <2>4, <3>1
    <3> QED
      BY <3>2, <3>3
  <2>7. m + 1 \in DOMAIN c /\ j \in DOMAIN n
    BY <1>3, <1>4, <1>5, <2>1, <2>2
  <2>8. Len(c) - (m + 1) = Len(n) - j
    <3>1. \A i \in DOMAIN c, l \in DOMAIN n :
            (/\ Len(c) - i <= Len(n) - l
             /\ \A k \in 0 .. Len(c) - i : c[i + k] = n[l + k])
            => Len(c) - i = Len(n) - l
      BY <1>3 DEF Unambiguous
    <3> QED
      BY <2>5, <2>6, <2>7, <3>1
  <2>9. Len(todo) = Len(Rest(n, j))
    <3>1. Len(todo) = Len(c) - m /\ Len(Rest(n, j)) = Len(n) - j + 1
      BY <1>5, <2>3
    <3>2. Len(c) - m = Len(n) - j + 1
      BY <1>3, <1>4, <2>2, <2>8
    <3> QED
      BY <3>1, <3>2
  <2>10. todo = Rest(n, j)
    BY <1>1, <2>3, <2>4, <2>9, SeqEqual
  <2> QED
    BY <2>1, <2>10 DEF ref
<1>7. CASE ref >= Cur.at
  <2> DEFINE j == ref - Cur.at + 1
             w == Walk(ref, Len(todo))
  <2>1. j \in 1 .. m /\ Cur.at + j - 1 = ref
    <3>1. Cur.at + m = Len(cells) + 1
      BY <1>2 DEF Begun
    <3>2. PICK a \in Nat : a = Cur.at
      BY <1>3
    <3>3. a + m = Len(cells) + 1 /\ ref >= a /\ j = ref - a + 1
      BY <1>7, <3>1, <3>2
    <3>4. j \in 1 .. m /\ a + j - 1 = ref
      <4> HIDE DEF j
      <4> QED
        BY <1>1, <3>3
    <3> QED
      BY <3>2, <3>4
  <2>2. cells[ref] = Label(c[j])
    BY <1>2, <2>1 DEF Begun, c
  <2>3. Len(todo) \in Nat /\ 1 \in 1 .. Len(todo)
    BY <1>3, <1>4, <1>5
  <2>4. Trace(w, ref, Len(todo))
    BY <1>1, <2>3, WalkTraces
  <2>5. HasLabel(w[1], todo[1]) \/ (w[1] > Len(cells) /\ stale)
    BY <1>1, <2>3 DEF Matches
  <2> HIDE DEF w, j
  <2>6. w[1] = ref
    BY <1>1, <2>3, <2>4 DEF Trace, Target
  <2>7. cells[ref] = Label(todo[1])
    BY <1>1, <2>5, <2>6 DEF HasLabel
  <2>8. todo[1] = c[m + 1]
    BY <1>3, <1>4, <1>5
  <2>9. c[j] = c[m + 1]
    BY <2>2, <2>7, <2>8, CellKinds
  <2>10. j \in DOMAIN c /\ m + 1 \in DOMAIN c /\ j # m + 1
    BY <1>3, <1>4, <1>5, <2>1
  <2> QED
    BY <1>3, <2>9, <2>10 DEF Unambiguous
<1> QED
  BY <1>1, <1>6, <1>7 DEF RoundInv, LabelsReadable

\* All that was read still is when the message grows, or stays.
LEMMA AllGrow ==
  ASSUME RoundInv, cells' = cells \/ \E c \in Cell : cells' = Append(cells, c)
  PROVE  /\ \A p \in 1 .. Len(cells) : Readable(p) => Readable(p)'
         /\ \A k \in 1 .. Len(written) : k < Len(written) \/ state = "idle" =>
              \A a, n : a = written[k].at /\ n = written[k].name => Reads(a, n)'
<1>1. ASSUME NEW p \in Nat \ {0}, NEW s \in Seq(STRING), Reads(p, s) PROVE Reads(p, s)'
  <2>1. CASE cells' = cells
    BY <1>1, <2>1 DEF Reads, Trace, Target, HasLabel
  <2>2. CASE \E c \in Cell : cells' = Append(cells, c)
    BY <1>1, <2>2, ReadsGrows DEF RoundInv, NamesInv
  <2> QED
    BY <2>1, <2>2
<1>2. ASSUME NEW p \in 1 .. Len(cells), Readable(p) PROVE Readable(p)'
  <2>1. PICK n \in Names, j \in Nat : j \in 1 .. Len(n) /\ Reads(p, Rest(n, j))
    BY <1>2 DEF Readable
  <2>2. n \in Seq(STRING) /\ j \in 1 .. Len(n) + 1
    BY <2>1, MdnsNamesAssumption
  <2>3. Rest(n, j) \in Seq(STRING)
    BY <2>2, RestFacts
  <2>4. Reads(p, Rest(n, j))'
    BY <1>1, <2>1, <2>3
  <2> QED
    BY <2>1, <2>4 DEF Readable
<1>3. ASSUME NEW k \in 1 .. Len(written), k < Len(written) \/ state = "idle"
      PROVE  (\A a, n : a = written[k].at /\ n = written[k].name => Reads(a, n)')
  <2> DEFINE S == [name : Names, at : Nat \ {0}]
  <2>1. written \in Seq(S)
    BY DEF RoundInv
  <2>2. written[k] \in S
    <3> HIDE DEF S
    <3> QED
      BY <2>1, ElementOfSeq
  <2>3. written[k].at \in Nat \ {0} /\ written[k].name \in Seq(STRING)
    BY <2>2, MdnsNamesAssumption
  <2>4. Reads(written[k].at, written[k].name)
    BY <1>3 DEF RoundInv, Completed
  <2> QED
    BY <1>1, <2>3, <2>4
<1> QED
  BY <1>2, <1>3

\* The last cell of a name completes it.
LEMMA Completes ==
  ASSUME RoundInv, NamesInv', state = "name", state' = "idle", written' = written,
         NEW c \in Cell, c.kind # "label", cells' = Append(cells, c),
         NEW m \in Nat, Begun(m), NEW n, n = Cur.name, NEW l, l = Len(cells) + 1,
         Reads(l, Rest(n, m + 1))'
  PROVE  RoundInv'
<1>1. /\ Len(written) \in 1 .. Len(written) /\ n \in Names /\ n \in Seq(STRING)
      /\ Cur.at \in Nat \ {0}
  BY CurType DEF RoundInv
<1>2. PICK a \in Nat \ {0} : a = Cur.at
  BY <1>1
<1>3. /\ m \in 0 .. Len(n) /\ a + m = l /\ l = Len(cells) + 1 /\ Len(cells) \in Nat
      /\ \A j \in 1 .. m : cells[a + j - 1] = Label(n[j])
  BY <1>2 DEF Begun, RoundInv, NamesInv
<1>4. /\ cells \in Seq(Cell) /\ cells' \in Seq(Cell) /\ Len(cells') = l /\ cells'[l] = c
      /\ \A p \in 1 .. Len(cells) : cells'[p] = cells[p]
  BY <1>3 DEF RoundInv, NamesInv
<1>5. \A j \in 1 .. m + 1 : Reads(a + j - 1, Rest(n, j))'
  <2>1. a + m <= Len(cells')
    BY <1>3, <1>4
  <2>2. \A j \in 1 .. m : cells'[a + j - 1] = Label(n[j])
    <3> SUFFICES ASSUME NEW j \in 1 .. m PROVE cells'[a + j - 1] = Label(n[j])
      OBVIOUS
    <3>1. a + j - 1 \in 1 .. Len(cells)
      BY <1>3
    <3> QED
      BY <1>3, <1>4, <3>1
  <2>3. Reads(a + m, Rest(n, m + 1))'
    BY <1>3
  <2> QED
    BY <1>1, <1>3, <1>4, <2>1, <2>2, <2>3, ReadsWhole
<1>6. LabelsReadable'
  <2> SUFFICES ASSUME NEW p \in 1 .. Len(cells'), cells'[p].kind = "label"
               PROVE  Readable(p)'
    BY DEF LabelsReadable
  <2>1. p \in 1 .. Len(cells) /\ cells[p].kind = "label"
    BY <1>3, <1>4
  <2>2. CASE Readable(p)
    BY <2>1, <2>2, AllGrow
  <2>3. CASE p >= a
    <3>1. PICK j \in Nat : j = p - a + 1
      BY <1>2, <2>1, <2>3
    <3>2. j \in 1 .. m /\ j \in 1 .. m + 1 /\ j \in 1 .. Len(n) /\ a + j - 1 = p
      <4> DEFINE e == Len(n)
      <4>1. m <= e /\ e \in Nat
        BY <1>1, <1>3
      <4>2. p \in Nat /\ p <= a + m - 1
        BY <1>3, <2>1
      <4> HIDE DEF e
      <4>3. j \in 1 .. m /\ j \in 1 .. e /\ a + j - 1 = p
        BY <2>3, <3>1, <4>1, <4>2
      <4> QED
        BY <4>3 DEF e
    <3>3. Reads(p, Rest(n, j))'
      BY <1>5, <3>2
    <3> QED
      BY <1>1, <3>2, <3>3 DEF Readable
  <2> QED
    BY <1>2, <2>1, <2>2, <2>3 DEF RoundInv, LabelsReadable
<1>7. Completed'
  <2> SUFFICES ASSUME NEW k \in 1 .. Len(written)
               PROVE  \A b, s : b = written[k].at /\ s = written[k].name => Reads(b, s)'
    BY DEF Completed
  <2>1. CASE k < Len(written)
    BY <2>1, AllGrow
  <2>2. CASE k = Len(written)
    <3>1. written[k].at = a /\ written[k].name = n
      BY <1>2, <2>2 DEF Cur
    <3>2. Reads(a + 1 - 1, Rest(n, 1))' /\ a + 1 - 1 = a
      BY <1>3, <1>5
    <3>3. Rest(n, 1) = n
      <4>1. 1 \in 1 .. Len(n) + 1
        BY <1>1
      <4> QED
        BY <1>1, <4>1, RestFacts
    <3> QED
      BY <3>1, <3>2, <3>3
  <2> QED
    BY <1>1, <2>1, <2>2
<1> QED
  BY <1>6, <1>7 DEF RoundInv

LEMMA RoundInit == Init => RoundInv
<1> SUFFICES ASSUME Init PROVE RoundInv
  OBVIOUS
<1>1. NamesInv
  BY NamesInit
<1>2. cells = <<>> /\ written = <<>> /\ state = "idle"
  BY DEF Init
<1>3. Len(cells) = 0 /\ Len(written) = 0 /\ written \in Seq([name : Names, at : Nat \ {0}])
  BY <1>2
<1> QED
  BY <1>1, <1>2, <1>3 DEF RoundInv, LabelsReadable, Completed

\* One more label of the current name.
LEMMA RoundLabel ==
  ASSUME RoundInv, NamesInv', WriteLabel, ~Fail PROVE RoundInv'
<1>1. /\ state = "name" /\ state' = "name" /\ written' = written /\ todo # <<>>
      /\ cells' = Append(cells, Label(Head(todo))) /\ todo' = Tail(todo)
  BY DEF WriteLabel, Write
<1>2. PICK m \in Nat : Begun(m)
  BY <1>1 DEF RoundInv
<1>3. PICK n \in Names, a \in Nat \ {0} : n = Cur.name /\ a = Cur.at
  BY <1>1, CurType DEF RoundInv
<1>4. n \in Seq(STRING) /\ Len(n) \in Nat
  BY MdnsNamesAssumption
<1>5. /\ m \in 0 .. Len(n) /\ m + 1 \in 1 .. Len(n) + 1 /\ todo = Rest(n, m + 1)
      /\ a + m = Len(cells) + 1 /\ Len(cells) \in Nat
      /\ \A j \in 1 .. m : cells[a + j - 1] = Label(n[j])
  <2>1. /\ m \in 0 .. Len(n) /\ todo = Rest(n, m + 1) /\ a + m = Len(cells) + 1
        /\ \A j \in 1 .. m : cells[a + j - 1] = Label(n[j])
    BY <1>2, <1>3 DEF Begun
  <2>2. Len(cells) \in Nat
    BY DEF RoundInv, NamesInv
  <2>3. m + 1 \in 1 .. Len(n) + 1
    BY <1>4, <2>1
  <2> QED
    BY <2>1, <2>2, <2>3
<1>6. /\ m + 1 <= Len(n) /\ Head(todo) = n[m + 1] /\ Tail(todo) = Rest(n, (m + 1) + 1)
  <2>1. m + 1 # Len(n) + 1
    BY <1>1, <1>4, <1>5, RestFacts
  <2>2. m + 1 <= Len(n)
    BY <1>4, <1>5, <2>1
  <2> QED
    BY <1>4, <1>5, <2>2, RestFacts
<1>7. Label(Head(todo)) \in Cell
  <2>1. n[m + 1] \in STRING
    BY <1>4, <1>5, <1>6, ElementOfSeq
  <2> QED
    BY <1>6, <2>1 DEF Label, Cell
<1>8. /\ Len(cells') = Len(cells) + 1 /\ cells'[Len(cells) + 1] = Label(n[m + 1])
      /\ \A p \in 1 .. Len(cells) : cells'[p] = cells[p]
  BY <1>1, <1>6, <1>7 DEF RoundInv, NamesInv
<1>9. Cur' = Cur
  BY <1>1 DEF Cur
<1>10. Begun(m + 1)'
  <2>1. \A j \in 1 .. m + 1 : cells'[a + j - 1] = Label(n[j])
    <3> SUFFICES ASSUME NEW j \in 1 .. m + 1 PROVE cells'[a + j - 1] = Label(n[j])
      OBVIOUS
    <3>1. CASE j = m + 1
      <4>1. a + j - 1 = Len(cells) + 1
        BY <1>5, <3>1
      <4> QED
        BY <1>8, <3>1, <4>1
    <3>2. CASE j # m + 1
      <4>1. j \in 1 .. m /\ a + j - 1 \in 1 .. Len(cells)
        BY <1>5, <3>2
      <4> QED
        BY <1>5, <1>8, <4>1
    <3> QED
      BY <3>1, <3>2
  <2>2. m + 1 \in 0 .. Len(n) /\ a + (m + 1) = Len(cells') + 1
    BY <1>4, <1>5, <1>6, <1>8
  <2> QED
    BY <1>1, <1>3, <1>6, <1>9, <2>1, <2>2 DEF Begun
<1>11. LabelsReadable'
  <2> SUFFICES ASSUME NEW p \in 1 .. Len(cells'), cells'[p].kind = "label"
               PROVE  Readable(p)' \/ p >= a
    BY <1>1, <1>3, <1>9 DEF LabelsReadable
  <2>1. CASE p = Len(cells) + 1
    BY <1>5, <2>1
  <2>2. CASE p # Len(cells) + 1
    <3>1. p \in 1 .. Len(cells) /\ cells[p].kind = "label"
      BY <1>5, <1>8, <2>2
    <3>2. Readable(p) \/ p >= a
      BY <1>1, <1>3, <3>1 DEF RoundInv, LabelsReadable
    <3> QED
      BY <1>1, <1>7, <3>1, <3>2, AllGrow
  <2> QED
    BY <2>1, <2>2
<1>12. Completed'
  <2> SUFFICES ASSUME NEW k \in 1 .. Len(written), k < Len(written)
               PROVE  \A b, s : b = written[k].at /\ s = written[k].name => Reads(b, s)'
    BY <1>1 DEF Completed
  <2> QED
    BY <1>1, <1>7, AllGrow
<1>13. written' # <<>> /\ written' \in Seq([name : Names, at : Nat \ {0}])
  BY <1>1 DEF RoundInv
<1> QED
  BY <1>10, <1>11, <1>12, <1>13 DEF RoundInv

LEMMA RoundRef ==
  ASSUME RoundInv, NamesInv', Unambiguous(Names), WriteRef, ~Fail PROVE RoundInv'
<1>1. /\ state = "name" /\ todo # <<>> /\ state' = "idle" /\ written' = written
  BY DEF WriteRef
<1>2. PICK stale \in BOOLEAN :
        /\ mdns_string_table_find(todo, stale) # 0
        /\ cells' = Append(cells, Ref(mdns_string_table_find(todo, stale)))
  BY DEF WriteRef, Write
<1>3. PICK ref : ref = mdns_string_table_find(todo, stale)
  OBVIOUS
<1>4. PICK m \in Nat : Begun(m)
  BY <1>1 DEF RoundInv
<1>5. PICK n \in Names : n = Cur.name
  BY <1>1, CurType DEF RoundInv
<1>6. PICK s : s = Rest(n, m + 1)
  OBVIOUS
<1>7. s \in Seq(STRING) /\ todo = s
  BY <1>4, <1>5, <1>6 DEF Begun, RoundInv, NamesInv
<1>8. Reads(ref, s)
  BY <1>1, <1>2, <1>3, <1>7, FindsRest
<1>9. ref \in 1 .. Len(cells) /\ cells[ref].kind = "label" /\ cells \in Seq(Cell)
      /\ Len(cells) \in Nat
  BY <1>2, <1>3, FindsPlace DEF RoundInv, NamesInv
<1>10. Ref(ref) \in Cell /\ Ref(ref).kind # "label"
  BY <1>9 DEF Ref, Cell
<1>11. PICK l : l = Len(cells) + 1
  OBVIOUS
<1>12. /\ cells' = Append(cells, Ref(ref)) /\ cells' \in Seq(Cell) /\ Len(cells') = l
       /\ cells'[l] = Ref(ref) /\ cells'[ref] = cells[ref]
       /\ l \in 1 .. Len(cells') /\ ref \in 1 .. Len(cells')
  BY <1>2, <1>3, <1>9, <1>10, <1>11
<1>13. Reads(ref, s)'
  BY <1>7, <1>8, <1>9, <1>10, <1>12, ReadsGrows
<1>14. Reads(l, s)'
  BY <1>7, <1>9, <1>12, <1>13, ReadsRef
<1> QED
  BY <1>1, <1>4, <1>5, <1>6, <1>10, <1>11, <1>12, <1>14, Completes

LEMMA RoundEnd ==
  ASSUME RoundInv, NamesInv', WriteEnd, ~Fail PROVE RoundInv'
<1>1. /\ state = "name" /\ todo = <<>> /\ state' = "idle" /\ written' = written
      /\ cells' = Append(cells, End)
  BY DEF WriteEnd, Write
<1>2. PICK m \in Nat : Begun(m)
  BY <1>1 DEF RoundInv
<1>3. PICK n \in Names : n = Cur.name
  BY <1>1, CurType DEF RoundInv
<1>4. Rest(n, m + 1) = <<>>
  BY <1>1, <1>2, <1>3 DEF Begun
<1>5. End \in Cell /\ End.kind # "label"
  BY DEF End, Cell
<1>6. PICK l : l = Len(cells) + 1
  OBVIOUS
<1>7. cells' \in Seq(Cell) /\ l \in 1 .. Len(cells') /\ cells'[l] = End
  BY <1>1, <1>5, <1>6 DEF RoundInv, NamesInv
<1>8. Reads(l, <<>>)'
  BY <1>7, ReadsEnd
<1>9. Reads(l, Rest(n, m + 1))'
  BY <1>4, <1>8
<1> QED
  BY <1>1, <1>2, <1>3, <1>5, <1>6, <1>9, Completes

LEMMA RoundStep ==
  ASSUME Unambiguous(Names), RoundInv, [Next]_vars PROVE RoundInv'
<1>1. NamesInv'
  BY NamesStep DEF RoundInv
<1>2. CASE UNCHANGED <<cells, written, todo>> /\ (UNCHANGED state \/ state' = "failed")
  <2>1. Cur' = Cur
    BY <1>2 DEF Cur
  <2>2. LabelsReadable'
    BY <1>2, <2>1, AllGrow DEF RoundInv, LabelsReadable
  <2>3. Completed'
    BY <1>2, AllGrow DEF Completed
  <2>4. ASSUME NEW m, Begun(m) PROVE Begun(m)'
    BY <1>2, <2>1, <2>4 DEF Begun
  <2> QED
    BY <1>1, <1>2, <2>2, <2>3, <2>4 DEF RoundInv
<1>3. CASE Fail
  BY <1>2, <1>3 DEF Fail
<1>4. CASE BeginName
  <2>1. PICK n \in Names : /\ todo' = n
                           /\ written' = Append(written, [name |-> n, at |-> Len(cells) + 1])
    BY <1>4 DEF BeginName
  <2>2. state = "idle" /\ state' = "name" /\ cells' = cells
    BY <1>4 DEF BeginName
  <2>3. n \in Seq(STRING) /\ Len(n) \in Nat /\ Len(cells) \in Nat
    BY MdnsNamesAssumption DEF RoundInv, NamesInv
  <2> DEFINE S == [name : Names, at : Nat \ {0}]
             w == [name |-> n, at |-> Len(cells) + 1]
  <2>4. w \in S /\ w.name = n /\ w.at = Len(cells) + 1 /\ written \in Seq(S)
    BY <2>3 DEF RoundInv
  <2>5. written' = Append(written, w)
    BY <2>1
  <2> HIDE DEF S, w
  <2>6. /\ written' \in Seq(S) /\ Len(written') = Len(written) + 1 /\ Len(written) \in Nat
        /\ written' # <<>> /\ written'[Len(written) + 1] = w
        /\ \A k \in 1 .. Len(written) : written'[k] = written[k]
    BY <2>4, <2>5, AppendProperties
  <2>7. Cur' = w
    BY <2>6 DEF Cur
  <2>8. Begun(0)'
    <3>1. Rest(n, 0 + 1) = n
      <4>1. 1 \in 1 .. Len(n) + 1 /\ 0 + 1 = 1
        BY <2>3
      <4> QED
        BY <2>3, <4>1, RestFacts
    <3> QED
      BY <2>1, <2>2, <2>3, <2>4, <2>7, <3>1 DEF Begun
  <2>9. LabelsReadable'
    BY <2>2, AllGrow DEF RoundInv, LabelsReadable
  <2>10. Completed'
    <3> SUFFICES ASSUME NEW k \in 1 .. Len(written), written'[k] = written[k]
                 PROVE  \A b, s : b = written[k].at /\ s = written[k].name => Reads(b, s)'
      BY <2>2, <2>6 DEF Completed
    <3> QED
      BY <2>2, AllGrow
  <2> QED
    BY <1>1, <2>2, <2>6, <2>8, <2>9, <2>10 DEF RoundInv, S
<1>5. CASE WriteRef
  BY <1>1, <1>3, <1>5, RoundRef
<1>6. CASE WriteLabel
  BY <1>1, <1>3, <1>6, RoundLabel
<1>7. CASE WriteEnd
  BY <1>1, <1>3, <1>7, RoundEnd
<1>8. CASE NewMessage
  <2>1. cells' = <<>> /\ written' = <<>> /\ state' = "idle"
    BY <1>8 DEF NewMessage
  <2>2. Len(cells') = 0 /\ Len(written') = 0
        /\ written' \in Seq([name : Names, at : Nat \ {0}])
    BY <2>1
  <2> QED
    BY <1>1, <2>1, <2>2 DEF RoundInv, LabelsReadable, Completed
<1>9. CASE UNCHANGED vars
  BY <1>2, <1>9 DEF vars
<1> QED
  BY <1>4, <1>5, <1>6, <1>7, <1>8, <1>9 DEF Next

\* Whatever order the names are written in, whatever the ring of the string
\* table has forgotten, and whatever is left in the buffer: a name that was
\* completed is read back as it was given, for names that mdns_string_table_find
\* cannot mistake for one another.
THEOREM ReadBack ==
  ASSUME Unambiguous(Names) PROVE Spec => []RoundTrip
<1>1. RoundInv => RoundTrip
  <2> SUFFICES ASSUME RoundInv, NEW k \in 1 .. Len(written),
                      k < Len(written) \/ state = "idle"
               PROVE  Spells(written[k].at, written[k].name)
    BY DEF RoundTrip
  <2> DEFINE S == [name : Names, at : Nat \ {0}]
  <2>1. written \in Seq(S)
    BY DEF RoundInv
  <2>2. written[k] \in S
    <3> HIDE DEF S
    <3> QED
      BY <2>1, ElementOfSeq
  <2>3. written[k].at \in Nat \ {0} /\ written[k].name \in Seq(STRING)
    BY <2>2, MdnsNamesAssumption
  <2>4. Reads(written[k].at, written[k].name)
    BY DEF RoundInv, Completed
  <2> QED
    BY <2>3, <2>4, ReadsSpells DEF RoundInv, NamesInv
<1>2. RoundInv /\ [Next]_vars => RoundInv'
  BY RoundStep
<1> QED
  BY <1>1, <1>2, RoundInit, PTL DEF Spec

=============================================================================
