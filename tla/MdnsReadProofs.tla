-------------------------- MODULE MdnsReadProofs ---------------------------
(***************************************************************************)
(* Reading, proved for messages of any length and bytes, and any limits:   *)
(* the readers stay inside the message, agree on where a name ends, and    *)
(* read the name that RFC 1035 means.                                      *)
(*                                                                         *)
(* First what the recursive functions compute, then the names at a place   *)
(* and what mdns_get_next_substring finds of them, then the loops.         *)
(***************************************************************************)
EXTENDS MdnsRead, WellFoundedInduction, SequenceTheorems, FiniteSetTheorems, TLAPS

-----------------------------------------------------------------------------
(***************************************************************************)
(* Recursion over the numbers.                                             *)
(***************************************************************************)

\* A set of numbers has a least one.
LEMMA Least ==
  ASSUME NEW T, T \subseteq Nat, T # {}
  PROVE  \E x \in T : \A y \in T : x <= y
<1> DEFINE R == OpToRel(<, Nat)
<1>1. PICK x \in T : \A y \in T : ~(<<y, x>> \in R)
  <2>1. IsWellFoundedOn(R, Nat)
    BY NatLessThanWellFounded
  <2> HIDE DEF R
  <2> QED
    BY <2>1, WFMin
<1>2. \A y \in T : ~(y < x)
  BY <1>1 DEF OpToRel
<1> QED
  BY <1>2

\* A set with zero and the successors of its numbers has all numbers.
LEMMA AllNumbers ==
  ASSUME NEW T, 0 \in T, \A n \in T \cap Nat : n + 1 \in T
  PROVE  Nat \subseteq T
<1> DEFINE U == Nat \ T
<1> SUFFICES ASSUME U # {} PROVE FALSE
  OBVIOUS
<1>1. PICK x \in U : \A y \in U : x <= y
  <2>1. U \subseteq Nat
    OBVIOUS
  <2> HIDE DEF U
  <2> QED
    BY <2>1, Least
<1>2. x \in Nat /\ x - 1 \in Nat /\ ~(x <= x - 1)
  OBVIOUS
<1>3. (x - 1) + 1 \in T
  BY <1>1, <1>2
<1> QED
  BY <1>1, <1>2, <1>3

\* f begins with d and goes on, n times, with the steps of S.
Iterates(f, D, d, S, n) ==
  /\ f \in [0 .. n -> D]
  /\ f[0] = d
  /\ \A k \in 0 .. n - 1 : f[k + 1] = S[k][f[k]]

LEMMA IteratesAlike ==
  ASSUME NEW D, NEW d, NEW S, NEW n \in Nat, NEW m \in Nat, NEW f, NEW g,
         Iterates(f, D, d, S, n), Iterates(g, D, d, S, m)
  PROVE  \A k \in 0 .. n : k <= m => f[k] = g[k]
<1> DEFINE T == {k \in Nat : k <= n /\ k <= m => f[k] = g[k]}
<1>1. 0 \in T
  BY DEF Iterates
<1>2. ASSUME NEW k \in T PROVE k + 1 \in T
  BY <1>2 DEF Iterates
<1> HIDE DEF T
<1>3. Nat \subseteq T
  BY <1>1, <1>2, AllNumbers
<1> QED
  BY <1>3 DEF T

LEMMA IteratesExist ==
  ASSUME NEW D, NEW d \in D, NEW S \in [Nat -> [D -> D]], NEW n \in Nat
  PROVE  \E f : Iterates(f, D, d, S, n)
<1> DEFINE T == {k \in Nat : \E f : Iterates(f, D, d, S, k)}
<1>1. 0 \in T
  <2>1. Iterates([k \in 0 .. 0 |-> d], D, d, S, 0)
    BY DEF Iterates
  <2> QED
    BY <2>1
<1>2. ASSUME NEW k \in T PROVE k + 1 \in T
  <2>1. PICK f : Iterates(f, D, d, S, k)
    BY <1>2
  <2> DEFINE last == S[k][f[k]]
             g == [j \in 0 .. k + 1 |-> IF j = k + 1 THEN last ELSE f[j]]
  <2>2. last \in D
    BY <2>1 DEF Iterates
  <2>3. g \in [0 .. k + 1 -> D] /\ g[0] = d
    <3> HIDE DEF last
    <3> QED
      BY <2>1, <2>2 DEF Iterates
  <2>4. ASSUME NEW j \in 0 .. (k + 1) - 1 PROVE g[j + 1] = S[j][g[j]]
    <3>1. g[j] = f[j]
      OBVIOUS
    <3>2. CASE j = k
      BY <3>1, <3>2
    <3>3. CASE j # k
      <4>1. j \in 0 .. k - 1 /\ j + 1 # k + 1 /\ j + 1 \in 0 .. k + 1
        BY <3>3
      <4>2. g[j + 1] = f[j + 1]
        BY <4>1
      <4> QED
        BY <2>1, <3>1, <4>1, <4>2 DEF Iterates
    <3> QED
      BY <3>2, <3>3
  <2>5. Iterates(g, D, d, S, k + 1)
    <3> HIDE DEF g
    <3> QED
      BY <2>3, <2>4 DEF Iterates
  <2> QED
    BY <2>5
<1> HIDE DEF T
<1>3. Nat \subseteq T
  BY <1>1, <1>2, AllNumbers
<1> QED
  BY <1>3 DEF T

\* And one that never stops.
Sequence(f, D, d, S) ==
  /\ f \in [Nat -> D]
  /\ f[0] = d
  /\ \A k \in Nat : f[k + 1] = S[k][f[k]]

LEMMA SequenceExists ==
  ASSUME NEW D, NEW d \in D, NEW S \in [Nat -> [D -> D]]
  PROVE  \E f : Sequence(f, D, d, S)
<1> DEFINE it(n) == CHOOSE g : Iterates(g, D, d, S, n)
           f == [n \in Nat |-> it(n)[n]]
<1>1. \A n \in Nat : Iterates(it(n), D, d, S, n)
  BY IteratesExist
<1> HIDE DEF it
<1>2. f \in [Nat -> D] /\ f[0] = d
  BY <1>1 DEF Iterates
<1>3. ASSUME NEW k \in Nat PROVE f[k + 1] = S[k][f[k]]
  <2>1. it(k + 1)[k + 1] = S[k][it(k + 1)[k]]
    BY <1>1 DEF Iterates
  <2>2. it(k + 1)[k] = it(k)[k]
    <3>1. k + 1 \in Nat /\ k \in 0 .. k /\ k <= k + 1
      OBVIOUS
    <3> QED
      BY <1>1, <3>1, IteratesAlike
  <2> QED
    BY <2>1, <2>2
<1> QED
  BY <1>2, <1>3 DEF Sequence

-----------------------------------------------------------------------------
(***************************************************************************)
(* References.                                                             *)
(***************************************************************************)
Place(size) == -1 .. size - 1

LEMMA ByteAt ==
  ASSUME NEW size \in Nat, NEW m \in Bytes(size), NEW p \in 0 .. size - 1
  PROVE  m[p] \in Byte /\ m[p] \in 0 .. 255
<1>1. m[p] \in Byte
  BY DEF Bytes
<1> QED
  BY <1>1, MdnsReadAssumption

LEMMA ReferenceType ==
  ASSUME NEW size \in Nat, NEW m \in Bytes(size), NEW p \in 0 .. size - 1, p + 1 < size
  PROVE  Reference(m, p) \in Nat
<1>1. m[p] \in 0 .. 255 /\ m[p + 1] \in 0 .. 255
  BY ByteAt
<1>2. \A a \in 0 .. 255, b \in 0 .. 255 : (a % 64) * 256 + b \in Nat
  OBVIOUS
<1> QED
  BY <1>1, <1>2 DEF Reference

LEMMA ReferType ==
  ASSUME NEW size \in Nat, NEW m \in Bytes(size), NEW p \in Place(size)
  PROVE  Refer(m, size, p) \in Place(size)
<1>1. CASE p = -1
  BY <1>1 DEF Refer, Place, MDNS_INVALID_POS
<1>2. CASE p # -1
  <2>1. p \in 0 .. size - 1
    BY <1>2 DEF Place
  <2>2. CASE p + 1 < size
    <3>1. Reference(m, p) \in Nat
      BY <2>1, <2>2, ReferenceType
    <3> QED
      BY <2>1, <2>2, <3>1 DEF Refer, Place, MDNS_INVALID_POS
  <2>3. CASE ~(p + 1 < size)
    BY <2>1, <2>3 DEF Refer, Place, MDNS_INVALID_POS
  <2> QED
    BY <2>2, <2>3
<1> QED
  BY <1>1, <1>2

\* f is where the references from o on lead, one after the other.
Refers(f, m, size, o, n) ==
  /\ f \in [0 .. n -> Place(size)]
  /\ f[0] = o
  /\ \A k \in 0 .. n - 1 : f[k + 1] = Refer(m, size, f[k])

\* Follow is what its recursion says.
LEMMA FollowRefers ==
  ASSUME NEW size \in Nat, NEW m \in Bytes(size), NEW o \in 0 .. size - 1, NEW n \in Nat
  PROVE  \E f : Refers(f, m, size, o, n) /\ Follow(m, size, o, n) = f[n]
<1> DEFINE D == Place(size)
           S == [k \in Nat |-> [p \in D |-> Refer(m, size, p)]]
           W(g) == [k \in 0 .. n |-> IF k = 0 THEN o ELSE Refer(m, size, g[k - 1])]
           at == CHOOSE g : g = W(g)
<1>1. o \in D /\ S \in [Nat -> [D -> D]]
  BY ReferType DEF Place
<1>2. PICK f : Iterates(f, D, o, S, n)
  <2> HIDE DEF D, S
  <2> QED
    BY <1>1, IteratesExist
<1>3. /\ f \in [0 .. n -> D] /\ f[0] = o
      /\ \A k \in 0 .. n - 1 : f[k + 1] = S[k][f[k]] /\ f[k] \in D
  <2> HIDE DEF D, S
  <2> QED
    BY <1>2 DEF Iterates
<1>4. \A k \in 0 .. n - 1 : f[k + 1] = Refer(m, size, f[k])
  <2> SUFFICES ASSUME NEW k \in 0 .. n - 1 PROVE f[k + 1] = Refer(m, size, f[k])
    OBVIOUS
  <2>1. f[k + 1] = S[k][f[k]] /\ f[k] \in D /\ k \in Nat
    BY <1>3
  <2> HIDE DEF D
  <2> QED
    BY <2>1
<1>5. f = W(f)
  <2> DEFINE F(k) == IF k = 0 THEN o ELSE Refer(m, size, f[k - 1])
  <2>1. ASSUME NEW k \in 0 .. n PROVE f[k] = F(k)
    <3>1. CASE k = 0
      BY <1>3, <3>1
    <3>2. CASE k # 0
      <4>1. k - 1 \in 0 .. n - 1 /\ (k - 1) + 1 = k
        BY <3>2
      <4> QED
        BY <1>4, <3>2, <4>1
    <3> QED
      BY <3>1, <3>2
  <2> HIDE DEF F, D
  <2>2. f = [k \in 0 .. n |-> F(k)]
    BY <1>3, <2>1
  <2> QED
    BY <2>2 DEF F
<1>6. at = W(at)
  BY <1>5
<1>7. Follow(m, size, o, n) = at[n]
  BY DEF Follow
<1> HIDE DEF at
<1> DEFINE T == {k \in Nat : k <= n => at[k] = f[k]}
<1>8. Nat \subseteq T
  <2>1. 0 \in T
    BY <1>3, <1>6
  <2>2. ASSUME NEW k \in T PROVE k + 1 \in T
    <3>1. CASE k + 1 <= n
      <4>1. k \in 0 .. n - 1 /\ k + 1 \in 0 .. n /\ (k + 1) - 1 = k /\ k + 1 # 0
        BY <2>2, <3>1
      <4>2. at[k + 1] = Refer(m, size, at[k])
        BY <1>6, <4>1
      <4>3. at[k] = f[k]
        BY <2>2, <4>1
      <4> QED
        BY <1>4, <2>2, <4>1, <4>2, <4>3
    <3> QED
      BY <2>2, <3>1
  <2> HIDE DEF T
  <2> QED
    BY <2>1, <2>2, AllNumbers
<1>9. Follow(m, size, o, n) = f[n]
  BY <1>7, <1>8
<1>10. Refers(f, m, size, o, n)
  BY <1>3, <1>4 DEF Refers
<1> QED
  BY <1>9, <1>10

\* There is nothing to follow at a label.
LEMMA FollowLabel ==
  ASSUME NEW size \in Nat, NEW m \in Bytes(size), NEW o \in 0 .. size - 1, NEW n \in Nat,
         ~mdns_is_string_ref(m[o])
  PROVE  Follow(m, size, o, n) = o
<1>1. PICK f : Refers(f, m, size, o, n) /\ Follow(m, size, o, n) = f[n]
  BY FollowRefers
<1> DEFINE T == {k \in Nat : k <= n => f[k] = o}
<1>2. 0 \in T
  BY <1>1 DEF Refers
<1>3. ASSUME NEW k \in T PROVE k + 1 \in T
  BY <1>1, <1>3 DEF Refers, Refer
<1> HIDE DEF T
<1>4. Nat \subseteq T
  BY <1>2, <1>3, AllNumbers
<1> QED
  BY <1>1, <1>4 DEF T

\* What mdns_get_next_substring finds lies inside the message.
LEMMA SubstringFacts ==
  ASSUME NEW size \in Nat, NEW m \in Bytes(size), NEW o \in Nat,
         NEW s, s = mdns_get_next_substring(m, size, o), s.offset # MDNS_INVALID_POS
  PROVE  /\ o < size
         /\ s.offset \in Nat /\ s.length \in Nat /\ s.offset + s.length <= size
         /\ s.ref <=> mdns_is_string_ref(m[o])
         /\ ~s.ref => s.length = m[o] /\ s.offset = IF m[o] = 0 THEN o ELSE o + 1
<1>1. o < size /\ o \in 0 .. size - 1
  BY DEF mdns_get_next_substring, Nowhere
<1>2. m[o] \in 0 .. 255
  BY <1>1, ByteAt
<1>3. CASE m[o] = 0
  BY <1>1, <1>3 DEF mdns_get_next_substring, mdns_is_string_ref
<1>4. CASE m[o] # 0
  <2> DEFINE p == Follow(m, size, o, MaxRefs)
  <2>1. p \in Place(size)
    <3>1. PICK f : Refers(f, m, size, o, MaxRefs) /\ p = f[MaxRefs]
      BY <1>1, FollowRefers, MdnsReadAssumption
    <3> QED
      BY <3>1, MdnsReadAssumption DEF Refers
  <2>2. ~mdns_is_string_ref(m[o]) => p = o
    BY <1>1, FollowLabel, MdnsReadAssumption
  <2> HIDE DEF p
  <2>3. /\ p # -1 /\ size >= p + 1 + m[p]
        /\ s = [offset |-> p + 1, length |-> m[p], ref |-> mdns_is_string_ref(m[o])]
    <3>1. s = IF p = -1 \/ mdns_is_string_ref(m[p]) \/ size < p + 1 + m[p] THEN Nowhere
              ELSE [offset |-> p + 1, length |-> m[p], ref |-> mdns_is_string_ref(m[o])]
      BY <1>1, <1>4 DEF mdns_get_next_substring, MDNS_INVALID_POS, p
    <3>2. Nowhere.offset = MDNS_INVALID_POS
      BY DEF Nowhere
    <3>3. p # -1 => m[p] \in 0 .. 255
      BY <2>1, ByteAt DEF Place
    <3> QED
      BY <2>1, <3>1, <3>2, <3>3 DEF Place
  <2>4. p \in 0 .. size - 1
    BY <2>1, <2>3 DEF Place
  <2>5. m[p] \in 0 .. 255
    BY <2>4, ByteAt
  <2>6. s.offset = p + 1 /\ s.length = m[p] /\ s.ref = mdns_is_string_ref(m[o])
    BY <2>3
  <2> QED
    BY <1>1, <1>2, <1>4, <2>2, <2>3, <2>4, <2>5, <2>6
<1> QED
  BY <1>3, <1>4

-----------------------------------------------------------------------------
(***************************************************************************)
(* Types.                                                                  *)
(***************************************************************************)
Text46 == Byte \cup {46}

LEMMA CutType ==
  ASSUME NEW S, NEW t \in Seq(S)
  PROVE  Cut(t) \in Seq(S) /\ Len(Cut(t)) <= Capacity
<1>1. CASE Len(t) <= Capacity
  BY <1>1 DEF Cut
<1>2. CASE ~(Len(t) <= Capacity)
  <2>1. Capacity \in Nat /\ Len(t) \in Nat
    BY MdnsReadAssumption
  <2>2. \A i \in 1 .. Capacity : t[i] \in S
    BY <1>2, <2>1
  <2>3. SubSeq(t, 1, Capacity) \in Seq(S) /\ Len(SubSeq(t, 1, Capacity)) = IF 1 <= Capacity THEN Capacity - 1 + 1 ELSE 0
    BY <2>1, <2>2, SubSeqProperties
  <2> QED
    BY <1>2, <2>1, <2>3 DEF Cut
<1> QED
  BY <1>1, <1>2

\* The label that begins at a place and has a length.
Labelled(m, o, n) == [k \in 1 .. n |-> m[o + k - 1]]

LEMMA LabelledType ==
  ASSUME NEW size \in Nat, NEW m \in Bytes(size), NEW o \in Nat, NEW n \in Nat, o + n <= size
  PROVE  /\ Labelled(m, o, n) \in Seq(Byte) /\ Len(Labelled(m, o, n)) = n
         /\ \A k \in 1 .. n : Labelled(m, o, n)[k] = m[o + k - 1]
<1>1. ASSUME NEW k \in 1 .. n PROVE m[o + k - 1] \in Byte
  <2>1. o + k - 1 \in 0 .. size - 1
    OBVIOUS
  <2> QED
    BY <2>1, ByteAt
<1> QED
  BY <1>1 DEF Labelled

LEMMA SubstrFacts ==
  ASSUME TypeOK, ~Unreadable(Substr)
  PROVE  /\ cur < Size
         /\ Substr.offset \in Nat /\ Substr.length \in Nat
         /\ Substr.offset + Substr.length <= Size
         /\ Substr.ref <=> mdns_is_string_ref(buffer[cur])
         /\ ~Substr.ref => /\ Substr.length = buffer[cur]
                           /\ Substr.offset = IF buffer[cur] = 0 THEN cur ELSE cur + 1
         /\ counter <= MAX_SUBSTRINGS
<1>1. Size \in Nat /\ buffer \in Bytes(Size) /\ cur \in Nat /\ Substr.offset # MDNS_INVALID_POS
  BY MdnsReadAssumption DEF TypeOK, Unreadable
<1>2. counter <= MAX_SUBSTRINGS
  BY MdnsReadAssumption DEF TypeOK, Unreadable, TooMany
<1> DEFINE s == Substr
<1>3. s = mdns_get_next_substring(buffer, Size, cur) /\ s.offset # MDNS_INVALID_POS
  BY <1>1 DEF Substr
<1> HIDE DEF s
<1>4. /\ cur < Size
      /\ s.offset \in Nat /\ s.length \in Nat /\ s.offset + s.length <= Size
      /\ s.ref <=> mdns_is_string_ref(buffer[cur])
      /\ ~s.ref => s.length = buffer[cur] /\ s.offset = IF buffer[cur] = 0 THEN cur ELSE cur + 1
  BY <1>1, <1>3, SubstringFacts
<1> QED
  BY <1>2, <1>4 DEF s

LEMMA QuerySubstrFacts ==
  ASSUME rhs \in Nat, QuerySubstr.offset # MDNS_INVALID_POS
  PROVE  /\ QuerySubstr.offset \in Nat /\ QuerySubstr.length \in Nat
         /\ QuerySubstr.offset + QuerySubstr.length <= QuerySize
<1>1. QuerySize \in Nat /\ Query \in Bytes(QuerySize)
  BY MdnsReadAssumption
<1> DEFINE s == QuerySubstr
<1>2. s = mdns_get_next_substring(Query, QuerySize, rhs) /\ s.offset # MDNS_INVALID_POS
  BY DEF QuerySubstr
<1> HIDE DEF s
<1>3. s.offset \in Nat /\ s.length \in Nat /\ s.offset + s.length <= QuerySize
  BY <1>1, <1>2, SubstringFacts
<1> QED
  BY <1>3 DEF s

LEMMA CopiedType ==
  ASSUME TypeOK, ~Unreadable(Substr)
  PROVE  /\ Copied(Substr) = Cut((str \o Labelled(buffer, Substr.offset, Substr.length)) \o <<46>>)
         /\ Copied(Substr) \in Seq(Text46) /\ Len(Copied(Substr)) <= Capacity
<1>1. Substr.offset \in Nat /\ Substr.length \in Nat /\ Substr.offset + Substr.length <= Size
  BY SubstrFacts
<1>2. Labelled(buffer, Substr.offset, Substr.length) \in Seq(Text46)
  <2>1. Size \in Nat /\ buffer \in Bytes(Size)
    BY MdnsReadAssumption DEF TypeOK
  <2>2. Labelled(buffer, Substr.offset, Substr.length) \in Seq(Byte)
    BY <1>1, <2>1, LabelledType
  <2>3. Seq(Byte) \subseteq Seq(Text46)
    BY SeqMonotonic DEF Text46
  <2> QED
    BY <2>2, <2>3
<1>3. str \in Seq(Text46) /\ <<46>> \in Seq(Text46)
  BY DEF TypeOK, Text46
<1>4. Copied(Substr) = Cut((str \o Labelled(buffer, Substr.offset, Substr.length)) \o <<46>>)
  BY DEF Copied, Labelled
<1> DEFINE t == (str \o Labelled(buffer, Substr.offset, Substr.length)) \o <<46>>
<1>5. t \in Seq(Text46)
  BY <1>2, <1>3
<1> HIDE DEF t
<1>6. Cut(t) \in Seq(Text46) /\ Len(Cut(t)) <= Capacity
  BY <1>5, CutType
<1> QED
  BY <1>4, <1>6 DEF t

LEMMA TypeInit == Init => TypeOK
<1> SUFFICES ASSUME Init PROVE TypeOK
  OBVIOUS
<1>1. start \in Nat /\ Starts \subseteq Nat
  BY MdnsReadAssumption DEF Init
<1>2. str \in Seq(Byte \cup {46}) /\ Len(str) <= Capacity
  BY MdnsReadAssumption DEF Init
<1>3. names \in Seq(Nat) /\ parsed \in Seq(Nat \X Nat)
  BY <1>1 DEF Init
<1>4. counter \in 0 .. MAX_SUBSTRINGS + 1
  BY MdnsReadAssumption DEF Init
<1> QED
  BY <1>1, <1>2, <1>3, <1>4 DEF Init, TypeOK

\* What one of the loops leaves of the call.
LEMMA ReturnType ==
  ASSUME TypeOK, NEW result \in BOOLEAN, NEW o \in Nat, Return(result, o)
  PROVE  /\ call' \in {"skip", "equal", "extract", "records"}
         /\ pc' \in {call', "skip", "header", "done"}
         /\ buffer' \in Bytes(Size) /\ start' \in Starts
         /\ offset' \in Nat /\ ok' \in BOOLEAN
         /\ names' \in Seq(Nat) /\ parsed' \in Seq(Nat \X Nat)
  BY DEF Return, TypeOK, input, records

LEMMA GoOnType ==
  ASSUME TypeOK, GoOn
  PROVE  /\ call' \in {"skip", "equal", "extract", "records"}
         /\ pc' \in {call', "skip", "header", "done"}
         /\ buffer' \in Bytes(Size) /\ start' \in Starts
         /\ offset' \in Nat /\ ok' \in BOOLEAN
         /\ names' \in Seq(Nat) /\ parsed' \in Seq(Nat \X Nat)
  BY DEF GoOn, TypeOK, input, records

LEMMA EndType ==
  ASSUME TypeOK, NEW s, NEW zero \in Nat
  PROVE  /\ EndSeen(s) \in Nat \cup {MDNS_INVALID_POS}
         /\ EndOr(s, zero) \in Nat
<1>1. EndSeen(s) \in Nat \cup {MDNS_INVALID_POS}
  BY DEF TypeOK, EndSeen
<1> QED
  BY <1>1 DEF EndOr

LEMMA TypeStep == TypeOK /\ [Next]_vars => TypeOK'
<1> SUFFICES ASSUME TypeOK, [Next]_vars PROVE TypeOK'
  OBVIOUS
<1> USE DEF walk
<1>1. CASE SkipFails
  <2>1. Return(FALSE, offset) /\ offset \in Nat
    BY <1>1 DEF SkipFails, TypeOK
  <2> QED
    BY <1>1, <2>1, ReturnType DEF SkipFails, TypeOK
<1>2. CASE SkipEnd
  <2>1. PICK o : o \in Nat /\ Return(TRUE, o)
    <3>1. cur + 2 \in Nat /\ After(Substr) + 1 \in Nat
      BY <1>2, SubstrFacts DEF SkipEnd, TypeOK, After
    <3> QED
      BY <1>2, <3>1 DEF SkipEnd
  <2> QED
    BY <1>2, <2>1, ReturnType DEF SkipEnd, TypeOK
<1>3. CASE SkipLabel
  <2>1. After(Substr) \in Nat /\ counter + 1 \in 0 .. MAX_SUBSTRINGS + 1
    BY <1>3, SubstrFacts, MdnsReadAssumption DEF SkipLabel, After, TypeOK
  <2>2. GoOn
    BY <1>3 DEF SkipLabel
  <2> QED
    BY <1>3, <2>1, <2>2, GoOnType DEF SkipLabel, Counted, TypeOK
<1>4. CASE EqualFails
  <2>1. Return(FALSE, offset) /\ offset \in Nat
    BY <1>4 DEF EqualFails, TypeOK
  <2> QED
    BY <1>4, <2>1, ReturnType DEF EqualFails, TypeOK
<1>5. CASE Equal
  <2>1. After(Substr) \in Nat /\ counter + 1 \in 0 .. MAX_SUBSTRINGS + 1
    BY <1>5, SubstrFacts, MdnsReadAssumption DEF Equal, SameLabel, After, TypeOK
  <2>2. After(QuerySubstr) \in Nat
    BY <1>5, QuerySubstrFacts DEF Equal, SameLabel, After, TypeOK
  <2>3. /\ EndOr(Substr, After(Substr)) \in Nat
        /\ EndSeen(Substr) \in Nat \cup {MDNS_INVALID_POS}
    BY <2>1, EndType
  <2>4. CASE Substr.length > 0
    <3>1. GoOn /\ end' = EndSeen(Substr)
      BY <1>5, <2>4 DEF Equal
    <3> QED
      BY <1>5, <2>1, <2>2, <2>3, <3>1, GoOnType DEF Equal, Counted, TypeOK
  <2>5. CASE ~(Substr.length > 0)
    <3>1. PICK o : o \in Nat /\ Return(TRUE, o)
      BY <1>5, <2>3, <2>5 DEF Equal
    <3> QED
      BY <1>5, <2>1, <2>2, <2>5, <3>1, ReturnType DEF Equal, Counted, TypeOK
  <2> QED
    BY <2>4, <2>5
<1>6. CASE ExtractFails
  <2>1. Return(FALSE, offset) /\ offset \in Nat
    BY <1>6 DEF ExtractFails, TypeOK
  <2> QED
    BY <1>6, <2>1, ReturnType DEF ExtractFails, TypeOK
<1>7. CASE Extract
  <2>1. After(Substr) \in Nat /\ counter + 1 \in 0 .. MAX_SUBSTRINGS + 1
    BY <1>7, SubstrFacts, MdnsReadAssumption DEF Extract, After, TypeOK
  <2>2. /\ EndOr(Substr, After(Substr)) \in Nat
        /\ EndSeen(Substr) \in Nat \cup {MDNS_INVALID_POS}
    BY <2>1, EndType
  <2>3. CASE Substr.length > 0
    <3>1. GoOn /\ end' = EndSeen(Substr) /\ str' = Copied(Substr)
      BY <1>7, <2>3 DEF Extract
    <3>2. str' \in Seq(Byte \cup {46}) /\ Len(str') <= Capacity
      BY <1>7, <3>1, CopiedType DEF Extract, Text46
    <3> QED
      BY <1>7, <2>1, <2>2, <3>1, <3>2, GoOnType DEF Extract, Counted, TypeOK
  <2>4. CASE ~(Substr.length > 0)
    <3>1. PICK o : o \in Nat /\ Return(TRUE, o)
      BY <1>7, <2>2, <2>4 DEF Extract
    <3> QED
      BY <1>7, <2>1, <2>4, <3>1, ReturnType DEF Extract, Counted, TypeOK
  <2> QED
    BY <2>3, <2>4
<1>8. CASE ParseRecord
  <2> DEFINE length == buffer[offset + HeaderSize - 1]
             data == offset + HeaderSize
  <2>1. data \in Nat /\ length \in Nat
    <3>1. /\ offset \in Nat /\ HeaderSize \in Nat \ {0} /\ Size \in Nat
          /\ buffer \in Bytes(Size) /\ offset + HeaderSize <= Size
      BY <1>8, MdnsReadAssumption DEF ParseRecord, TypeOK
    <3>2. offset + HeaderSize - 1 \in 0 .. Size - 1
      BY <3>1
    <3> QED
      BY <3>1, <3>2, ByteAt
  <2>2. /\ parsed' = IF Fits(length) THEN Append(parsed, <<data, length>>) ELSE parsed
        /\ offset' = data + length /\ cur' = offset' /\ counter' = 0
        /\ pc' = IF Len(names) = MaxRecords THEN "done" ELSE "skip"
        /\ names' = IF Len(names) = MaxRecords THEN names ELSE Append(names, offset')
        /\ UNCHANGED <<input, rhs, end, str, ok>>
    BY <1>8 DEF ParseRecord
  <2> HIDE DEF length, data
  <2>3. offset' \in Nat /\ cur' \in Nat /\ <<data, length>> \in Nat \X Nat
    BY <2>1, <2>2
  <2>4. parsed' \in Seq(Nat \X Nat) /\ names' \in Seq(Nat)
    <3>1. parsed \in Seq(Nat \X Nat) /\ names \in Seq(Nat)
      BY DEF TypeOK
    <3>2. Append(parsed, <<data, length>>) \in Seq(Nat \X Nat) /\ Append(names, offset') \in Seq(Nat)
      BY <2>3, <3>1, AppendProperties
    <3> QED
      BY <2>2, <3>1, <3>2
  <2> QED
    BY <2>2, <2>3, <2>4, MdnsReadAssumption DEF TypeOK, input
<1>9. CASE RecordsEnd
  BY <1>9 DEF RecordsEnd, TypeOK, input, records
<1>10. CASE Over \/ UNCHANGED vars
  BY <1>10 DEF Over, TypeOK, vars, input, records
<1> QED
  BY <1>1, <1>2, <1>3, <1>4, <1>5, <1>6, <1>7, <1>8, <1>9, <1>10 DEF Next, Step

\* Reading any bytes keeps the types, above all the counter within its limit
\* and the string within its capacity.
THEOREM TypeCorrect == Spec => []TypeOK
  BY TypeInit, TypeStep, PTL DEF Spec

-----------------------------------------------------------------------------
(***************************************************************************)
(* Records.  Those parsed lie before *offset, which never goes back: a     *)
(* name is skipped forwards, also where it refers elsewhere.               *)
(***************************************************************************)
RecordsInv ==
  /\ RecordsInside
  /\ \A i \in DOMAIN parsed : parsed[i][1] + parsed[i][2] <= offset
  /\ pc = "skip" => offset <= cur
  /\ parsed # <<>> \/ pc = "header" => call = "records"

LEMMA RecordsInit == Init => RecordsInv
<1> SUFFICES ASSUME Init PROVE RecordsInv
  OBVIOUS
<1>1. parsed = <<>> /\ DOMAIN parsed = {} /\ offset = cur /\ offset \in Nat /\ pc # "header"
  BY MdnsReadAssumption DEF Init
<1> QED
  BY <1>1 DEF RecordsInv, RecordsInside

LEMMA RecordsStep == TypeOK /\ RecordsInv /\ [Next]_vars => RecordsInv'
<1> SUFFICES ASSUME TypeOK, RecordsInv, [Next]_vars PROVE RecordsInv'
  OBVIOUS
<1>1. CASE SkipFails
  BY <1>1 DEF SkipFails, Return, walk, records, input, RecordsInv, RecordsInside
<1>2. CASE SkipEnd
  <2>1. PICK o : Return(TRUE, o) /\ o \in Nat /\ offset <= o
    <3> DEFINE o == IF Substr.ref THEN cur + 2 ELSE After(Substr) + 1
    <3>1. pc = "skip" /\ ~Unreadable(Substr) /\ Return(TRUE, o)
      BY <1>2 DEF SkipEnd
    <3>2. offset \in Nat /\ cur \in Nat /\ offset <= cur
      BY <3>1 DEF TypeOK, RecordsInv
    <3>3. ~Substr.ref => After(Substr) \in Nat /\ cur <= After(Substr)
      <4>1. buffer[cur] \in Nat
        <5>1. buffer \in Bytes(Size) /\ Size \in Nat /\ cur < Size
          BY <3>1, SubstrFacts, MdnsReadAssumption DEF TypeOK
        <5> QED
          BY <3>2, <5>1, ByteAt
      <4> QED
        BY <3>1, <3>2, <4>1, SubstrFacts DEF After
    <3>4. o \in Nat /\ offset <= o
      BY <3>2, <3>3
    <3> QED
      BY <3>1, <3>4
  <2>2. /\ pc' = IF call = "records" THEN "header" ELSE "done"
        /\ offset' = o /\ call' = call /\ parsed' = parsed
    BY <2>1 DEF Return, input, records, TypeOK
  <2>3. ASSUME NEW i \in DOMAIN parsed PROVE parsed[i][1] + parsed[i][2] <= o
    <3>1. parsed[i] \in Nat \X Nat /\ parsed[i][1] + parsed[i][2] <= offset /\ offset \in Nat
      BY DEF TypeOK, RecordsInv
    <3> QED
      BY <2>1, <3>1
  <2> QED
    BY <2>2, <2>3 DEF RecordsInv, RecordsInside
<1>3. CASE SkipLabel
  <2>1. pc = "skip" /\ ~Unreadable(Substr) /\ ~Substr.ref /\ cur' = After(Substr) /\ GoOn
    BY <1>3 DEF SkipLabel
  <2>2. offset \in Nat /\ cur \in Nat /\ offset <= cur
    BY <2>1 DEF TypeOK, RecordsInv
  <2>3. buffer[cur] \in Nat
    <3>1. buffer \in Bytes(Size) /\ Size \in Nat /\ cur < Size
      BY <2>1, SubstrFacts, MdnsReadAssumption DEF TypeOK
    <3> QED
      BY <2>2, <3>1, ByteAt
  <2>4. offset <= cur'
    BY <2>1, <2>2, <2>3, SubstrFacts DEF After
  <2> QED
    BY <2>1, <2>4 DEF GoOn, input, records, RecordsInv, RecordsInside
<1>4. CASE EqualFails \/ Equal \/ ExtractFails \/ Extract
  <2>1. /\ pc \in {"equal", "extract"} /\ parsed' = parsed /\ call' = call
        /\ pc' \in {pc, IF call = "records" THEN "header" ELSE "done"}
    BY <1>4 DEF EqualFails, Equal, ExtractFails, Extract, Return, GoOn, input, records
  <2>2. call # "records" /\ parsed = <<>> /\ DOMAIN parsed = {}
    BY <2>1 DEF TypeOK, RecordsInv
  <2> QED
    BY <2>1, <2>2 DEF RecordsInv, RecordsInside
<1>5. CASE ParseRecord
  <2> DEFINE length == buffer[offset + HeaderSize - 1]
             data == offset + HeaderSize
  <2>1. /\ pc = "header" /\ data <= Size /\ data = offset + HeaderSize
        /\ parsed' = IF Fits(length) THEN Append(parsed, <<data, length>>) ELSE parsed
        /\ offset' = data + length /\ cur' = offset'
        /\ call' = call /\ call \in {"records", "skip", "equal", "extract"}
    BY <1>5 DEF ParseRecord, input, TypeOK
  <2>2. offset \in Nat /\ HeaderSize \in Nat /\ HeaderSize > 0 /\ Size \in Nat
    BY MdnsReadAssumption DEF TypeOK
  <2>3. length \in Nat
    <3>1. offset + HeaderSize - 1 \in 0 .. Size - 1
      BY <2>1, <2>2
    <3>2. buffer \in Bytes(Size)
      BY DEF TypeOK
    <3> QED
      BY <2>2, <3>1, <3>2, ByteAt
  <2>4. Fits(length) => data + length <= Size
    BY <2>1, <2>2, <2>3 DEF Fits
  <2>5. data \in Nat
    BY <2>2
  <2> HIDE DEF length, data
  <2>6. ASSUME NEW i \in DOMAIN parsed
        PROVE  /\ parsed[i] \in Nat \X Nat
               /\ parsed[i][1] + parsed[i][2] <= offset /\ parsed[i][1] + parsed[i][2] <= Size
    BY DEF TypeOK, RecordsInv, RecordsInside
  <2>7. offset' \in Nat /\ offset <= offset' /\ offset' <= cur'
    BY <2>1, <2>2, <2>3, <2>5
  <2>8. ASSUME NEW i \in DOMAIN parsed
        PROVE  parsed[i][1] + parsed[i][2] <= offset' /\ parsed[i][1] + parsed[i][2] + HeaderSize <= data
    BY <2>1, <2>2, <2>6, <2>7
  <2>9. CASE ~Fits(length)
    <3>1. parsed' = parsed
      BY <2>1, <2>9
    <3>2. call = "records" \/ parsed = <<>>
      BY DEF RecordsInv
    <3> QED
      BY <2>1, <2>7, <2>8, <3>1, <3>2 DEF RecordsInv, RecordsInside
  <2>10. CASE Fits(length)
    <3> DEFINE n == Len(parsed)
    <3>1. parsed' = Append(parsed, <<data, length>>) /\ parsed \in Seq(Nat \X Nat)
      BY <2>1, <2>10 DEF TypeOK
    <3>2. /\ n \in Nat /\ DOMAIN parsed = 1 .. n /\ DOMAIN parsed' = 1 .. n + 1
          /\ \A i \in 1 .. n : parsed'[i] = parsed[i]
          /\ parsed'[n + 1] = <<data, length>>
      BY <2>3, <2>5, <3>1
    <3> HIDE DEF n
    <3>3. parsed'[n + 1][1] = data /\ parsed'[n + 1][2] = length
      BY <3>2
    <3>4. ASSUME NEW i \in DOMAIN parsed'
          PROVE  parsed'[i][1] + parsed'[i][2] <= Size /\ parsed'[i][1] + parsed'[i][2] <= offset'
      <4>1. CASE i \in 1 .. n
        BY <2>6, <2>8, <3>2, <4>1
      <4>2. CASE i = n + 1
        BY <2>1, <2>3, <2>4, <2>5, <2>10, <3>3, <4>2
      <4> QED
        BY <3>2, <4>1, <4>2
    <3>5. ASSUME NEW i \in DOMAIN parsed', NEW j \in DOMAIN parsed', i < j
          PROVE  parsed'[i][1] + parsed'[i][2] + HeaderSize <= parsed'[j][1]
      <4>1. i \in 1 .. n
        BY <3>2, <3>5
      <4>2. CASE j \in 1 .. n
        <5>1. parsed[i][1] + parsed[i][2] + HeaderSize <= parsed[j][1]
          BY <3>2, <3>5, <4>1, <4>2 DEF RecordsInv, RecordsInside
        <5> QED
          BY <3>2, <4>1, <4>2, <5>1
      <4>3. CASE j = n + 1
        BY <2>8, <3>2, <3>3, <4>1, <4>3
      <4> QED
        BY <3>2, <4>2, <4>3
    <3>6. call = "records"
      BY <2>1 DEF RecordsInv
    <3> QED
      BY <2>1, <2>7, <3>4, <3>5, <3>6 DEF RecordsInv, RecordsInside
  <2> QED
    BY <2>9, <2>10
<1>6. CASE RecordsEnd \/ Over \/ UNCHANGED vars
  BY <1>6 DEF RecordsEnd, Over, vars, records, input, walk, RecordsInv, RecordsInside
<1> QED
  BY <1>1, <1>2, <1>3, <1>4, <1>5, <1>6 DEF Next, Step

\* Whatever the names and lengths in a message, what mdns_records_parse gives
\* to the callback lies inside the message, one record after the other.
THEOREM AlwaysInside == Spec => []RecordsInside
<1>1. TypeOK /\ RecordsInv /\ [Next]_vars => TypeOK' /\ RecordsInv'
  BY TypeStep, RecordsStep
<1>2. RecordsInv => RecordsInside
  BY DEF RecordsInv
<1> QED
  BY TypeInit, RecordsInit, <1>1, <1>2, PTL DEF Spec

-----------------------------------------------------------------------------
(***************************************************************************)
(* Where names end.                                                        *)
(***************************************************************************)

\* One step of the recursion of EndsAt.
EndsOf(e, p) ==
  IF p = Size THEN {}
  ELSE IF buffer[p] = 0 THEN {p + 1}
  ELSE IF mdns_is_string_ref(buffer[p]) THEN {p + 2}
  ELSE IF p + 1 + buffer[p] < Size THEN e[p + 1 + buffer[p]] ELSE {}

LEMMA EndsOfType ==
  ASSUME buffer \in Bytes(Size), NEW e \in [0 .. Size -> SUBSET Nat], NEW p \in 0 .. Size
  PROVE  EndsOf(e, p) \in SUBSET Nat
<1>1. Size \in Nat
  BY MdnsReadAssumption
<1>2. CASE p = Size
  BY <1>2 DEF EndsOf
<1>3. CASE p # Size
  <2>1. p \in 0 .. Size - 1
    BY <1>1, <1>3
  <2>2. buffer[p] \in 0 .. 255
    BY <1>1, <2>1, ByteAt
  <2>3. {p + 1} \in SUBSET Nat /\ {p + 2} \in SUBSET Nat /\ {} \in SUBSET Nat
    BY <1>1
  <2>4. p + 1 + buffer[p] < Size => e[p + 1 + buffer[p]] \in SUBSET Nat
    <3>1. \A b \in 0 .. 255 : p + 1 + b < Size => p + 1 + b \in 0 .. Size
      BY <1>1, <2>1
    <3> QED
      BY <2>2, <3>1
  <2> QED
    BY <2>3, <2>4 DEF EndsOf
<1> QED
  BY <1>2, <1>3

\* The recursion has a solution: it only looks further on.
LEMMA EndsExist ==
  ASSUME buffer \in Bytes(Size)
  PROVE  \E e : e = [p \in 0 .. Size |-> EndsOf(e, p)]
<1>0. ASSUME NEW p \in 0 .. Size - 1 PROVE buffer[p] \in Nat
  <2>1. buffer[p] \in 0 .. 255
    BY ByteAt, MdnsReadAssumption
  <2> QED
    BY <2>1
<1> DEFINE D == [0 .. Size -> SUBSET Nat]
           none == [p \in 0 .. Size |-> {}]
           S == [k \in Nat |-> [e \in D |-> [p \in 0 .. Size |-> EndsOf(e, p)]]]
<1>1. Size \in Nat
  BY MdnsReadAssumption
<1>2. none \in D
  OBVIOUS
<1>3. S \in [Nat -> [D -> D]]
  BY EndsOfType
<1>4. PICK f : Sequence(f, D, none, S)
  <2> HIDE DEF D, none, S
  <2> QED
    BY <1>2, <1>3, SequenceExists
<1>5. \A k \in Nat : f[k] \in D /\ f[k + 1] = S[k][f[k]]
  <2> HIDE DEF D, none, S
  <2> QED
    BY <1>4 DEF Sequence
<1>6. \A k \in Nat : f[k + 1] = [p \in 0 .. Size |-> EndsOf(f[k], p)]
  <2> SUFFICES ASSUME NEW k \in Nat PROVE f[k + 1] = [p \in 0 .. Size |-> EndsOf(f[k], p)]
    OBVIOUS
  <2>1. f[k] \in D /\ f[k + 1] = S[k][f[k]]
    BY <1>5
  <2> HIDE DEF D
  <2> QED
    BY <2>1
<1> HIDE DEF S, none
<1> DEFINE T == {k \in Nat : \A p \in 0 .. Size : p > Size - k => f[k + 1][p] = f[k][p]}
<1>7. 0 \in T
  BY <1>1
<1>8. ASSUME NEW k \in T PROVE k + 1 \in T
  <2> SUFFICES ASSUME NEW p \in 0 .. Size, p > Size - (k + 1)
               PROVE  f[(k + 1) + 1][p] = f[k + 1][p]
    BY <1>8
  <2>1. k \in Nat /\ k + 1 \in Nat
    BY <1>8
  <2>2. f[(k + 1) + 1][p] = EndsOf(f[k + 1], p) /\ f[k + 1][p] = EndsOf(f[k], p)
    BY <1>6, <2>1
  <2>3. CASE p = Size
    BY <2>2, <2>3 DEF EndsOf
  <2>4. CASE p # Size
    <3>1. buffer[p] \in Nat
      <4>1. p \in 0 .. Size - 1
        BY <1>1, <2>4
      <4> QED
        BY <1>0, <4>1
    <3>2. CASE p + 1 + buffer[p] < Size
      <4>1. p + 1 + buffer[p] \in 0 .. Size /\ p + 1 + buffer[p] > Size - k
        BY <1>1, <2>1, <3>1, <3>2
      <4>2. f[k + 1][p + 1 + buffer[p]] = f[k][p + 1 + buffer[p]]
        BY <1>8, <4>1
      <4> QED
        BY <2>2, <4>2 DEF EndsOf
    <3>3. CASE ~(p + 1 + buffer[p] < Size)
      BY <2>2, <3>3 DEF EndsOf
    <3> QED
      BY <3>2, <3>3
  <2> QED
    BY <2>3, <2>4
<1>9. Nat \subseteq T
  <2> HIDE DEF T
  <2> QED
    BY <1>7, <1>8, AllNumbers
<1>10. Size + 1 \in Nat /\ \A p \in 0 .. Size : p > Size - (Size + 1)
  BY <1>1
<1>11. \A p \in 0 .. Size : f[(Size + 1) + 1][p] = f[Size + 1][p]
  BY <1>9, <1>10
<1>12. f[(Size + 1) + 1] = f[Size + 1]
  <2> DEFINE a == f[(Size + 1) + 1]
             b == f[Size + 1]
  <2>1. a \in D /\ b \in D
    <3>1. (Size + 1) + 1 \in Nat
      BY <1>1
    <3> HIDE DEF D
    <3> QED
      BY <1>5, <1>10, <3>1
  <2>2. \A p \in 0 .. Size : a[p] = b[p]
    BY <1>11
  <2> HIDE DEF a, b
  <2>3. a = [p \in 0 .. Size |-> a[p]] /\ b = [p \in 0 .. Size |-> b[p]]
    BY <2>1
  <2>4. a = b
    BY <2>2, <2>3
  <2> QED
    BY <2>4 DEF a, b
<1>13. f[(Size + 1) + 1] = [p \in 0 .. Size |-> EndsOf(f[Size + 1], p)]
  BY <1>6, <1>10
<1> QED
  BY <1>12, <1>13

LEMMA EndsEquation ==
  ASSUME buffer \in Bytes(Size), NEW p \in 0 .. Size
  PROVE  EndsAt(p) = IF p = Size THEN {}
                     ELSE IF buffer[p] = 0 THEN {p + 1}
                     ELSE IF mdns_is_string_ref(buffer[p]) THEN {p + 2}
                     ELSE IF p + 1 + buffer[p] < Size THEN EndsAt(p + 1 + buffer[p]) ELSE {}
<1> DEFINE W(e) == [q \in 0 .. Size |-> IF q = Size THEN {}
                     ELSE IF buffer[q] = 0 THEN {q + 1}
                     ELSE IF mdns_is_string_ref(buffer[q]) THEN {q + 2}
                     ELSE IF q + 1 + buffer[q] < Size THEN e[q + 1 + buffer[q]] ELSE {}]
           ends == CHOOSE e : e = W(e)
<1>1. \E e : e = W(e)
  BY EndsExist DEF EndsOf
<1>2. ends = W(ends)
  BY <1>1
<1>3. \A q : EndsAt(q) = ends[q]
  BY DEF EndsAt
<1> HIDE DEF ends
<1>4. ends[p] = IF p = Size THEN {}
                ELSE IF buffer[p] = 0 THEN {p + 1}
                ELSE IF mdns_is_string_ref(buffer[p]) THEN {p + 2}
                ELSE IF p + 1 + buffer[p] < Size THEN ends[p + 1 + buffer[p]] ELSE {}
  BY <1>2
<1> QED
  BY <1>3, <1>4

LEMMA SubstrEnds ==
  ASSUME TypeOK, ~Unreadable(Substr)
  PROVE  /\ Substr.ref => EndsAt(cur) = {cur + 2}
         /\ ~Substr.ref /\ Substr.length = 0 => EndsAt(cur) = {After(Substr) + 1}
         /\ ~Substr.ref /\ Substr.length > 0 => EndsAt(cur) = EndsAt(After(Substr))
<1>1. /\ cur \in 0 .. Size - 1 /\ cur \in 0 .. Size /\ cur # Size
      /\ Size \in Nat /\ buffer \in Bytes(Size)
  BY SubstrFacts, MdnsReadAssumption DEF TypeOK
<1>2. buffer[cur] \in 0 .. 255
  BY <1>1, ByteAt
<1>3. EndsAt(cur) = IF buffer[cur] = 0 THEN {cur + 1}
                    ELSE IF mdns_is_string_ref(buffer[cur]) THEN {cur + 2}
                    ELSE IF cur + 1 + buffer[cur] < Size
                         THEN EndsAt(cur + 1 + buffer[cur]) ELSE {}
  BY <1>1, EndsEquation
<1>4. CASE Substr.ref
  BY <1>2, <1>3, <1>4, SubstrFacts DEF mdns_is_string_ref
<1>5. CASE ~Substr.ref /\ Substr.length = 0
  BY <1>3, <1>5, SubstrFacts DEF After
<1>6. CASE ~Substr.ref /\ Substr.length > 0
  <2>1. After(Substr) = cur + 1 + buffer[cur] /\ After(Substr) <= Size /\ buffer[cur] # 0
    BY <1>1, <1>2, <1>6, SubstrFacts DEF After
  <2>2. EndsAt(Size) = {}
    BY <1>1, EndsEquation
  <2> QED
    BY <1>1, <1>2, <1>3, <1>6, <2>1, <2>2, SubstrFacts
<1> QED
  BY <1>2, <1>4, <1>5, <1>6, SubstrFacts

EndsInv ==
  /\ EndsAgree
  /\ call # "records" /\ pc # "done" =>
       /\ pc = call /\ offset = start /\ cur \in 0 .. Size
       /\ IF end = MDNS_INVALID_POS THEN EndsAt(cur) = EndsAt(start) ELSE {end} = EndsAt(start)
       /\ call = "skip" => end = MDNS_INVALID_POS

LEMMA EndsKept ==
  ASSUME UNCHANGED input, NEW p, cur' = p
  PROVE  EndsAt(start)' = EndsAt(start) /\ EndsAt(cur)' = EndsAt(p)
<1>1. buffer' = buffer /\ start' = start
  BY DEF input
<1> QED
  BY <1>1 DEF EndsAt

\* A label leads on, the first reference ends the name.
LEMMA EndsLabel ==
  ASSUME TypeOK, EndsInv, call # "records", pc # "done", ~Unreadable(Substr), Substr.length > 0
  PROVE  /\ After(Substr) \in 0 .. Size
         /\ IF EndSeen(Substr) = MDNS_INVALID_POS THEN EndsAt(After(Substr)) = EndsAt(start)
                                                  ELSE {EndSeen(Substr)} = EndsAt(start)
<1>1. After(Substr) \in 0 .. Size /\ cur \in Nat /\ cur + 2 # MDNS_INVALID_POS
  BY SubstrFacts, MdnsReadAssumption DEF After, TypeOK, MDNS_INVALID_POS
<1>2. CASE end = MDNS_INVALID_POS
  BY <1>1, <1>2, SubstrEnds DEF EndsInv, EndSeen
<1>3. CASE end # MDNS_INVALID_POS
  BY <1>1, <1>3 DEF EndsInv, EndSeen
<1> QED
  BY <1>1, <1>2, <1>3

LEMMA EndsZero ==
  ASSUME TypeOK, EndsInv, call # "records", pc # "done", ~Unreadable(Substr), Substr.length = 0
  PROVE  {EndOr(Substr, After(Substr))} = EndsAt(start)
<1>1. cur \in Nat /\ cur + 2 # MDNS_INVALID_POS
  BY DEF TypeOK, MDNS_INVALID_POS
<1>2. CASE end = MDNS_INVALID_POS
  BY <1>1, <1>2, SubstrEnds, SubstrFacts DEF EndsInv, EndSeen, EndOr
<1>3. CASE end # MDNS_INVALID_POS
  BY <1>1, <1>3 DEF EndsInv, EndSeen, EndOr
<1> QED
  BY <1>2, <1>3

LEMMA EndsInit == Init => EndsInv
<1> SUFFICES ASSUME Init PROVE EndsInv
  OBVIOUS
<1>1. cur \in 0 .. Size /\ cur = start /\ offset = start /\ end = MDNS_INVALID_POS
  BY MdnsReadAssumption DEF Init
<1>2. call # "records" => pc = call /\ call \in {"skip", "equal", "extract"}
  BY DEF Init
<1> QED
  BY <1>1, <1>2 DEF EndsInv, EndsAgree

LEMMA EndsStep == TypeOK /\ RecordsInv /\ EndsInv /\ [Next]_vars => EndsInv'
<1> SUFFICES ASSUME TypeOK, RecordsInv, EndsInv, [Next]_vars PROVE EndsInv'
  OBVIOUS
<1>1. UNCHANGED input /\ call' = call /\ start' = start
  BY DEF Next, Step, SkipFails, SkipEnd, SkipLabel, EqualFails, Equal, ExtractFails, Extract,
         ParseRecord, RecordsEnd, Over, Return, GoOn, vars, input
<1>2. PICK p : cur' = p
  OBVIOUS
<1>3. EndsAt(start)' = EndsAt(start) /\ EndsAt(cur)' = EndsAt(p)
  BY <1>1, <1>2, EndsKept
<1>4. CASE call = "records"
  BY <1>1, <1>4 DEF EndsInv, EndsAgree
<1>5. CASE call # "records" /\ pc = "done"
  <2>1. UNCHANGED vars
    BY <1>5 DEF Next, Step, SkipFails, SkipEnd, SkipLabel, EqualFails, Equal, ExtractFails, Extract,
                ParseRecord, RecordsEnd, Over
  <2>2. pc' = pc /\ ok' = ok /\ offset' = offset
    BY <2>1 DEF vars
  <2> QED
    BY <1>1, <1>3, <1>5, <2>2 DEF EndsInv, EndsAgree
<1>6. CASE call # "records" /\ pc # "done"
  <2>1. pc = call /\ offset = start /\ cur \in 0 .. Size
    BY <1>6 DEF EndsInv
  <2>2. ASSUME NEW result, NEW o, Return(result, o),
               IF result THEN {o} = EndsAt(start) ELSE o = start
        PROVE  EndsInv'
    <3>1. pc' = "done" /\ ok' = result /\ offset' = o
      BY <1>6, <2>2 DEF Return
    <3> QED
      BY <1>1, <1>3, <2>2, <3>1 DEF EndsInv, EndsAgree
  <2>3. ASSUME GoOn, p \in 0 .. Size, call = "skip" => end' = MDNS_INVALID_POS,
               IF end' = MDNS_INVALID_POS THEN EndsAt(p) = EndsAt(start) ELSE {end'} = EndsAt(start)
        PROVE  EndsInv'
    <3>1. pc' = pc /\ offset' = offset
      BY <2>3 DEF GoOn
    <3> QED
      BY <1>1, <1>2, <1>3, <1>6, <2>1, <2>3, <3>1 DEF EndsInv, EndsAgree
  <2>4. CASE SkipFails \/ EqualFails \/ ExtractFails
    <3>1. Return(FALSE, offset)
      BY <2>4 DEF SkipFails, EqualFails, ExtractFails
    <3> QED
      BY <2>1, <2>2, <3>1
  <2>5. CASE SkipEnd
    <3>1. /\ call = "skip" /\ ~Unreadable(Substr) /\ (Substr.ref \/ Substr.length = 0)
          /\ Return(TRUE, IF Substr.ref THEN cur + 2 ELSE After(Substr) + 1)
      BY <2>1, <2>5 DEF SkipEnd
    <3>2. end = MDNS_INVALID_POS /\ EndsAt(cur) = EndsAt(start)
      BY <1>6, <3>1 DEF EndsInv
    <3>3. {IF Substr.ref THEN cur + 2 ELSE After(Substr) + 1} = EndsAt(start)
      BY <3>1, <3>2, SubstrEnds
    <3> QED
      BY <2>2, <3>1, <3>3
  <2>6. CASE SkipLabel
    <3>1. /\ call = "skip" /\ ~Unreadable(Substr) /\ ~Substr.ref /\ Substr.length > 0
          /\ p = After(Substr) /\ GoOn /\ end' = end
      BY <1>2, <2>1, <2>6 DEF SkipLabel
    <3>2. end = MDNS_INVALID_POS /\ EndSeen(Substr) = end
      BY <1>6, <3>1 DEF EndsInv, EndSeen
    <3> QED
      BY <1>6, <2>3, <3>1, <3>2, EndsLabel
  <2>7. CASE Equal \/ Extract
    <3>1. /\ pc \in {"equal", "extract"} /\ ~Unreadable(Substr) /\ p = After(Substr)
          /\ IF Substr.length > 0 THEN GoOn /\ end' = EndSeen(Substr)
                                  ELSE Return(TRUE, EndOr(Substr, After(Substr)))
      BY <1>2, <2>7 DEF Equal, Extract, SameLabel
    <3>2. call # "skip"
      BY <2>1, <3>1
    <3>3. CASE Substr.length > 0
      BY <1>6, <2>3, <3>1, <3>2, <3>3, EndsLabel
    <3>4. CASE ~(Substr.length > 0)
      <4>1. Substr.length = 0
        BY <3>1, <3>4, SubstrFacts
      <4> QED
        BY <1>6, <2>2, <3>1, <3>4, <4>1, EndsZero
    <3> QED
      BY <3>3, <3>4
  <2>8. CASE ParseRecord \/ RecordsEnd
    BY <1>6, <2>8 DEF ParseRecord, RecordsEnd, RecordsInv
  <2>9. CASE Over \/ UNCHANGED vars
    <3>1. pc' = pc /\ offset' = offset /\ ok' = ok /\ end' = end /\ p = cur
      BY <1>2, <2>9 DEF Over, vars, walk
    <3> QED
      BY <1>1, <1>2, <1>3, <1>6, <3>1 DEF EndsInv, EndsAgree
  <2> QED
    BY <2>4, <2>5, <2>6, <2>7, <2>8, <2>9 DEF Next, Step
<1> QED
  BY <1>4, <1>5, <1>6

\* For any message and limits: mdns_string_skip, _equal and _extract agree on
\* where a name ends, and leave *offset alone when they fail.
THEOREM AgreeOnEnds == Spec => []EndsAgree
<1>1. TypeOK /\ RecordsInv /\ EndsInv /\ [Next]_vars => TypeOK' /\ RecordsInv' /\ EndsInv'
  BY TypeStep, RecordsStep, EndsStep
<1>2. EndsInv => EndsAgree
  BY DEF EndsInv
<1> QED
  BY TypeInit, RecordsInit, EndsInit, <1>1, <1>2, PTL DEF Spec

-----------------------------------------------------------------------------
(***************************************************************************)
(* The names of RFC 1035.                                                  *)
(***************************************************************************)
Labels == Seq(Seq(Byte))
NameSets(size) == [0 .. size -> SUBSET Labels]

\* One step of the recursion of NamesAt.
NamesOf(m, size, r, p) ==
  IF p = size THEN {}
  ELSE IF m[p] = 0 THEN {<<>>}
  ELSE IF mdns_is_string_ref(m[p])
       THEN IF p + 1 < size /\ Reference(m, p) < size THEN r[Reference(m, p)] ELSE {}
  ELSE IF p + 1 + m[p] < size
       THEN {<<LabelAt(m, p)>> \o rest : rest \in r[p + 1 + m[p]]} ELSE {}

LEMMA LabelAtType ==
  ASSUME NEW size \in Nat, NEW m \in Bytes(size), NEW p \in 0 .. size - 1, p + 1 + m[p] <= size
  PROVE  LabelAt(m, p) \in Seq(Byte) /\ Len(LabelAt(m, p)) = m[p]
<1>1. m[p] \in 0 .. 255
  BY ByteAt
<1> DEFINE n == m[p]
<1>2. n \in Nat /\ p + 1 + n <= size
  BY <1>1
<1> HIDE DEF n
<1>3. ASSUME NEW j \in 1 .. n PROVE m[p + j] \in Byte
  <2>1. p + j \in 0 .. size - 1
    BY <1>2
  <2> QED
    BY <2>1, ByteAt
<1>4. LabelAt(m, p) = [j \in 1 .. n |-> m[p + j]]
  BY DEF LabelAt, n
<1>5. LabelAt(m, p) \in Seq(Byte) /\ Len(LabelAt(m, p)) = n
  BY <1>2, <1>3, <1>4
<1> QED
  BY <1>5 DEF n

LEMMA PrefixedType ==
  ASSUME NEW label \in Seq(Byte), NEW R \in SUBSET Labels
  PROVE  {<<label>> \o rest : rest \in R} \in SUBSET Labels
<1>1. ASSUME NEW rest \in R PROVE <<label>> \o rest \in Labels
  BY DEF Labels
<1> QED
  BY <1>1

LEMMA NamesOfType ==
  ASSUME NEW size \in Nat, NEW m \in Bytes(size), NEW r \in NameSets(size), NEW p \in 0 .. size
  PROVE  NamesOf(m, size, r, p) \in SUBSET Labels
<1>1. CASE p = size
  BY <1>1 DEF NamesOf
<1>2. CASE p # size /\ m[p] = 0
  <2>1. {<<>>} \in SUBSET Labels
    BY DEF Labels
  <2> QED
    BY <1>2, <2>1 DEF NamesOf
<1>3. CASE p # size /\ m[p] # 0 /\ mdns_is_string_ref(m[p])
  <2>1. CASE p + 1 < size /\ Reference(m, p) < size
    <3>1. Reference(m, p) \in 0 .. size
      BY <1>3, <2>1, ReferenceType
    <3>2. r[Reference(m, p)] \in SUBSET Labels
      BY <3>1 DEF NameSets
    <3> QED
      BY <1>3, <2>1, <3>2 DEF NamesOf
  <2>2. CASE ~(p + 1 < size /\ Reference(m, p) < size)
    <3>1. NamesOf(m, size, r, p) = {}
      BY <1>3, <2>2 DEF NamesOf
    <3> QED
      BY <3>1
  <2> QED
    BY <2>1, <2>2
<1>4. CASE p # size /\ m[p] # 0 /\ ~mdns_is_string_ref(m[p])
  <2>1. CASE p + 1 + m[p] < size
    <3>1. p \in 0 .. size - 1
      BY <1>4
    <3>2. m[p] \in 0 .. 255
      BY <3>1, ByteAt
    <3>3. \A b \in 0 .. 255 : p + 1 + b < size => p + 1 + b \in 0 .. size /\ p + 1 + b <= size
      BY <3>1
    <3>4. p + 1 + m[p] \in 0 .. size /\ p + 1 + m[p] <= size
      BY <2>1, <3>2, <3>3
    <3>5. r[p + 1 + m[p]] \in SUBSET Labels
      BY <3>4 DEF NameSets
    <3>6. LabelAt(m, p) \in Seq(Byte)
      BY <3>1, <3>4, LabelAtType
    <3>7. {<<LabelAt(m, p)>> \o rest : rest \in r[p + 1 + m[p]]} \in SUBSET Labels
      BY <3>5, <3>6, PrefixedType
    <3> QED
      BY <1>4, <2>1, <3>7 DEF NamesOf
  <2>2. CASE ~(p + 1 + m[p] < size)
    <3>1. NamesOf(m, size, r, p) = {}
      BY <1>4, <2>2 DEF NamesOf
    <3> QED
      BY <3>1
  <2> QED
    BY <2>1, <2>2
<1> QED
  BY <1>1, <1>2, <1>3, <1>4

\* f[n] are the names that are read in n labels and references, at each place.
Readings(f, m, size) ==
  /\ f \in [Nat -> NameSets(size)]
  /\ f[0] = [p \in 0 .. size |-> {}]
  /\ \A k \in Nat : f[k + 1] = [p \in 0 .. size |-> NamesOf(m, size, f[k], p)]

LEMMA ReadingsExist ==
  ASSUME NEW size \in Nat, NEW m \in Bytes(size)
  PROVE  \E f : Readings(f, m, size)
<1> DEFINE D == NameSets(size)
           none == [p \in 0 .. size |-> {}]
           S == [k \in Nat |-> [r \in D |-> [p \in 0 .. size |-> NamesOf(m, size, r, p)]]]
<1>1. none \in D
  BY DEF NameSets
<1>2. S \in [Nat -> [D -> D]]
  <2>1. ASSUME NEW r \in D PROVE [p \in 0 .. size |-> NamesOf(m, size, r, p)] \in D
    <3>1. \A p \in 0 .. size : NamesOf(m, size, r, p) \in SUBSET Labels
      BY NamesOfType
    <3> QED
      BY <3>1 DEF NameSets
  <2> HIDE DEF D
  <2> QED
    BY <2>1
<1>3. PICK f : Sequence(f, D, none, S)
  <2> HIDE DEF D, none, S
  <2> QED
    BY <1>1, <1>2, SequenceExists
<1>4. f \in [Nat -> D] /\ f[0] = none /\ \A k \in Nat : f[k] \in D /\ f[k + 1] = S[k][f[k]]
  <2> HIDE DEF D, none, S
  <2> QED
    BY <1>3 DEF Sequence
<1>5. ASSUME NEW k \in Nat PROVE f[k + 1] = [p \in 0 .. size |-> NamesOf(m, size, f[k], p)]
  <2>1. f[k] \in D /\ f[k + 1] = S[k][f[k]]
    BY <1>4
  <2> HIDE DEF D
  <2> QED
    BY <2>1
<1>6. f \in [Nat -> NameSets(size)] /\ f[0] = [p \in 0 .. size |-> {}]
  BY <1>4
<1>7. \A k \in Nat : f[k + 1] = [p \in 0 .. size |-> NamesOf(m, size, f[k], p)]
  BY <1>5
<1> HIDE DEF S, none, D
<1>8. Readings(f, m, size)
  BY <1>6, <1>7 DEF Readings
<1> QED
  BY <1>8

LEMMA NamesRead ==
  ASSUME NEW size \in Nat, NEW m \in Bytes(size), NEW f, Readings(f, m, size),
         NEW n \in Nat, NEW o \in 0 .. size
  PROVE  NamesAt(m, size, o, n) = f[n][o]
<1> DEFINE Body(g, k, p) ==
             IF k = 0 \/ p = size THEN {}
             ELSE IF m[p] = 0 THEN {<<>>}
             ELSE IF mdns_is_string_ref(m[p])
                  THEN IF p + 1 < size /\ Reference(m, p) < size
                       THEN g[k - 1][Reference(m, p)] ELSE {}
             ELSE IF p + 1 + m[p] < size
                  THEN {<<LabelAt(m, p)>> \o rest : rest \in g[k - 1][p + 1 + m[p]]}
                  ELSE {}
           W(g) == [k \in 0 .. n |-> [p \in 0 .. size |-> Body(g, k, p)]]
           read == CHOOSE g : g = W(g)
           h == [k \in 0 .. n |-> f[k]]
<1>1. NamesAt(m, size, o, n) = read[n][o]
  BY DEF NamesAt
<1>2. \A g, k, p : k # 0 => Body(g, k, p) = NamesOf(m, size, g[k - 1], p)
  BY DEF NamesOf
<1>3. \A g, p : Body(g, 0, p) = {}
  OBVIOUS
<1> HIDE DEF Body
<1>4. \A g, k : k \in 0 .. n /\ k # 0 =>
        [p \in 0 .. size |-> Body(g, k, p)] = [p \in 0 .. size |-> NamesOf(m, size, g[k - 1], p)]
  BY <1>2
<1>5. \A g : [p \in 0 .. size |-> Body(g, 0, p)] = [p \in 0 .. size |-> {}]
  BY <1>3
<1> DEFINE Row(g, k) == [p \in 0 .. size |-> Body(g, k, p)]
<1>6. ASSUME NEW k \in 0 .. n PROVE h[k] = Row(h, k)
  <2>1. CASE k = 0
    BY <1>5, <2>1 DEF Readings
  <2>2. CASE k # 0
    <3>1. k - 1 \in Nat /\ (k - 1) + 1 = k /\ k - 1 \in 0 .. n
      BY <2>2
    <3>2. f[k] = [p \in 0 .. size |-> NamesOf(m, size, f[k - 1], p)]
      BY <3>1 DEF Readings
    <3>3. h[k] = f[k] /\ h[k - 1] = f[k - 1]
      BY <3>1
    <3>4. Row(h, k) = [p \in 0 .. size |-> NamesOf(m, size, h[k - 1], p)]
      BY <1>4, <2>2
    <3> HIDE DEF h, Row
    <3> QED
      BY <3>2, <3>3, <3>4
  <2> QED
    BY <2>1, <2>2
<1>7. h = W(h)
  <2>1. W(h) = [k \in 0 .. n |-> Row(h, k)]
    OBVIOUS
  <2> HIDE DEF Row, W
  <2>2. h = [k \in 0 .. n |-> h[k]]
    OBVIOUS
  <2> HIDE DEF h
  <2> QED
    BY <1>6, <2>1, <2>2
<1>8. read = W(read)
  <2> HIDE DEF W, h
  <2> QED
    BY <1>7
<1> HIDE DEF read
<1>9. \A k \in 0 .. n : read[k] = Row(read, k)
  BY <1>8
<1> HIDE DEF Row
<1> DEFINE T == {k \in Nat : k <= n => read[k] = f[k]}
<1>10. 0 \in T
  <2>1. 0 \in 0 .. n
    OBVIOUS
  <2>2. read[0] = [p \in 0 .. size |-> {}]
    BY <1>5, <1>9, <2>1 DEF Row
  <2> QED
    BY <2>2 DEF Readings
<1>11. ASSUME NEW k \in T PROVE k + 1 \in T
  <2> SUFFICES ASSUME k + 1 <= n PROVE read[k + 1] = f[k + 1]
    BY <1>11
  <2>1. k \in Nat /\ k <= n /\ k + 1 \in 0 .. n /\ k + 1 # 0 /\ (k + 1) - 1 = k
    BY <1>11
  <2>2. read[k + 1] = [p \in 0 .. size |-> NamesOf(m, size, read[(k + 1) - 1], p)]
    <3>1. read[k + 1] = Row(read, k + 1)
      BY <1>9, <2>1
    <3>2. [p \in 0 .. size |-> Body(read, k + 1, p)]
            = [p \in 0 .. size |-> NamesOf(m, size, read[(k + 1) - 1], p)]
      BY <1>4, <2>1
    <3> QED
      BY <3>1, <3>2 DEF Row
  <2>3. read[k] = f[k]
    BY <1>11, <2>1
  <2>4. f[k + 1] = [p \in 0 .. size |-> NamesOf(m, size, f[k], p)]
    BY <2>1 DEF Readings
  <2> QED
    BY <2>1, <2>2, <2>3, <2>4
<1> HIDE DEF T
<1>12. Nat \subseteq T
  BY <1>10, <1>11, AllNumbers
<1> QED
  BY <1>1, <1>12 DEF T

LEMMA ReadingsNext ==
  ASSUME NEW size \in Nat, NEW m, NEW f, Readings(f, m, size), NEW k \in Nat, NEW p \in 0 .. size
  PROVE  f[k + 1][p] = NamesOf(m, size, f[k], p)
<1>1. f[k + 1] = [q \in 0 .. size |-> NamesOf(m, size, f[k], q)]
  BY DEF Readings
<1> QED
  BY <1>1

\* Reading on adds nothing where something was read.
LEMMA ReadingsKeep ==
  ASSUME NEW size \in Nat, NEW m \in Bytes(size), NEW f, Readings(f, m, size)
  PROVE  \A k \in Nat : \A p \in 0 .. size : f[k][p] # {} => f[k + 1][p] = f[k][p]
<1> DEFINE T == {k \in Nat : \A p \in 0 .. size : f[k][p] # {} => f[k + 1][p] = f[k][p]}
<1>1. \A k \in Nat : \A p \in 0 .. size : f[k + 1][p] = NamesOf(m, size, f[k], p)
  BY ReadingsNext
<1>2. 0 \in T
  BY DEF Readings
<1>3. ASSUME NEW k \in T PROVE k + 1 \in T
  <2> SUFFICES ASSUME NEW p \in 0 .. size, f[k + 1][p] # {}
               PROVE  f[(k + 1) + 1][p] = f[k + 1][p]
    BY <1>3
  <2>1. f[k + 1][p] = NamesOf(m, size, f[k], p) /\ f[(k + 1) + 1][p] = NamesOf(m, size, f[k + 1], p)
    BY <1>1, <1>3
  <2>2. CASE p = size \/ m[p] = 0
    BY <2>1, <2>2 DEF NamesOf
  <2>3. CASE p # size /\ m[p] # 0 /\ mdns_is_string_ref(m[p])
    <3>1. p + 1 < size /\ Reference(m, p) < size /\ f[k][Reference(m, p)] # {}
      BY <2>1, <2>3 DEF NamesOf
    <3>2. Reference(m, p) \in 0 .. size
      BY <2>3, <3>1, ReferenceType
    <3>3. f[k + 1][Reference(m, p)] = f[k][Reference(m, p)]
      BY <1>3, <3>1, <3>2
    <3> QED
      BY <2>1, <2>3, <3>1, <3>3 DEF NamesOf
  <2>4. CASE p # size /\ m[p] # 0 /\ ~mdns_is_string_ref(m[p])
    <3> DEFINE q == p + 1 + m[p]
    <3>1. q < size /\ f[k][q] # {}
      BY <2>1, <2>4 DEF NamesOf
    <3>2. q \in 0 .. size
      <4>1. m[p] \in 0 .. 255
        BY <2>4, ByteAt
      <4>2. \A b \in 0 .. 255 : p + 1 + b < size => p + 1 + b \in 0 .. size
        OBVIOUS
      <4> QED
        BY <3>1, <4>1, <4>2
    <3>3. f[k + 1][q] = f[k][q]
      BY <1>3, <3>1, <3>2
    <3> QED
      BY <2>1, <2>4, <3>1, <3>3 DEF NamesOf
  <2> QED
    BY <2>2, <2>3, <2>4
<1> HIDE DEF T
<1>4. Nat \subseteq T
  BY <1>2, <1>3, AllNumbers
<1> QED
  BY <1>4 DEF T

LEMMA ReadingsKeepOn ==
  ASSUME NEW size \in Nat, NEW m \in Bytes(size), NEW f, Readings(f, m, size),
         NEW k \in Nat, NEW p \in 0 .. size, f[k][p] # {}
  PROVE  \A i \in Nat : f[k + i][p] = f[k][p]
<1> DEFINE T == {i \in Nat : f[k + i][p] = f[k][p]}
<1>1. 0 \in T
  OBVIOUS
<1>2. ASSUME NEW i \in T PROVE i + 1 \in T
  <2>1. i \in Nat /\ k + i \in Nat /\ (k + i) + 1 = k + (i + 1) /\ f[k + i][p] = f[k][p]
    BY <1>2
  <2>2. f[(k + i) + 1][p] = f[k + i][p]
    BY <2>1, ReadingsKeep
  <2> QED
    BY <2>1, <2>2
<1> HIDE DEF T
<1>3. Nat \subseteq T
  BY <1>1, <1>2, AllNumbers
<1> QED
  BY <1>3 DEF T

\* A step after which nothing is new comes before there are more steps than
\* places: each step before it finds something at one more place.
LEMMA ReadingsStop ==
  ASSUME NEW size \in Nat, NEW m \in Bytes(size), NEW f, Readings(f, m, size)
  PROVE  \E k \in 0 .. size : f[k + 1] = f[k]
<1> SUFFICES ASSUME \A k \in 0 .. size : f[k + 1] # f[k] PROVE FALSE
  OBVIOUS
<1> DEFINE Found(k) == {p \in 0 .. size - 1 : f[k][p] # {}}
           T == {k \in Nat : k <= size + 1 => Cardinality(Found(k)) >= k}
<1>1. \A k \in Nat : f[k] \in NameSets(size)
  BY DEF Readings
<1>2. \A k : IsFiniteSet(Found(k)) /\ Cardinality(Found(k)) \in Nat /\ Cardinality(Found(k)) <= size
  <2>1. IsFiniteSet(0 .. size - 1) /\ Cardinality(0 .. size - 1) = size
    BY FS_Interval
  <2>2. \A k : Found(k) \in SUBSET (0 .. size - 1)
    OBVIOUS
  <2> HIDE DEF Found
  <2> QED
    BY <2>1, <2>2, FS_Subset, FS_CardinalityType
<1>3. ASSUME NEW k \in 0 .. size PROVE \E p \in 0 .. size - 1 : p \notin Found(k) /\ p \in Found(k + 1)
  <2>1. k \in Nat /\ k + 1 \in Nat
    OBVIOUS
  <2>2. PICK p \in 0 .. size : f[k + 1][p] # f[k][p]
    <3> DEFINE a == f[k + 1]
               b == f[k]
    <3>1. a \in NameSets(size) /\ b \in NameSets(size) /\ a # b
      BY <1>1, <2>1
    <3> HIDE DEF a, b
    <3>2. a = [p \in 0 .. size |-> a[p]] /\ b = [p \in 0 .. size |-> b[p]]
      BY <3>1 DEF NameSets
    <3>3. \E p \in 0 .. size : a[p] # b[p]
      BY <3>1, <3>2
    <3> QED
      BY <3>3 DEF a, b
  <2>3. f[k][p] = {} /\ f[k + 1][p] # {}
    <3>1. f[k][p] # {} => f[k + 1][p] = f[k][p]
      BY <2>1, ReadingsKeep
    <3> QED
      BY <2>2, <3>1
  <2>4. f[k + 1][p] = NamesOf(m, size, f[k], p)
    BY <2>1, ReadingsNext
  <2>5. p # size
    BY <2>3, <2>4 DEF NamesOf
  <2> QED
    BY <2>3, <2>5
<1>4. \A k \in Nat : Found(k) \subseteq Found(k + 1)
  BY ReadingsKeep
<1> HIDE DEF Found
<1>5. 0 \in T
  BY <1>2
<1>6. ASSUME NEW k \in T PROVE k + 1 \in T
  <2> SUFFICES ASSUME k + 1 <= size + 1 PROVE Cardinality(Found(k + 1)) >= k + 1
    BY <1>6
  <2>1. k \in Nat /\ k \in 0 .. size /\ k <= size + 1 /\ Cardinality(Found(k)) >= k
    BY <1>6
  <2>2. PICK p : p \notin Found(k) /\ p \in Found(k + 1)
    BY <1>3, <2>1
  <2>3. Cardinality(Found(k) \cup {p}) = Cardinality(Found(k)) + 1
    BY <1>2, <2>2, FS_AddElement
  <2>4. Found(k) \cup {p} \in SUBSET Found(k + 1)
    BY <1>4, <2>1, <2>2
  <2>5. Cardinality(Found(k) \cup {p}) <= Cardinality(Found(k + 1))
    BY <1>2, <2>4, FS_Subset
  <2> QED
    BY <1>2, <2>1, <2>3, <2>5
<1> HIDE DEF T
<1>7. Nat \subseteq T
  BY <1>5, <1>6, AllNumbers
<1>8. Cardinality(Found(size + 1)) >= size + 1
  BY <1>7 DEF T
<1> QED
  BY <1>2, <1>8

LEMMA ReadingsStay ==
  ASSUME NEW size \in Nat, NEW m \in Bytes(size), NEW f, Readings(f, m, size),
         NEW k \in Nat, f[k + 1] = f[k]
  PROVE  \A i \in Nat : f[k + i] = f[k]
<1> DEFINE T == {i \in Nat : f[k + i] = f[k]}
<1>1. 0 \in T
  OBVIOUS
<1>2. ASSUME NEW i \in T PROVE i + 1 \in T
  <2>1. i \in Nat /\ k + i \in Nat /\ (k + i) + 1 = k + (i + 1) /\ f[k + i] = f[k]
    BY <1>2
  <2>2. /\ f[(k + i) + 1] = [p \in 0 .. size |-> NamesOf(m, size, f[k + i], p)]
        /\ f[k + 1] = [p \in 0 .. size |-> NamesOf(m, size, f[k], p)]
    BY <2>1 DEF Readings
  <2>3. f[(k + i) + 1] = f[k]
    BY <2>1, <2>2
  <2> QED
    BY <2>1, <2>3
<1> HIDE DEF T
<1>3. Nat \subseteq T
  BY <1>1, <1>2, AllNumbers
<1> QED
  BY <1>3 DEF T

\* A name that is read at all is read in no more steps than there are places.
LEMMA ReadSoon ==
  ASSUME NEW size \in Nat, NEW m \in Bytes(size), NEW o \in 0 .. size, NEW n \in Nat
  PROVE  NamesAt(m, size, o, n) \subseteq AllNames(m, size, o)
<1>1. PICK f : Readings(f, m, size)
  BY ReadingsExist
<1>2. NamesAt(m, size, o, n) = f[n][o] /\ AllNames(m, size, o) = f[size + 1][o]
  <2>1. size + 1 \in Nat
    OBVIOUS
  <2> QED
    BY <1>1, <2>1, NamesRead DEF AllNames
<1>3. PICK k \in 0 .. size : f[k + 1] = f[k]
  BY <1>1, ReadingsStop
<1>4. \A i \in Nat : f[k + i] = f[k]
  BY <1>1, <1>3, ReadingsStay
<1>5. f[size + 1] = f[k] /\ f[n + (size + 1)] = f[k]
  <2>1. /\ (size + 1) - k \in Nat /\ k + ((size + 1) - k) = size + 1
        /\ (n + (size + 1)) - k \in Nat /\ k + ((n + (size + 1)) - k) = n + (size + 1)
    OBVIOUS
  <2> QED
    BY <1>4, <2>1
<1>6. CASE f[n][o] # {}
  <2>1. size + 1 \in Nat
    OBVIOUS
  <2>2. f[n + (size + 1)][o] = f[n][o]
    BY <1>1, <1>6, <2>1, ReadingsKeepOn
  <2> QED
    BY <1>2, <1>5, <2>2
<1> QED
  BY <1>2, <1>6

LEMMA NamesEquation ==
  ASSUME NEW size \in Nat, NEW m \in Bytes(size), NEW o \in 0 .. size, NEW n \in Nat
  PROVE  /\ NamesAt(m, size, o, n) \in SUBSET Labels
         /\ NamesAt(m, size, o, 0) = {}
         /\ NamesAt(m, size, o, n + 1) =
              IF o = size THEN {}
              ELSE IF m[o] = 0 THEN {<<>>}
              ELSE IF mdns_is_string_ref(m[o])
                   THEN IF o + 1 < size /\ Reference(m, o) < size
                        THEN NamesAt(m, size, Reference(m, o), n) ELSE {}
              ELSE IF o + 1 + m[o] < size
                   THEN {<<LabelAt(m, o)>> \o rest : rest \in NamesAt(m, size, o + 1 + m[o], n)}
                   ELSE {}
<1>1. PICK f : Readings(f, m, size)
  BY ReadingsExist
<1>2. NamesAt(m, size, o, n) = f[n][o] /\ NamesAt(m, size, o, 0) = f[0][o]
      /\ NamesAt(m, size, o, n + 1) = f[n + 1][o]
  BY <1>1, NamesRead
<1>3. f[n] \in NameSets(size) /\ f[0][o] = {} /\ f[n + 1][o] = NamesOf(m, size, f[n], o)
  <2>1. f[n + 1][o] = NamesOf(m, size, f[n], o)
    BY <1>1, ReadingsNext
  <2>2. f[n] \in NameSets(size) /\ f[0] = [p \in 0 .. size |-> {}]
    BY <1>1 DEF Readings
  <2> QED
    BY <2>1, <2>2
<1>4. f[n][o] \in SUBSET Labels
  BY <1>3 DEF NameSets
<1>5. ASSUME o # size, mdns_is_string_ref(m[o]), o + 1 < size, Reference(m, o) < size
      PROVE  f[n][Reference(m, o)] = NamesAt(m, size, Reference(m, o), n)
  <2>1. Reference(m, o) \in 0 .. size
    BY <1>5, ReferenceType
  <2> QED
    BY <1>1, <2>1, NamesRead
<1>6. ASSUME o # size, o + 1 + m[o] < size
      PROVE  f[n][o + 1 + m[o]] = NamesAt(m, size, o + 1 + m[o], n)
  <2>1. m[o] \in 0 .. 255
    BY <1>6, ByteAt
  <2>2. \A b \in 0 .. 255 : o + 1 + b < size => o + 1 + b \in 0 .. size
    OBVIOUS
  <2>3. o + 1 + m[o] \in 0 .. size
    BY <1>6, <2>1, <2>2
  <2> QED
    BY <1>1, <2>3, NamesRead
<1>7. NamesOf(m, size, f[n], o) =
              IF o = size THEN {}
              ELSE IF m[o] = 0 THEN {<<>>}
              ELSE IF mdns_is_string_ref(m[o])
                   THEN IF o + 1 < size /\ Reference(m, o) < size
                        THEN NamesAt(m, size, Reference(m, o), n) ELSE {}
              ELSE IF o + 1 + m[o] < size
                   THEN {<<LabelAt(m, o)>> \o rest : rest \in NamesAt(m, size, o + 1 + m[o], n)}
                   ELSE {}
  BY <1>5, <1>6 DEF NamesOf
<1> QED
  BY <1>2, <1>3, <1>4, <1>7

\* The names at o are those at p with the labels L before them, u steps later.
Leads(m, size, o, L, u, p) ==
  /\ \A j \in Nat : j < u => NamesAt(m, size, o, j) = {}
  /\ \A j \in Nat : NamesAt(m, size, o, u + j) = {L \o r : r \in NamesAt(m, size, p, j)}

Nameless(m, size, o) == \A j \in Nat : NamesAt(m, size, o, j) = {}

LEMMA LabelsJoin ==
  ASSUME NEW L \in Labels, NEW M \in Labels
  PROVE  /\ L \o M \in Labels /\ <<>> \in Labels /\ <<>> \o L = L
         /\ \A r \in Labels : (L \o M) \o r = L \o (M \o r)
  BY ConcatProperties, ConcatAssociative DEF Labels

LEMMA LeadsSelf ==
  ASSUME NEW size \in Nat, NEW m \in Bytes(size), NEW o \in 0 .. size
  PROVE  Leads(m, size, o, <<>>, 0, o)
<1>1. ASSUME NEW j \in Nat
      PROVE  NamesAt(m, size, o, 0 + j) = {<<>> \o r : r \in NamesAt(m, size, o, j)}
  <2> DEFINE N == NamesAt(m, size, o, j)
  <2>1. N \in SUBSET Labels
    BY NamesEquation
  <2>2. 0 + j = j
    OBVIOUS
  <2> HIDE DEF N
  <2>3. \A r \in N : <<>> \o r = r
    BY <2>1, LabelsJoin
  <2>4. N = {<<>> \o r : r \in N}
    BY <2>3
  <2> QED
    BY <2>2, <2>4 DEF N
<1> QED
  BY <1>1 DEF Leads

LEMMA LeadsOn ==
  ASSUME NEW size \in Nat, NEW m \in Bytes(size),
         NEW o \in 0 .. size, NEW p \in 0 .. size, NEW q \in 0 .. size,
         NEW L \in Labels, NEW M \in Labels, NEW u \in Nat, NEW v \in Nat,
         Leads(m, size, o, L, u, p), Leads(m, size, p, M, v, q)
  PROVE  Leads(m, size, o, L \o M, u + v, q)
<1>1. ASSUME NEW j \in Nat, j < u + v PROVE NamesAt(m, size, o, j) = {}
  <2>1. CASE j < u
    BY <2>1 DEF Leads
  <2>2. CASE ~(j < u)
    <3>1. PICK i \in Nat : u + i = j /\ i < v
      <4>1. j - u \in Nat /\ u + (j - u) = j /\ j - u < v
        BY <1>1, <2>2
      <4> QED
        BY <4>1
    <3>2. NamesAt(m, size, p, i) = {} /\ NamesAt(m, size, o, u + i) = {L \o r : r \in NamesAt(m, size, p, i)}
      BY <3>1 DEF Leads
    <3> QED
      BY <3>1, <3>2
  <2> QED
    BY <2>1, <2>2
<1>2. ASSUME NEW j \in Nat
      PROVE  NamesAt(m, size, o, (u + v) + j) = {(L \o M) \o r : r \in NamesAt(m, size, q, j)}
  <2> DEFINE N == NamesAt(m, size, q, j)
  <2>1. v + j \in Nat /\ u + (v + j) = (u + v) + j
    OBVIOUS
  <2>2. NamesAt(m, size, o, u + (v + j)) = {L \o r : r \in NamesAt(m, size, p, v + j)}
    BY <2>1 DEF Leads
  <2>3. NamesAt(m, size, p, v + j) = {M \o r : r \in N}
    BY DEF Leads
  <2>4. N \in SUBSET Labels
    BY NamesEquation
  <2> HIDE DEF N
  <2>5. {L \o x : x \in {M \o r : r \in N}} = {L \o (M \o r) : r \in N}
    OBVIOUS
  <2>6. ASSUME NEW r \in N PROVE (L \o M) \o r = L \o (M \o r)
    <3>1. r \in Labels
      BY <2>4
    <3>2. \A t \in Labels : (L \o M) \o t = L \o (M \o t)
      BY LabelsJoin
    <3> QED
      BY <3>1, <3>2
  <2>7. {L \o (M \o r) : r \in N} = {(L \o M) \o r : r \in N}
    BY <2>6
  <2> QED
    BY <2>1, <2>2, <2>3, <2>5, <2>7 DEF N
<1> QED
  BY <1>1, <1>2 DEF Leads

\* What leads to nothing is nothing.
LEMMA LeadsNowhere ==
  ASSUME NEW size \in Nat, NEW m \in Bytes(size), NEW o \in 0 .. size, NEW p \in 0 .. size,
         NEW L, NEW u \in Nat, Leads(m, size, o, L, u, p), Nameless(m, size, p)
  PROVE  Nameless(m, size, o)
<1> SUFFICES ASSUME NEW j \in Nat PROVE NamesAt(m, size, o, j) = {}
  BY DEF Nameless
<1>1. CASE j < u
  BY <1>1 DEF Leads
<1>2. CASE ~(j < u)
  <2>1. PICK i \in Nat : u + i = j
    <3>1. j - u \in Nat /\ u + (j - u) = j
      BY <1>2
    <3> QED
      BY <3>1
  <2>2. NamesAt(m, size, p, i) = {} /\ NamesAt(m, size, o, u + i) = {L \o r : r \in NamesAt(m, size, p, i)}
    BY DEF Nameless, Leads
  <2> QED
    BY <2>1, <2>2
<1> QED
  BY <1>1, <1>2

\* One step from o to p.
LEMMA OneStep ==
  ASSUME NEW size \in Nat, NEW m \in Bytes(size), NEW o \in 0 .. size, NEW p \in 0 .. size, NEW L,
         \A n \in Nat : NamesAt(m, size, o, n + 1) = {L \o r : r \in NamesAt(m, size, p, n)}
  PROVE  Leads(m, size, o, L, 1, p)
<1>1. ASSUME NEW j \in Nat, j < 1 PROVE NamesAt(m, size, o, j) = {}
  <2>1. j = 0
    BY <1>1
  <2> QED
    BY <2>1, NamesEquation
<1>2. ASSUME NEW j \in Nat
      PROVE  NamesAt(m, size, o, 1 + j) = {L \o r : r \in NamesAt(m, size, p, j)}
  <2>1. 1 + j = j + 1
    OBVIOUS
  <2> QED
    BY <2>1
<1> QED
  BY <1>1, <1>2 DEF Leads

LEMMA NoStep ==
  ASSUME NEW size \in Nat, NEW m \in Bytes(size), NEW o \in 0 .. size,
         \A n \in Nat : NamesAt(m, size, o, n + 1) = {}
  PROVE  Nameless(m, size, o)
<1> SUFFICES ASSUME NEW j \in Nat PROVE NamesAt(m, size, o, j) = {}
  BY DEF Nameless
<1>1. CASE j = 0
  BY <1>1, NamesEquation
<1>2. CASE j # 0
  <2>1. j - 1 \in Nat /\ (j - 1) + 1 = j
    BY <1>2
  <2>2. NamesAt(m, size, o, (j - 1) + 1) = {}
    BY <2>1
  <2> QED
    BY <2>1, <2>2
<1> QED
  BY <1>1, <1>2

LEMMA LeadsRefer ==
  ASSUME NEW size \in Nat, NEW m \in Bytes(size), NEW o \in 0 .. size - 1, mdns_is_string_ref(m[o])
  PROVE  /\ Refer(m, size, o) = -1 => Nameless(m, size, o)
         /\ Refer(m, size, o) # -1 => Leads(m, size, o, <<>>, 1, Refer(m, size, o))
<1> DEFINE q == Refer(m, size, o)
<1>1. o \in 0 .. size /\ o # size /\ o # -1 /\ m[o] # 0
  BY ByteAt DEF mdns_is_string_ref
<1>2. q \in Place(size)
  BY ReferType DEF Place
<1>3. q = IF o + 1 < size /\ Reference(m, o) < size THEN Reference(m, o) ELSE -1
  <2>1. CASE o + 1 < size
    BY <1>1, <2>1, ReferenceType DEF Refer, MDNS_INVALID_POS
  <2>2. CASE ~(o + 1 < size)
    BY <1>1, <2>2 DEF Refer, MDNS_INVALID_POS
  <2> QED
    BY <2>1, <2>2
<1> HIDE DEF q
<1>4. CASE o + 1 < size /\ Reference(m, o) < size
  <2>1. q = Reference(m, o) /\ q \in 0 .. size /\ q # -1
    BY <1>3, <1>4, ReferenceType
  <2>2. ASSUME NEW n \in Nat
        PROVE  NamesAt(m, size, o, n + 1) = {<<>> \o r : r \in NamesAt(m, size, q, n)}
    <3> DEFINE N == NamesAt(m, size, q, n)
    <3>1. NamesAt(m, size, o, n + 1) = N
      BY <1>1, <1>4, <2>1, NamesEquation
    <3>2. N \in SUBSET Labels
      BY <2>1, NamesEquation
    <3> HIDE DEF N
    <3>3. \A r \in N : <<>> \o r = r
      BY <3>2, LabelsJoin
    <3>4. N = {<<>> \o r : r \in N}
      BY <3>3
    <3> QED
      BY <3>1, <3>4 DEF N
  <2>3. Leads(m, size, o, <<>>, 1, q)
    BY <1>1, <2>1, <2>2, OneStep
  <2> QED
    BY <2>1, <2>3 DEF q
<1>5. CASE ~(o + 1 < size /\ Reference(m, o) < size)
  <2>1. \A n \in Nat : NamesAt(m, size, o, n + 1) = {}
    BY <1>1, <1>5, NamesEquation
  <2>2. Nameless(m, size, o)
    BY <1>1, <2>1, NoStep
  <2> QED
    BY <1>3, <1>5, <2>2 DEF q
<1> QED
  BY <1>4, <1>5

LEMMA LeadsLabel ==
  ASSUME NEW size \in Nat, NEW m \in Bytes(size), NEW o \in 0 .. size - 1,
         m[o] # 0, ~mdns_is_string_ref(m[o])
  PROVE  /\ size < o + 1 + m[o] => Nameless(m, size, o)
         /\ o + 1 + m[o] <= size =>
              Leads(m, size, o, <<Labelled(m, o + 1, m[o])>>, 1, o + 1 + m[o])
<1> DEFINE q == o + 1 + m[o]
           L == <<Labelled(m, o + 1, m[o])>>
<1>1. m[o] \in 0 .. 255 /\ o \in 0 .. size /\ o # size
  BY ByteAt
<1>2. q \in Nat
  <2>1. \A b \in 0 .. 255 : o + 1 + b \in Nat
    OBVIOUS
  <2> QED
    BY <1>1, <2>1
<1>3. L = <<LabelAt(m, o)>>
  <2>1. m[o] \in Nat /\ \A k \in 1 .. m[o] : (o + 1) + k - 1 = o + k
    BY <1>1
  <2>2. Labelled(m, o + 1, m[o]) = LabelAt(m, o)
    BY <2>1 DEF Labelled, LabelAt
  <2> QED
    BY <2>2
<1> HIDE DEF L
<1>4. ASSUME NEW n \in Nat
      PROVE  NamesAt(m, size, o, n + 1) =
               IF q < size THEN {L \o r : r \in NamesAt(m, size, q, n)} ELSE {}
  <2>1. NamesAt(m, size, o, n + 1) =
          IF q < size THEN {<<LabelAt(m, o)>> \o r : r \in NamesAt(m, size, q, n)} ELSE {}
    BY <1>1, NamesEquation
  <2> HIDE DEF q
  <2> QED
    BY <1>3, <2>1
<1> HIDE DEF q
<1>5. CASE q < size
  <2>1. q \in 0 .. size
    BY <1>2, <1>5
  <2>2. \A n \in Nat : NamesAt(m, size, o, n + 1) = {L \o r : r \in NamesAt(m, size, q, n)}
    BY <1>4, <1>5
  <2>3. Leads(m, size, o, L, 1, q)
    BY <1>1, <2>1, <2>2, OneStep
  <2> QED
    BY <1>2, <1>5, <2>3 DEF q, L
<1>6. CASE ~(q < size)
  <2>1. \A n \in Nat : NamesAt(m, size, o, n + 1) = {}
    BY <1>4, <1>6
  <2>2. Nameless(m, size, o)
    BY <1>1, <2>1, NoStep
  <2>3. CASE q = size
    <3>1. \A n \in Nat : NamesAt(m, size, q, n) = {}
      <4>1. q \in 0 .. size
        BY <1>2, <2>3
      <4>2. \A n \in Nat : NamesAt(m, size, q, n + 1) = {}
        BY <2>3, <4>1, NamesEquation
      <4>3. Nameless(m, size, q)
        BY <4>1, <4>2, NoStep
      <4> QED
        BY <4>3 DEF Nameless
    <3>2. \A n \in Nat : NamesAt(m, size, o, n + 1) = {L \o r : r \in NamesAt(m, size, q, n)}
      BY <2>1, <3>1
    <3>3. Leads(m, size, o, L, 1, q)
      <4>1. q \in 0 .. size
        BY <1>2, <2>3
      <4> QED
        BY <1>1, <3>2, <4>1, OneStep
    <3> QED
      BY <1>2, <2>2, <3>3 DEF q, L
  <2>4. CASE q # size
    BY <1>2, <1>6, <2>2, <2>4 DEF q, L
  <2> QED
    BY <2>3, <2>4
<1> QED
  BY <1>5, <1>6

\* q is where at most n references lead from o.
Led(m, size, o, n, q) ==
  /\ q = -1 => Nameless(m, size, o)
  /\ q # -1 => \E u \in 0 .. n :
                 /\ Leads(m, size, o, <<>>, u, q)
                 /\ mdns_is_string_ref(m[q]) => u = n

\* Following references leaves the names as they are.
LEMMA FollowLeads ==
  ASSUME NEW size \in Nat, NEW m \in Bytes(size), NEW o \in 0 .. size - 1, NEW n \in Nat,
         NEW p, p = Follow(m, size, o, n)
  PROVE  p \in Place(size) /\ Led(m, size, o, n, p)
<1>1. PICK f : Refers(f, m, size, o, n) /\ Follow(m, size, o, n) = f[n]
  BY FollowRefers
<1> DEFINE T == {k \in Nat : k <= n => Led(m, size, o, k, f[k])}
<1>2. o \in 0 .. size
  OBVIOUS
<1>3. 0 \in T
  <2>1. f[0] = o /\ o # -1
    BY <1>1 DEF Refers
  <2>2. Leads(m, size, o, <<>>, 0, o)
    BY <1>2, LeadsSelf
  <2> QED
    BY <2>1, <2>2 DEF Led
<1>4. ASSUME NEW k \in T PROVE k + 1 \in T
  <2> SUFFICES ASSUME k + 1 <= n PROVE Led(m, size, o, k + 1, f[k + 1])
    BY <1>4
  <2> DEFINE p1 == f[k]
             q1 == f[k + 1]
  <2>1. k \in Nat /\ p1 \in Place(size) /\ q1 \in Place(size) /\ q1 = Refer(m, size, p1) /\ Led(m, size, o, k, p1)
    BY <1>1, <1>4 DEF Refers
  <2> HIDE DEF p1, q1
  <2>2. CASE p1 = -1
    <3>1. q1 = -1
      BY <2>1, <2>2 DEF Refer, MDNS_INVALID_POS
    <3> QED
      BY <2>1, <2>2, <3>1 DEF q1, Led
  <2>3. CASE p1 # -1
    <3>1. PICK u \in 0 .. k : Leads(m, size, o, <<>>, u, p1) /\ (mdns_is_string_ref(m[p1]) => u = k)
      BY <2>1, <2>3 DEF Led
    <3>2. p1 \in 0 .. size - 1 /\ p1 \in 0 .. size /\ u \in Nat
      BY <2>1, <2>3 DEF Place
    <3>3. CASE ~mdns_is_string_ref(m[p1])
      <4>1. q1 = p1 /\ u \in 0 .. k + 1
        BY <2>1, <3>3 DEF Refer
      <4> QED
        BY <2>3, <3>1, <3>3, <4>1 DEF q1, Led
    <3>4. CASE mdns_is_string_ref(m[p1]) /\ q1 = -1
      <4>1. Nameless(m, size, p1)
        BY <2>1, <3>2, <3>4, LeadsRefer
      <4>2. Nameless(m, size, o)
        BY <1>2, <3>1, <3>2, <4>1, LeadsNowhere
      <4> QED
        BY <3>4, <4>2 DEF q1, Led
    <3>5. CASE mdns_is_string_ref(m[p1]) /\ q1 # -1
      <4>1. Leads(m, size, p1, <<>>, 1, q1) /\ q1 \in 0 .. size
        BY <2>1, <3>2, <3>5, LeadsRefer DEF Place
      <4>2. <<>> \in Labels /\ <<>> \o <<>> = <<>>
        BY DEF Labels
      <4>3. Leads(m, size, o, <<>> \o <<>>, u + 1, q1)
        BY <1>2, <3>1, <3>2, <4>1, <4>2, LeadsOn
      <4>4. Leads(m, size, o, <<>>, k + 1, q1) /\ k + 1 \in 0 .. k + 1
        BY <2>1, <3>1, <3>5, <4>2, <4>3
      <4> QED
        BY <3>5, <4>4 DEF q1, Led
    <3> QED
      BY <3>3, <3>4, <3>5
  <2> QED
    BY <2>2, <2>3
<1>5. Nat \subseteq T
  <2> HIDE DEF T
  <2> QED
    BY <1>3, <1>4, AllNumbers
<1>6. Led(m, size, o, n, p)
  BY <1>1, <1>5
<1>7. p \in Place(size)
  BY <1>1 DEF Refers
<1> QED
  BY <1>6, <1>7

LEMMA LabelledLabels ==
  ASSUME NEW size \in Nat, NEW m \in Bytes(size), NEW o \in Nat, NEW n \in Nat, o + n <= size
  PROVE  <<Labelled(m, o, n)>> \in Labels
  BY LabelledType DEF Labels

LEMMA NamesOfZero ==
  ASSUME NEW size \in Nat, NEW m \in Bytes(size), NEW o \in 0 .. size, o # size, m[o] = 0,
         NEW n \in Nat
  PROVE  NamesAt(m, size, o, n + 1) = {<<>>}
<1> DEFINE Others == IF mdns_is_string_ref(m[o])
                       THEN IF o + 1 < size /\ Reference(m, o) < size
                            THEN NamesAt(m, size, Reference(m, o), n) ELSE {}
                     ELSE IF o + 1 + m[o] < size
                       THEN {<<LabelAt(m, o)>> \o rest : rest \in NamesAt(m, size, o + 1 + m[o], n)}
                       ELSE {}
<1>1. NamesAt(m, size, o, n + 1)
        = IF o = size THEN {} ELSE IF m[o] = 0 THEN {<<>>} ELSE Others
  BY NamesEquation, Zenon
<1> HIDE DEF Others
<1> QED
  BY <1>1

\* What mdns_get_next_substring tells of the names at a place: that none is
\* read in a few steps, that all begin with a label, or that there is only the
\* empty one.
LEMMA SubstringLeads ==
  ASSUME NEW size \in Nat, NEW m \in Bytes(size), NEW o \in 0 .. size,
         NEW s, s = mdns_get_next_substring(m, size, o)
  PROVE  /\ s.offset = -1 => \A j \in 0 .. MaxRefs + 1 : NamesAt(m, size, o, j) = {}
         /\ s.offset # -1 /\ s.length > 0 =>
              \E u \in Nat : /\ u >= 1
                             /\ Leads(m, size, o, <<Labelled(m, s.offset, s.length)>>, u, s.offset + s.length)
         /\ s.offset # -1 /\ s.length = 0 =>
              \E u \in Nat : u >= 1 /\ NamesAt(m, size, o, u) = {<<>>}
                             /\ \A j \in Nat : NamesAt(m, size, o, j) \subseteq {<<>>}
<1> DEFINE N(j) == NamesAt(m, size, o, j)
<1>1. CASE o = size
  <2>1. s.offset = -1
    BY <1>1 DEF mdns_get_next_substring, Nowhere, MDNS_INVALID_POS
  <2>2. Nameless(m, size, o)
    BY <1>1, NamesEquation, NoStep
  <2> QED
    BY <2>1, <2>2 DEF Nameless
<1>2. CASE o # size /\ m[o] = 0
  <2>1. s.offset = o /\ s.length = 0
    BY <1>2 DEF mdns_get_next_substring
  <2>2. \A n \in Nat : N(n + 1) = {<<>>}
    BY <1>2, NamesOfZero
  <2>3. N(0) = {}
    BY NamesEquation
  <2> HIDE DEF N
  <2>4. N(1) = {<<>>}
    <3>1. N(0 + 1) = {<<>>} /\ 0 + 1 = 1
      BY <2>2
    <3> QED
      BY <3>1
  <2>5. ASSUME NEW j \in Nat PROVE N(j) \subseteq {<<>>}
    <3>1. CASE j = 0
      BY <2>3, <3>1
    <3>2. CASE j # 0
      <4>1. PICK i \in Nat : j = i + 1
        <5>1. j - 1 \in Nat /\ j = (j - 1) + 1
          BY <3>2
        <5> QED
          BY <5>1
      <4> QED
        BY <2>2, <4>1
    <3> QED
      BY <3>1, <3>2
  <2> QED
    BY <2>1, <2>4, <2>5 DEF N
<1>3. CASE o # size /\ m[o] # 0
  <2> DEFINE p == Follow(m, size, o, MaxRefs)
  <2>1. o \in 0 .. size - 1 /\ MaxRefs \in Nat
    BY <1>3, MdnsReadAssumption
  <2>2. p \in Place(size) /\ Led(m, size, o, MaxRefs, p)
    BY <2>1, FollowLeads
  <2>3. s = IF p = -1 \/ mdns_is_string_ref(m[p]) \/ size < p + 1 + m[p] THEN Nowhere
            ELSE [offset |-> p + 1, length |-> m[p], ref |-> mdns_is_string_ref(m[o])]
    BY <1>3 DEF mdns_get_next_substring, MDNS_INVALID_POS
  <2> HIDE DEF p
  <2>4. CASE p = -1
    <3>1. s.offset = -1
      BY <2>3, <2>4 DEF Nowhere, MDNS_INVALID_POS
    <3> QED
      BY <2>1, <2>2, <2>4, <3>1 DEF Led, Nameless
  <2>5. CASE p # -1
    <3>1. PICK u \in 0 .. MaxRefs : Leads(m, size, o, <<>>, u, p) /\ (mdns_is_string_ref(m[p]) => u = MaxRefs)
      BY <2>2, <2>5 DEF Led
    <3>2. p \in 0 .. size - 1 /\ p \in 0 .. size /\ u \in Nat
      BY <2>1, <2>2, <2>5 DEF Place
    <3>3. m[p] \in 0 .. 255
      BY <3>2, ByteAt
    <3>4. CASE mdns_is_string_ref(m[p])
      <4>1. s.offset = -1 /\ u = MaxRefs
        BY <2>3, <3>1, <3>4 DEF Nowhere, MDNS_INVALID_POS
      <4>2. NamesAt(m, size, p, 0) = {}
        BY <3>2, NamesEquation
      <4>3. NamesAt(m, size, p, 1) = {}
        <5>1. CASE Refer(m, size, p) = -1
          BY <3>2, <3>4, <5>1, LeadsRefer DEF Nameless
        <5>2. CASE Refer(m, size, p) # -1
          <6> DEFINE q == Refer(m, size, p)
          <6>1. q \in 0 .. size
            <7>1. p \in Place(size)
              BY <2>2
            <7>2. q \in Place(size)
              BY <7>1, ReferType
            <7> HIDE DEF q
            <7> QED
              BY <5>2, <7>2 DEF Place, q
          <6>2. Leads(m, size, p, <<>>, 1, q)
            BY <3>2, <3>4, <5>2, LeadsRefer
          <6> HIDE DEF q
          <6>3. NamesAt(m, size, p, 1 + 0) = {<<>> \o r : r \in NamesAt(m, size, q, 0)}
            BY <6>2 DEF Leads
          <6>4. NamesAt(m, size, q, 0) = {}
            BY <6>1, NamesEquation
          <6>5. 1 + 0 = 1
            OBVIOUS
          <6> QED
            BY <6>3, <6>4, <6>5
        <5> QED
          BY <5>1, <5>2
      <4>4. ASSUME NEW j \in 0 .. MaxRefs + 1 PROVE N(j) = {}
        <5>1. CASE j < u
          BY <2>1, <3>1, <5>1 DEF Leads
        <5>2. CASE ~(j < u)
          <6>1. PICK i \in {0, 1} : u + i = j
            <7>1. j - u \in {0, 1} /\ u + (j - u) = j
              BY <2>1, <4>1, <5>2
            <7> QED
              BY <7>1
          <6>2. i \in Nat /\ NamesAt(m, size, p, i) = {}
            BY <4>2, <4>3
          <6>3. N(u + i) = {<<>> \o r : r \in NamesAt(m, size, p, i)}
            BY <3>1, <6>2 DEF Leads
          <6> QED
            BY <6>1, <6>2, <6>3
        <5> QED
          BY <5>1, <5>2
      <4> QED
        BY <4>1, <4>4
    <3>5. CASE ~mdns_is_string_ref(m[p]) /\ size < p + 1 + m[p]
      <4>1. s.offset = -1
        BY <2>3, <3>5 DEF Nowhere, MDNS_INVALID_POS
      <4>2. m[p] # 0
        BY <3>2, <3>3, <3>5
      <4>3. Nameless(m, size, p)
        BY <3>2, <3>5, <4>2, LeadsLabel
      <4>4. Nameless(m, size, o)
        BY <3>1, <3>2, <4>3, LeadsNowhere
      <4> QED
        BY <2>1, <4>1, <4>4 DEF Nameless
    <3>6. CASE ~mdns_is_string_ref(m[p]) /\ ~(size < p + 1 + m[p])
      <4>1. s.offset = p + 1 /\ s.length = m[p] /\ s.offset # -1
        <5>1. s = [offset |-> p + 1, length |-> m[p], ref |-> mdns_is_string_ref(m[o])]
          BY <2>3, <2>5, <3>6, Zenon
        <5>2. s.offset = p + 1 /\ s.length = m[p]
          BY <5>1
        <5> QED
          BY <3>2, <5>2
      <4>2. CASE m[p] = 0
        <5>1. ASSUME NEW n \in Nat PROVE NamesAt(m, size, p, n + 1) = {<<>>}
          <6>1. p \in 0 .. size /\ p # size
            BY <3>2
          <6> QED
            BY <4>2, <6>1, NamesOfZero
        <5>2. NamesAt(m, size, p, 0) = {}
          BY <3>2, NamesEquation
        <5>3. \A i \in Nat : N(u + i) = {<<>> \o r : r \in NamesAt(m, size, p, i)}
          BY <3>1 DEF Leads
        <5>4. N(u + 1) = {<<>>} /\ u + 1 \in Nat /\ u + 1 >= 1
          <6>1. NamesAt(m, size, p, 0 + 1) = {<<>>} /\ 0 + 1 = 1
            BY <5>1
          <6>2. N(u + 1) = {<<>> \o r : r \in {<<>>}}
            BY <5>3, <6>1
          <6>3. <<>> \o <<>> = <<>>
            OBVIOUS
          <6> QED
            BY <3>2, <6>2, <6>3
        <5>5. ASSUME NEW j \in Nat PROVE N(j) \subseteq {<<>>}
          <6>1. CASE j < u
            BY <3>1, <6>1 DEF Leads
          <6>2. CASE ~(j < u)
            <7>1. PICK i \in Nat : u + i = j
              <8>1. j - u \in Nat /\ u + (j - u) = j
                BY <3>2, <6>2
              <8> QED
                BY <8>1
            <7>2. NamesAt(m, size, p, i) \subseteq {<<>>}
              <8>1. CASE i = 0
                BY <5>2, <8>1
              <8>2. CASE i # 0
                <9>1. i - 1 \in Nat /\ i = (i - 1) + 1
                  BY <8>2
                <9>2. NamesAt(m, size, p, (i - 1) + 1) = {<<>>}
                  BY <5>1, <9>1
                <9> QED
                  BY <9>1, <9>2
              <8> QED
                BY <8>1, <8>2
            <7>3. <<>> \o <<>> = <<>>
              OBVIOUS
            <7>4. N(u + i) = {<<>> \o r : r \in NamesAt(m, size, p, i)}
              BY <5>3
            <7> QED
              BY <7>1, <7>2, <7>3, <7>4
          <6> QED
            BY <6>1, <6>2
        <5> QED
          BY <4>1, <4>2, <5>4, <5>5
      <4>3. CASE m[p] # 0
        <5> DEFINE L == <<Labelled(m, p + 1, m[p])>>
                   q == p + 1 + m[p]
        <5>1. q \in 0 .. size /\ p + 1 \in Nat /\ m[p] \in Nat /\ q <= size
          <6>1. \A b \in 0 .. 255 : ~(size < p + 1 + b) => p + 1 + b \in 0 .. size /\ p + 1 + b <= size
            BY <3>2
          <6> QED
            BY <3>2, <3>3, <3>6, <6>1
        <5>2. Leads(m, size, p, L, 1, q)
          BY <3>2, <3>6, <4>3, <5>1, LeadsLabel
        <5>3. L \in Labels
          BY <5>1, LabelledLabels
        <5> HIDE DEF L, q
        <5>4. Leads(m, size, o, <<>> \o L, u + 1, q)
          BY <3>1, <3>2, <5>1, <5>2, <5>3, LabelsJoin, LeadsOn
        <5>5. Leads(m, size, o, L, u + 1, q) /\ u + 1 \in Nat /\ u + 1 >= 1
          BY <3>2, <5>3, <5>4, LabelsJoin
        <5>6. L = <<Labelled(m, s.offset, s.length)>> /\ q = s.offset + s.length
          BY <4>1 DEF L, q
        <5> QED
          BY <3>3, <4>1, <4>3, <5>5, <5>6
      <4> QED
        BY <4>2, <4>3
    <3> QED
      BY <3>4, <3>5, <3>6
  <2> QED
    BY <2>4, <2>5
<1> QED
  BY <1>1, <1>2, <1>3

-----------------------------------------------------------------------------
(***************************************************************************)
(* Text.                                                                   *)
(***************************************************************************)

\* FlattenSeq is what its recursion says.
LEMMA FlattenIs ==
  ASSUME NEW X, NEW s \in Seq(Seq(X)), NEW f \in [Nat -> Seq(X)],
         f[0] = <<>>, \A k \in 0 .. Len(s) - 1 : f[k + 1] = f[k] \o s[k + 1]
  PROVE  FlattenSeq(s) = f[Len(s)]
<1> DEFINE n == Len(s)
<1>1. n \in Nat /\ \A i \in 1 .. n : s[i] \in Seq(X)
  OBVIOUS
<1>2. CASE n = 0
  <2>1. s = <<>> /\ FlattenSeq(s) = s
    BY <1>2 DEF FlattenSeq
  <2> QED
    BY <1>2, <2>1
<1>3. CASE n # 0
  <2> DEFINE W(g) == [i \in 1 .. n |-> IF i = 1 THEN s[i] ELSE g[i - 1] \o s[i]]
             fl == CHOOSE g : g = W(g)
             h == [i \in 1 .. n |-> f[i]]
  <2>1. FlattenSeq(s) = fl[n]
    BY <1>3 DEF FlattenSeq
  <2> HIDE DEF n
  <2>2. ASSUME NEW i \in 1 .. n PROVE f[i] = IF i = 1 THEN s[i] ELSE f[i - 1] \o s[i]
    <3>1. i - 1 \in 0 .. n - 1 /\ (i - 1) + 1 = i
      BY <1>1
    <3>2. f[i] = f[i - 1] \o s[i]
      BY <3>1 DEF n
    <3>3. ASSUME i = 1 PROVE f[i - 1] \o s[i] = s[i]
      <4>1. f[i - 1] = <<>> /\ s[i] \in Seq(X)
        BY <1>1, <3>3
      <4> QED
        BY <4>1, ConcatEmptySeq
    <3> QED
      BY <3>2, <3>3
  <2>3. h = W(h)
    <3> DEFINE F(i) == IF i = 1 THEN s[i] ELSE f[i - 1] \o s[i]
               G(i) == IF i = 1 THEN s[i] ELSE h[i - 1] \o s[i]
    <3>1. ASSUME NEW i \in 1 .. n PROVE F(i) = G(i)
      <4>1. i # 1 => i - 1 \in 1 .. n
        BY <1>1
      <4>2. i # 1 => h[i - 1] = f[i - 1]
        BY <4>1
      <4> HIDE DEF h
      <4> QED
        BY <4>2
    <3>2. \A i \in 1 .. n : f[i] = F(i)
      BY <2>2
    <3>3. W(h) = [i \in 1 .. n |-> G(i)]
      OBVIOUS
    <3> HIDE DEF F, G, W
    <3>4. h = [i \in 1 .. n |-> G(i)]
      BY <3>1, <3>2
    <3> QED
      BY <3>3, <3>4
  <2>4. fl = W(fl)
    <3> HIDE DEF W, h
    <3> QED
      BY <2>3
  <2> HIDE DEF fl
  <2>5. \A i \in 1 .. n : fl[i] = IF i = 1 THEN s[i] ELSE fl[i - 1] \o s[i]
    BY <2>4
  <2> DEFINE T == {k \in Nat : k + 1 <= n => fl[k + 1] = f[k + 1]}
  <2>6. 0 \in T
    <3>1. 1 \in 1 .. n
      BY <1>1, <1>3
    <3>2. fl[1] = f[1]
      BY <2>2, <2>5, <3>1
    <3> QED
      BY <3>2
  <2>7. ASSUME NEW k \in T PROVE k + 1 \in T
    <3> SUFFICES ASSUME (k + 1) + 1 <= n PROVE fl[(k + 1) + 1] = f[(k + 1) + 1]
      BY <2>7
    <3>1. k \in Nat /\ (k + 1) + 1 \in 1 .. n /\ (k + 1) + 1 # 1 /\ ((k + 1) + 1) - 1 = k + 1 /\ k + 1 <= n
      BY <1>1, <2>7
    <3>2. fl[k + 1] = f[k + 1]
      BY <2>7, <3>1
    <3>3. /\ fl[(k + 1) + 1] = fl[k + 1] \o s[(k + 1) + 1]
          /\ f[(k + 1) + 1] = f[k + 1] \o s[(k + 1) + 1]
      <4> DEFINE j == (k + 1) + 1
      <4>1. j \in 1 .. n /\ j # 1 /\ j - 1 = k + 1
        BY <3>1
      <4> HIDE DEF j
      <4>2. fl[j] = fl[k + 1] \o s[j] /\ f[j] = f[k + 1] \o s[j]
        BY <2>2, <2>5, <4>1
      <4> QED
        BY <4>2 DEF j
    <3> QED
      BY <3>2, <3>3
  <2> HIDE DEF T
  <2>8. Nat \subseteq T
    BY <2>6, <2>7, AllNumbers
  <2>9. n - 1 \in Nat /\ (n - 1) + 1 = n
    BY <1>1, <1>3
  <2>10. fl[n] = f[n]
    <3> DEFINE k == n - 1
    <3>1. k \in T /\ k + 1 = n /\ k + 1 <= n
      BY <1>1, <2>8, <2>9
    <3> HIDE DEF k
    <3>2. fl[k + 1] = f[k + 1]
      BY <3>1 DEF T
    <3> QED
      BY <3>1, <3>2
  <2> QED
    BY <2>1, <2>10 DEF n
<1> QED
  BY <1>2, <1>3

LEMMA FlattenAppend ==
  ASSUME NEW X, NEW s \in Seq(Seq(X)), NEW x \in Seq(X)
  PROVE  /\ FlattenSeq(s) \in Seq(X)
         /\ FlattenSeq(Append(s, x)) = FlattenSeq(s) \o x
<1> DEFINE t == Append(s, x)
           n == Len(s)
           D == Seq(X)
           S == [k \in Nat |-> [d \in D |-> IF k + 1 <= n + 1 THEN d \o t[k + 1] ELSE d]]
<1>1. t \in Seq(Seq(X)) /\ Len(t) = n + 1 /\ n \in Nat /\ t[n + 1] = x
      /\ \A i \in 1 .. n : t[i] = s[i]
  BY AppendProperties
<1>2. <<>> \in D /\ \A i \in 1 .. n + 1 : t[i] \in Seq(X)
  BY <1>1
<1> HIDE DEF t, n
<1>3. S \in [Nat -> [D -> D]]
  <2>1. ASSUME NEW k \in Nat, NEW d \in D
        PROVE  (IF k + 1 <= n + 1 THEN d \o t[k + 1] ELSE d) \in D
    <3>1. k + 1 <= n + 1 => t[k + 1] \in Seq(X)
      BY <1>1, <1>2
    <3> QED
      BY <3>1
  <2> HIDE DEF D
  <2> QED
    BY <2>1
<1>4. PICK f : Sequence(f, D, <<>>, S)
  <2> HIDE DEF S, D
  <2> QED
    BY <1>2, <1>3, SequenceExists
<1>5. f \in [Nat -> D] /\ f[0] = <<>> /\ \A k \in Nat : f[k] \in D /\ f[k + 1] = S[k][f[k]]
  <2> HIDE DEF S, D
  <2> QED
    BY <1>4 DEF Sequence
<1>6. ASSUME NEW k \in 0 .. n PROVE f[k + 1] = f[k] \o t[k + 1]
  <2>1. k \in Nat /\ k + 1 <= n + 1
    BY <1>1
  <2>2. f[k] \in D /\ f[k + 1] = S[k][f[k]]
    BY <1>5, <2>1
  <2> HIDE DEF D
  <2> QED
    BY <2>1, <2>2
<1> HIDE DEF S
<1>7. FlattenSeq(t) = f[n + 1]
  <2>1. ASSUME NEW k \in 0 .. Len(t) - 1 PROVE f[k + 1] = f[k] \o t[k + 1]
    <3>1. k \in 0 .. n
      BY <1>1
    <3> QED
      BY <1>6, <3>1
  <2>2. FlattenSeq(t) = f[Len(t)]
    BY <1>1, <1>5, <2>1, FlattenIs
  <2> QED
    BY <1>1, <2>2
<1>8. FlattenSeq(s) = f[n]
  <2>1. ASSUME NEW k \in 0 .. Len(s) - 1 PROVE f[k + 1] = f[k] \o s[k + 1]
    <3>1. k \in 0 .. n /\ k + 1 \in 1 .. n
      BY <1>1 DEF n
    <3> QED
      BY <1>1, <1>6, <3>1
  <2>2. FlattenSeq(s) = f[Len(s)]
    BY <1>5, <2>1, FlattenIs
  <2> QED
    BY <2>2 DEF n
<1>9. f[n] \in Seq(X) /\ f[n + 1] = f[n] \o x
  <2>1. n \in 0 .. n
    BY <1>1
  <2> QED
    BY <1>1, <1>5, <1>6, <2>1
<1> QED
  BY <1>7, <1>8, <1>9 DEF t

\* One label more is its text and a dot more.
LEMMA TextOn ==
  ASSUME NEW L \in Labels, NEW label \in Seq(Byte)
  PROVE  /\ Text(L) \in Seq(Text46) /\ Text(<<>>) = <<>>
         /\ L \o <<label>> \in Labels
         /\ Text(L \o <<label>>) = Text(L) \o (label \o <<46>>)
<1> DEFINE dot(l) == Append(l, 46)
           dotted(M) == [i \in DOMAIN M |-> dot(M[i])]
           K == L \o <<label>>
<1>1. Seq(Byte) \subseteq Seq(Text46) /\ 46 \in Text46
  BY SeqMonotonic DEF Text46
<1>2. \A l \in Seq(Byte) : dot(l) \in Seq(Text46) /\ dot(l) = l \o <<46>>
  <2> SUFFICES ASSUME NEW l \in Seq(Byte) PROVE dot(l) \in Seq(Text46) /\ dot(l) = l \o <<46>>
    OBVIOUS
  <2>1. l \in Seq(Text46)
    BY <1>1
  <2> QED
    BY <1>1, <2>1, AppendProperties, AppendIsConcat
<1>3. \A M : Text(M) = FlattenSeq(dotted(M))
  BY DEF Text
<1> HIDE DEF dot
<1>4. /\ L \in Seq(Seq(Byte)) /\ K \in Seq(Seq(Byte)) /\ Len(K) = Len(L) + 1 /\ Len(L) \in Nat
      /\ \A i \in 1 .. Len(L) : K[i] = L[i] /\ L[i] \in Seq(Byte)
      /\ K[Len(L) + 1] = label
      /\ DOMAIN K = 1 .. Len(L) + 1 /\ DOMAIN L = 1 .. Len(L)
  BY DEF Labels
<1> DEFINE n == Len(L)
<1> HIDE DEF K, n
<1>5. dotted(L) \in Seq(Seq(Text46)) /\ Len(dotted(L)) = n
  <2>1. \A i \in 1 .. n : dot(L[i]) \in Seq(Text46)
    BY <1>2, <1>4 DEF n
  <2>2. dotted(L) = [i \in 1 .. n |-> dot(L[i])] /\ n \in Nat
    BY <1>4 DEF n
  <2> HIDE DEF dotted
  <2> QED
    BY <2>1, <2>2
<1>6. dotted(K) = Append(dotted(L), dot(label))
  <2>1. dotted(K) = [i \in 1 .. n + 1 |-> dot(K[i])] /\ dotted(L) = [i \in 1 .. n |-> dot(L[i])] /\ n \in Nat
    BY <1>4 DEF n
  <2>2. /\ dot(label) \in Seq(Text46) /\ dot(K[n + 1]) = dot(label)
        /\ \A i \in 1 .. n : dot(K[i]) = dot(L[i]) /\ dot(L[i]) \in Seq(Text46)
    BY <1>2, <1>4 DEF n
  <2>3. dotted(K) \in Seq(Seq(Text46)) /\ Len(dotted(K)) = n + 1
        /\ \A i \in 1 .. n + 1 : dotted(K)[i] = dot(K[i])
    <3>1. \A i \in 1 .. n + 1 : dot(K[i]) \in Seq(Text46)
      BY <2>1, <2>2
    <3> HIDE DEF dotted
    <3> QED
      BY <2>1, <3>1
  <2>4. \A i \in 1 .. n : dotted(L)[i] = dot(L[i])
    BY <2>1
  <2> DEFINE A == Append(dotted(L), dot(label))
  <2>5. A \in Seq(Seq(Text46)) /\ Len(A) = n + 1 /\ A[n + 1] = dot(label)
        /\ \A i \in 1 .. n : A[i] = dotted(L)[i]
    <3> HIDE DEF dotted
    <3> QED
      BY <1>5, <2>2, AppendProperties
  <2> HIDE DEF dotted, A
  <2>6. \A i \in 1 .. n + 1 : dotted(K)[i] = A[i]
    BY <2>1, <2>2, <2>3, <2>4, <2>5
  <2>7. dotted(K) = A
    BY <2>3, <2>5, <2>6, SeqEqual
  <2> QED
    BY <2>7 DEF A
<1>7. Text(<<>>) = <<>>
  <2>1. dotted(<<>>) = <<>>
    OBVIOUS
  <2>2. FlattenSeq(<<>>) = <<>>
    BY DEF FlattenSeq
  <2> QED
    BY <1>3, <2>1, <2>2
<1>8. K \in Labels
  BY <1>4 DEF Labels
<1> HIDE DEF dotted
<1>9. dot(label) \in Seq(Text46) /\ dot(label) = label \o <<46>>
  BY <1>2
<1>10. FlattenSeq(dotted(L)) \in Seq(Text46)
       /\ FlattenSeq(Append(dotted(L), dot(label))) = FlattenSeq(dotted(L)) \o dot(label)
  BY <1>5, <1>9, FlattenAppend
<1>11. Text(L) \in Seq(Text46) /\ Text(K) = Text(L) \o (label \o <<46>>)
  BY <1>3, <1>6, <1>9, <1>10
<1> QED
  BY <1>7, <1>8, <1>11 DEF K

LEMMA CutFacts ==
  ASSUME NEW S, NEW t \in Seq(S)
  PROVE  /\ Cut(t) \in Seq(S)
         /\ Len(Cut(t)) = IF Len(t) <= Capacity THEN Len(t) ELSE Capacity
         /\ \A i \in 1 .. Len(Cut(t)) : Cut(t)[i] = t[i]
<1>1. Capacity \in Nat /\ Len(t) \in Nat
  BY MdnsReadAssumption
<1>2. CASE Len(t) <= Capacity
  BY <1>2 DEF Cut
<1>3. CASE ~(Len(t) <= Capacity)
  <2>1. \A i \in 1 .. Capacity : t[i] \in S
    BY <1>1, <1>3
  <2> DEFINE u == SubSeq(t, 1, Capacity)
  <2>2. u \in Seq(S) /\ Len(u) = Capacity /\ \A i \in 1 .. Capacity : u[i] = t[i]
    <3>1. /\ u \in Seq(S) /\ Len(u) = IF 1 <= Capacity THEN Capacity - 1 + 1 ELSE 0
          /\ \A i \in 1 .. Capacity - 1 + 1 : u[i] = t[1 + i - 1]
      BY <1>1, <2>1, SubSeqProperties
    <3>2. \A i \in 1 .. Capacity : i \in 1 .. Capacity - 1 + 1 /\ 1 + i - 1 = i
      BY <1>1
    <3> HIDE DEF u
    <3> QED
      BY <1>1, <3>1, <3>2
  <2>3. Cut(t) = u
    BY <1>3 DEF Cut
  <2> HIDE DEF u
  <2> QED
    BY <1>1, <1>3, <2>2, <2>3
<1> QED
  BY <1>2, <1>3

\* What is cut off early is cut off in the end.
LEMMA CutJoin ==
  ASSUME NEW S, NEW t \in Seq(S), NEW u \in Seq(S)
  PROVE  Cut(Cut(t) \o u) = Cut(t \o u)
<1>1. Capacity \in Nat /\ Len(t) \in Nat /\ Len(u) \in Nat
  BY MdnsReadAssumption
<1>2. CASE Len(t) <= Capacity
  BY <1>2 DEF Cut
<1>3. CASE ~(Len(t) <= Capacity)
  <2> DEFINE c == Cut(t)
             a == c \o u
             b == t \o u
  <2>1. c \in Seq(S) /\ Len(c) = Capacity /\ \A i \in 1 .. Capacity : c[i] = t[i]
    BY <1>3, CutFacts
  <2> HIDE DEF c
  <2>2. a \in Seq(S) /\ Len(a) = Capacity + Len(u) /\ \A i \in 1 .. Capacity : a[i] = c[i]
    <3>1. /\ a \in Seq(S) /\ Len(a) = Len(c) + Len(u)
          /\ \A i \in 1 .. Len(c) + Len(u) : a[i] = IF i <= Len(c) THEN c[i] ELSE u[i - Len(c)]
      BY <2>1, ConcatProperties
    <3>2. \A i \in 1 .. Capacity : i \in 1 .. Len(c) + Len(u) /\ i <= Len(c)
      BY <1>1, <2>1
    <3> HIDE DEF a
    <3> QED
      BY <2>1, <3>1, <3>2
  <2>3. b \in Seq(S) /\ Len(b) = Len(t) + Len(u) /\ \A i \in 1 .. Capacity : b[i] = t[i]
    BY <1>1, <1>3, ConcatProperties
  <2> HIDE DEF a, b
  <2>4. Cut(a) \in Seq(S) /\ Len(Cut(a)) = Capacity /\ \A i \in 1 .. Capacity : Cut(a)[i] = a[i]
    <3>1. Len(Cut(a)) = IF Len(a) <= Capacity THEN Len(a) ELSE Capacity
      BY <2>2, CutFacts
    <3>2. Len(Cut(a)) = Capacity
      BY <1>1, <2>2, <3>1
    <3> QED
      BY <2>2, <3>2, CutFacts
  <2>5. Cut(b) \in Seq(S) /\ Len(Cut(b)) = Capacity /\ \A i \in 1 .. Capacity : Cut(b)[i] = b[i]
    <3>1. Len(Cut(b)) = IF Len(b) <= Capacity THEN Len(b) ELSE Capacity
      BY <2>3, CutFacts
    <3>2. Len(Cut(b)) = Capacity
      BY <1>1, <1>3, <2>3, <3>1
    <3> QED
      BY <2>3, <3>2, CutFacts
  <2>6. \A i \in 1 .. Len(Cut(a)) : Cut(a)[i] = Cut(b)[i]
    BY <2>1, <2>2, <2>3, <2>4, <2>5
  <2>7. Cut(a) = Cut(b)
    BY <2>4, <2>5, <2>6, SeqEqual
  <2> QED
    BY <2>7 DEF a, b, c
<1> QED
  BY <1>2, <1>3

-----------------------------------------------------------------------------
(***************************************************************************)
(* What is read is the name.                                               *)
(***************************************************************************)
Label == Labelled(buffer, Substr.offset, Substr.length)
QueryLabel == Labelled(Query, QuerySubstr.offset, QuerySubstr.length)

\* The labels L are read from start up to cur, in steps enough for counter.
ReadSoFar(L, u) ==
  L \in Labels /\ u \in Nat /\ counter <= u /\ Leads(buffer, Size, start, L, u, cur)

ReadOfQuery(Q, v) == Q \in Labels /\ v \in Nat /\ Leads(Query, QuerySize, 0, Q, v, rhs)

\* The types that the lemmas below need.
Reading ==
  /\ TypeOK
  /\ Size \in Nat /\ buffer \in Bytes(Size) /\ start \in 0 .. Size /\ cur \in 0 .. Size
  /\ QuerySize \in Nat /\ Query \in Bytes(QuerySize)

LEMMA ReadingNow ==
  ASSUME TypeOK, EndsInv, call # "records", pc # "done"
  PROVE  Reading
  BY MdnsReadAssumption DEF Reading, TypeOK, EndsInv

LEMMA ReadLabel ==
  ASSUME Reading, ~Unreadable(Substr), Substr.length > 0, NEW L, NEW u, ReadSoFar(L, u)
  PROVE  /\ After(Substr) \in 0 .. Size /\ Label \in Seq(Byte)
         /\ L \o <<Label>> \in Labels
         /\ \E w \in Nat : counter + 1 <= w
                           /\ Leads(buffer, Size, start, L \o <<Label>>, w, After(Substr))
<1> DEFINE s == Substr
           q == After(Substr)
<1>1. /\ s = mdns_get_next_substring(buffer, Size, cur) /\ s.offset # -1 /\ s.length > 0
      /\ s.offset \in Nat /\ s.length \in Nat /\ s.offset + s.length <= Size
      /\ q = s.offset + s.length /\ Label = Labelled(buffer, s.offset, s.length)
  BY SubstrFacts DEF Substr, Unreadable, MDNS_INVALID_POS, After, Reading, Label
<1> HIDE DEF s, q
<1>2. PICK v \in Nat : v >= 1 /\ Leads(buffer, Size, cur, <<Label>>, v, q)
  BY <1>1, SubstringLeads DEF Reading
<1>3. q \in 0 .. Size
  BY <1>1 DEF Reading
<1>4. Label \in Seq(Byte) /\ <<Label>> \in Labels
  BY <1>1, LabelledType, LabelledLabels DEF Reading
<1>5. L \in Labels /\ u \in Nat /\ counter <= u /\ Leads(buffer, Size, start, L, u, cur)
  BY DEF ReadSoFar
<1>6. Leads(buffer, Size, start, L \o <<Label>>, u + v, q)
  BY <1>2, <1>3, <1>4, <1>5, LeadsOn DEF Reading
<1>7. u + v \in Nat /\ counter + 1 <= u + v
  BY <1>2, <1>5 DEF Reading, TypeOK
<1>8. L \o <<Label>> \in Labels
  BY <1>4, <1>5, LabelsJoin
<1> QED
  BY <1>3, <1>4, <1>6, <1>7, <1>8 DEF q

LEMMA ReadZero ==
  ASSUME Reading, ~Unreadable(Substr), Substr.length = 0, NEW L, NEW u, ReadSoFar(L, u)
  PROVE  L \in AllNames(buffer, Size, start)
<1> DEFINE s == Substr
<1>1. s = mdns_get_next_substring(buffer, Size, cur) /\ s.offset # -1 /\ s.length = 0
  BY DEF Substr, Unreadable, MDNS_INVALID_POS
<1> HIDE DEF s
<1>2. PICK v \in Nat : NamesAt(buffer, Size, cur, v) = {<<>>}
  BY <1>1, SubstringLeads DEF Reading
<1>3. L \in Labels /\ u \in Nat /\ Leads(buffer, Size, start, L, u, cur)
  BY DEF ReadSoFar
<1>4. NamesAt(buffer, Size, start, u + v) = {L \o r : r \in {<<>>}}
  BY <1>2, <1>3 DEF Leads
<1>5. L \o <<>> = L /\ u + v \in Nat
  BY <1>3, ConcatEmptySeq DEF Labels
<1>6. L \in NamesAt(buffer, Size, start, u + v)
  BY <1>4, <1>5
<1> QED
  BY <1>5, <1>6, ReadSoon DEF Reading

LEMMA FewType == Few \in Nat /\ Few <= MAX_SUBSTRINGS + 1 /\ Few <= MaxRefs + 1
  BY MdnsReadAssumption DEF Few

\* What cannot be read is not a name within the limits.
LEMMA ReadFails ==
  ASSUME Reading, Unreadable(Substr), NEW L, NEW u, ReadSoFar(L, u)
  PROVE  NamesAt(buffer, Size, start, Few) = {}
<1>1. u \in Nat /\ counter <= u /\ Leads(buffer, Size, start, L, u, cur) /\ counter \in Nat
      /\ MAX_SUBSTRINGS \in Nat /\ MaxRefs \in Nat
  BY MdnsReadAssumption DEF ReadSoFar, Reading, TypeOK
<1>2. CASE Few < u
  BY <1>1, <1>2, FewType DEF Leads
<1>3. CASE ~(Few < u)
  <2>1. PICK i \in Nat : u + i = Few
    <3>1. Few - u \in Nat /\ u + (Few - u) = Few
      BY <1>1, <1>3, FewType
    <3> QED
      BY <3>1
  <2>2. NamesAt(buffer, Size, cur, i) = {}
    <3>1. CASE TooMany
      <4>1. i = 0
        BY <1>1, <2>1, <3>1, FewType DEF TooMany
      <4> QED
        BY <4>1, NamesEquation DEF Reading
    <3>2. CASE ~TooMany
      <4> DEFINE s == Substr
      <4>1. s = mdns_get_next_substring(buffer, Size, cur) /\ s.offset = -1
        BY <3>2 DEF Substr, Unreadable, MDNS_INVALID_POS
      <4> HIDE DEF s
      <4>2. i \in 0 .. MaxRefs + 1
        BY <1>1, <2>1, FewType
      <4> QED
        BY <4>1, <4>2, SubstringLeads DEF Reading
    <3> QED
      BY <3>1, <3>2
  <2>3. NamesAt(buffer, Size, start, u + i) = {L \o r : r \in NamesAt(buffer, Size, cur, i)}
    BY <1>1, <2>1 DEF Leads
  <2> QED
    BY <2>1, <2>2, <2>3
<1> QED
  BY <1>2, <1>3

\* All names at the start begin with the labels read so far.
LEMMA ReadAll ==
  ASSUME Reading, NEW L, NEW u, ReadSoFar(L, u), NEW n \in Nat,
         NEW name \in NamesAt(buffer, Size, start, n)
  PROVE  \E i \in Nat : \E r \in NamesAt(buffer, Size, cur, i) : name = L \o r
<1>1. u \in Nat /\ Leads(buffer, Size, start, L, u, cur)
  BY DEF ReadSoFar
<1>2. ~(n < u)
  BY <1>1 DEF Leads
<1>3. PICK i \in Nat : u + i = n
  <2>1. n - u \in Nat /\ u + (n - u) = n
    BY <1>1, <1>2
  <2> QED
    BY <2>1
<1>4. NamesAt(buffer, Size, start, u + i) = {L \o r : r \in NamesAt(buffer, Size, cur, i)}
  BY <1>1 DEF Leads
<1> QED
  BY <1>3, <1>4

ExtractInv ==
  call = "extract" /\ pc # "done" => \E L, u : str = Cut(Text(L)) /\ ReadSoFar(L, u)

ExtractAgrees ==
  call = "extract" /\ pc = "done" =>
    /\ ok => \E n \in AllNames(buffer, Size, start) : str = Cut(Text(n))
    /\ NamesAt(buffer, Size, start, Few) # {} => ok

\* At first nothing is read.
LEMMA ReadNothing ==
  ASSUME Init
  PROVE  ReadSoFar(<<>>, 0) /\ Cut(Text(<<>>)) = <<>>
<1>1. start \in 0 .. Size /\ Size \in Nat /\ buffer \in Bytes(Size) /\ cur = start /\ counter = 0
  BY MdnsReadAssumption DEF Init
<1>2. Leads(buffer, Size, start, <<>>, 0, start)
  BY <1>1, LeadsSelf
<1>3. <<>> \in Labels /\ <<>> \in Seq(Byte)
  BY DEF Labels
<1>4. Text(<<>>) = <<>>
  BY <1>3, TextOn
<1>5. Cut(<<>>) = <<>>
  BY MdnsReadAssumption DEF Cut
<1> QED
  BY <1>1, <1>2, <1>3, <1>4, <1>5 DEF ReadSoFar

LEMMA InputKept == [Next]_vars => UNCHANGED input /\ (pc = "done" => UNCHANGED vars)
  BY DEF Next, Step, SkipFails, SkipEnd, SkipLabel, EqualFails, Equal, ExtractFails, Extract,
         ParseRecord, RecordsEnd, Over, Return, GoOn, vars, input

LEMMA ExtractStep ==
  ASSUME TypeOK, EndsInv, ExtractInv, ExtractAgrees, [Next]_vars
  PROVE  ExtractInv' /\ ExtractAgrees'
<1>1. buffer' = buffer /\ start' = start /\ call' = call
  BY InputKept DEF input
<1>2. CASE call # "extract"
  BY <1>1, <1>2 DEF ExtractInv, ExtractAgrees
<1>3. CASE call = "extract" /\ pc = "done"
  <2>1. pc' = pc /\ ok' = ok /\ str' = str
    BY <1>3, InputKept DEF vars, walk
  <2> QED
    BY <1>1, <1>3, <2>1 DEF ExtractInv, ExtractAgrees
<1>4. CASE call = "extract" /\ pc # "done"
  <2>1. pc = "extract" /\ Reading
    BY <1>4, ReadingNow DEF EndsInv
  <2>2. PICK L, u : str = Cut(Text(L)) /\ ReadSoFar(L, u)
    BY <1>4 DEF ExtractInv
  <2>3. CASE ExtractFails
    <3>1. Unreadable(Substr) /\ pc' = "done" /\ ok' = FALSE
      BY <1>4, <2>3 DEF ExtractFails, Return
    <3>2. NamesAt(buffer, Size, start, Few) = {}
      BY <2>1, <2>2, <3>1, ReadFails
    <3> QED
      BY <1>1, <3>1, <3>2 DEF ExtractInv, ExtractAgrees
  <2>4. CASE Extract /\ Substr.length > 0
    <3>1. /\ ~Unreadable(Substr) /\ pc' = pc /\ str' = Copied(Substr)
          /\ cur' = After(Substr) /\ counter' = counter + 1
      BY <2>4 DEF Extract, GoOn, Counted
    <3>2. PICK w \in Nat : counter + 1 <= w
                           /\ Leads(buffer, Size, start, L \o <<Label>>, w, After(Substr))
      BY <2>1, <2>2, <2>4, <3>1, ReadLabel
    <3>3. Label \in Seq(Byte) /\ L \o <<Label>> \in Labels /\ L \in Labels
      BY <2>1, <2>2, <2>4, <3>1, ReadLabel DEF ReadSoFar
    <3>4. str' = Cut(Text(L \o <<Label>>))
      <4> DEFINE t == Text(L)
                 lb == Label
      <4>1. t \in Seq(Text46) /\ Text(L \o <<lb>>) = t \o (lb \o <<46>>)
        BY <3>3, TextOn
      <4>2. Copied(Substr) = Cut((str \o lb) \o <<46>>)
        BY <3>1, CopiedType DEF Label
      <4>3. lb \in Seq(Text46) /\ <<46>> \in Seq(Text46) /\ str \in Seq(Text46)
        <5>1. Seq(Byte) \subseteq Seq(Text46)
          BY SeqMonotonic DEF Text46
        <5> QED
          BY <3>3, <5>1 DEF TypeOK, Text46
      <4> HIDE DEF t, lb
      <4>4. (str \o lb) \o <<46>> = str \o (lb \o <<46>>) /\ lb \o <<46>> \in Seq(Text46)
        BY <4>3, ConcatAssociative
      <4>5. Cut(str \o (lb \o <<46>>)) = Cut(t \o (lb \o <<46>>))
        BY <2>2, <4>1, <4>4, CutJoin DEF t
      <4> QED
        BY <3>1, <4>1, <4>2, <4>4, <4>5 DEF t, lb
    <3> DEFINE M == L \o <<Label>>
    <3>5. PICK K : K = M
      OBVIOUS
    <3>6. ReadSoFar(K, w)' /\ str' = Cut(Text(K))
      BY <1>1, <3>1, <3>2, <3>3, <3>4, <3>5 DEF ReadSoFar
    <3>7. \E N, v : str' = Cut(Text(N)) /\ ReadSoFar(N, v)'
      BY <3>6
    <3> HIDE DEF M
    <3> QED
      BY <1>1, <1>4, <3>1, <3>7 DEF ExtractInv, ExtractAgrees
  <2>5. CASE Extract /\ ~(Substr.length > 0)
    <3>1. ~Unreadable(Substr) /\ pc' = "done" /\ ok' = TRUE /\ str' = str /\ Substr.length = 0
      BY <1>4, <2>5, SubstrFacts DEF Extract, Return
    <3>2. L \in AllNames(buffer, Size, start)
      BY <2>1, <2>2, <3>1, ReadZero
    <3> QED
      BY <1>1, <2>2, <3>1, <3>2 DEF ExtractInv, ExtractAgrees
  <2>6. CASE UNCHANGED vars
    <3>1. pc' = pc /\ str' = str /\ cur' = cur /\ counter' = counter
      BY <2>6 DEF vars, walk
    <3>2. ReadSoFar(L, u)'
      BY <1>1, <2>2, <3>1 DEF ReadSoFar
    <3> QED
      BY <1>1, <1>4, <2>2, <3>1, <3>2 DEF ExtractInv, ExtractAgrees
  <2> QED
    BY <2>1, <2>3, <2>4, <2>5, <2>6
       DEF Next, Step, SkipFails, SkipEnd, SkipLabel, EqualFails, Equal, ParseRecord, RecordsEnd, Over
<1> QED
  BY <1>2, <1>3, <1>4

-----------------------------------------------------------------------------
(***************************************************************************)
(* mdns_string_equal.                                                      *)
(***************************************************************************)
FoldedLabel(l) == [j \in DOMAIN l |-> ToLower(l[j])]

LEMMA FoldedIs ==
  ASSUME NEW a \in Labels
  PROVE  /\ DOMAIN Folded(a) = 1 .. Len(a)
         /\ \A i \in 1 .. Len(a) : Folded(a)[i] = FoldedLabel(a[i]) /\ a[i] \in Seq(Byte)
<1>1. DOMAIN a = 1 .. Len(a) /\ \A i \in 1 .. Len(a) : a[i] \in Seq(Byte)
  BY DEF Labels
<1> QED
  BY <1>1 DEF Folded, FoldedLabel

LEMMA FoldedSame ==
  ASSUME NEW a \in Labels, NEW b \in Labels
  PROVE  Folded(a) = Folded(b) <=>
           Len(a) = Len(b) /\ \A i \in 1 .. Len(a) : FoldedLabel(a[i]) = FoldedLabel(b[i])
<1>1. /\ DOMAIN Folded(a) = 1 .. Len(a) /\ DOMAIN Folded(b) = 1 .. Len(b)
      /\ \A i \in 1 .. Len(a) : Folded(a)[i] = FoldedLabel(a[i])
      /\ \A i \in 1 .. Len(b) : Folded(b)[i] = FoldedLabel(b[i])
      /\ Len(a) \in Nat /\ Len(b) \in Nat
  BY FoldedIs DEF Labels
<1>2. ASSUME Folded(a) = Folded(b)
      PROVE  Len(a) = Len(b) /\ \A i \in 1 .. Len(a) : FoldedLabel(a[i]) = FoldedLabel(b[i])
  <2>1. Len(a) = Len(b)
    BY <1>1, <1>2
  <2> QED
    BY <1>1, <1>2, <2>1
<1>3. ASSUME Len(a) = Len(b), \A i \in 1 .. Len(a) : FoldedLabel(a[i]) = FoldedLabel(b[i])
      PROVE  Folded(a) = Folded(b)
  <2>1. Folded(a) = [i \in 1 .. Len(a) |-> Folded(a)[i]]
        /\ Folded(b) = [i \in 1 .. Len(b) |-> Folded(b)[i]]
    BY <1>1 DEF Folded
  <2>2. \A i \in 1 .. Len(a) : Folded(a)[i] = Folded(b)[i]
    BY <1>1, <1>3
  <2>3. [i \in 1 .. Len(a) |-> Folded(a)[i]] = [i \in 1 .. Len(b) |-> Folded(b)[i]]
    BY <1>3, <2>2
  <2> QED
    BY <2>1, <2>3
<1> QED
  BY <1>2, <1>3

LEMMA SameRange ==
  ASSUME NEW x \in Nat, NEW y \in Nat, \A i : i \in 1 .. x <=> i \in 1 .. y
  PROVE  x = y
<1>1. x \in 1 .. x <=> x \in 1 .. y
  OBVIOUS
<1>2. y \in 1 .. x <=> y \in 1 .. y
  OBVIOUS
<1> QED
  BY <1>1, <1>2

LEMMA FoldedLabelSame ==
  ASSUME NEW a \in Seq(Byte), NEW b \in Seq(Byte)
  PROVE  FoldedLabel(a) = FoldedLabel(b) <=>
           Len(a) = Len(b) /\ \A i \in 1 .. Len(a) : ToLower(a[i]) = ToLower(b[i])
<1>1. DOMAIN a = 1 .. Len(a) /\ DOMAIN b = 1 .. Len(b) /\ Len(a) \in Nat /\ Len(b) \in Nat
  OBVIOUS
<1> DEFINE f == FoldedLabel(a)
           g == FoldedLabel(b)
<1>2. /\ f = [i \in 1 .. Len(a) |-> ToLower(a[i])]
      /\ g = [i \in 1 .. Len(b) |-> ToLower(b[i])]
  BY <1>1 DEF FoldedLabel
<1>3. DOMAIN f = 1 .. Len(a) /\ DOMAIN g = 1 .. Len(b)
      /\ (\A i \in 1 .. Len(a) : f[i] = ToLower(a[i]))
      /\ (\A i \in 1 .. Len(b) : g[i] = ToLower(b[i]))
  BY <1>2
<1> HIDE DEF f, g
<1>4. ASSUME f = g
      PROVE  Len(a) = Len(b) /\ \A i \in 1 .. Len(a) : ToLower(a[i]) = ToLower(b[i])
  <2>1. Len(a) = Len(b)
    <3>1. \A i : i \in 1 .. Len(a) <=> i \in 1 .. Len(b)
      BY <1>3, <1>4, Zenon
    <3> QED
      BY <1>1, <3>1, SameRange, Zenon
  <2> QED
    BY <1>3, <1>4, <2>1, Zenon
<1>5. ASSUME Len(a) = Len(b), \A i \in 1 .. Len(a) : ToLower(a[i]) = ToLower(b[i])
      PROVE  f = g
  <2>1. [i \in 1 .. Len(a) |-> ToLower(a[i])] = [i \in 1 .. Len(b) |-> ToLower(b[i])]
    BY <1>5
  <2> QED
    BY <1>2, <2>1
<1> QED
  BY <1>4, <1>5 DEF f, g

\* Names are the same if their beginnings and their ends are.
LEMMA FoldedJoin ==
  ASSUME NEW a \in Labels, NEW b \in Labels, NEW c \in Labels, NEW d \in Labels,
         Folded(a) = Folded(b)
  PROVE  Folded(a \o c) = Folded(b \o d) <=> Folded(c) = Folded(d)
<1>1. /\ Len(a) = Len(b) /\ \A i \in 1 .. Len(a) : FoldedLabel(a[i]) = FoldedLabel(b[i])
      /\ a \o c \in Labels /\ b \o d \in Labels
  BY FoldedSame, LabelsJoin
<1>2. /\ Len(a) \in Nat /\ Len(c) \in Nat /\ Len(d) \in Nat
      /\ Len(a \o c) = Len(a) + Len(c) /\ Len(b \o d) = Len(b) + Len(d)
      /\ \A i \in 1 .. Len(a) + Len(c) : (a \o c)[i] = IF i <= Len(a) THEN a[i] ELSE c[i - Len(a)]
      /\ \A i \in 1 .. Len(b) + Len(d) : (b \o d)[i] = IF i <= Len(b) THEN b[i] ELSE d[i - Len(b)]
  BY DEF Labels
<1>3. ASSUME Folded(a \o c) = Folded(b \o d) PROVE Folded(c) = Folded(d)
  <2>1. /\ Len(a \o c) = Len(b \o d)
        /\ \A i \in 1 .. Len(a \o c) : FoldedLabel((a \o c)[i]) = FoldedLabel((b \o d)[i])
    BY <1>1, <1>3, FoldedSame
  <2>2. Len(c) = Len(d)
    BY <1>1, <1>2, <2>1
  <2>3. ASSUME NEW i \in 1 .. Len(c) PROVE FoldedLabel(c[i]) = FoldedLabel(d[i])
    <3>1. /\ Len(a) + i \in 1 .. Len(a \o c) /\ ~(Len(a) + i <= Len(a))
          /\ (Len(a) + i) - Len(a) = i
      BY <1>2
    <3>2. (a \o c)[Len(a) + i] = c[i] /\ (b \o d)[Len(a) + i] = d[i]
      BY <1>1, <1>2, <2>2, <3>1
    <3> QED
      BY <2>1, <3>1, <3>2
  <2> QED
    BY <2>2, <2>3, FoldedSame
<1>4. ASSUME Folded(c) = Folded(d) PROVE Folded(a \o c) = Folded(b \o d)
  <2>1. Len(c) = Len(d) /\ \A i \in 1 .. Len(c) : FoldedLabel(c[i]) = FoldedLabel(d[i])
    BY <1>4, FoldedSame
  <2>2. Len(a \o c) = Len(b \o d)
    BY <1>1, <1>2, <2>1
  <2>3. ASSUME NEW i \in 1 .. Len(a \o c)
        PROVE  FoldedLabel((a \o c)[i]) = FoldedLabel((b \o d)[i])
    <3>1. CASE i <= Len(a)
      BY <1>1, <1>2, <2>1, <3>1
    <3>2. CASE ~(i <= Len(a))
      <4>1. i - Len(a) \in 1 .. Len(c) /\ (a \o c)[i] = c[i - Len(a)] /\ (b \o d)[i] = d[i - Len(a)]
        BY <1>1, <1>2, <2>1, <3>2
      <4> QED
        BY <2>1, <4>1
    <3> QED
      BY <3>1, <3>2
  <2> QED
    BY <1>1, <2>2, <2>3, FoldedSame
<1> QED
  BY <1>3, <1>4

\* What the loop reads of Query, which has no references.
LEMMA QueryFacts ==
  ASSUME Reading, Plain(Query, QuerySize), rhs \in 0 .. QuerySize, NEW Q, NEW v, ReadOfQuery(Q, v)
  PROVE  /\ Q \in Labels
         /\ \A n \in AllNames(Query, QuerySize, 0) :
              \E i \in Nat : \E r \in NamesAt(Query, QuerySize, rhs, i) : n = Q \o r
         /\ QuerySubstr.offset = -1 => AllNames(Query, QuerySize, 0) = {}
<1> DEFINE N(n) == NamesAt(Query, QuerySize, 0, n)
           all == AllNames(Query, QuerySize, 0)
<1>1. /\ QuerySize \in Nat /\ Query \in Bytes(QuerySize) /\ 0 \in 0 .. QuerySize
      /\ Q \in Labels /\ v \in Nat /\ Leads(Query, QuerySize, 0, Q, v, rhs)
  BY DEF Reading, ReadOfQuery
<1>2. all = N(QuerySize + 1) /\ QuerySize + 1 \in Nat
  BY <1>1 DEF AllNames
<1>3. ASSUME NEW n \in all
      PROVE  \E i \in Nat : \E r \in NamesAt(Query, QuerySize, rhs, i) : n = Q \o r
  <2>1. ~(QuerySize + 1 < v)
    BY <1>1, <1>2 DEF Leads
  <2>2. PICK i \in Nat : v + i = QuerySize + 1
    <3>1. QuerySize + 1 - v \in Nat /\ v + (QuerySize + 1 - v) = QuerySize + 1
      BY <1>1, <2>1
    <3> QED
      BY <3>1
  <2>3. N(v + i) = {Q \o r : r \in NamesAt(Query, QuerySize, rhs, i)}
    BY <1>1 DEF Leads
  <2> QED
    BY <1>2, <2>2, <2>3
<1>4. ASSUME QuerySubstr.offset = -1 PROVE all = {}
  <2>1. Nameless(Query, QuerySize, rhs)
    <3>1. CASE rhs = QuerySize
      BY <1>1, <3>1, NamesEquation, NoStep
    <3>2. CASE rhs # QuerySize
      <4>1. /\ rhs \in 0 .. QuerySize - 1 /\ ~(rhs >= QuerySize)
            /\ ~mdns_is_string_ref(Query[rhs])
        BY <1>1, <3>2 DEF Plain
      <4>2. Follow(Query, QuerySize, rhs, MaxRefs) = rhs
        BY <1>1, <4>1, FollowLabel, MdnsReadAssumption
      <4>3. Query[rhs] # 0 /\ QuerySize < rhs + 1 + Query[rhs]
        <5> DEFINE z == [offset |-> rhs, length |-> 0, ref |-> FALSE]
                   l == [offset |-> rhs + 1, length |-> Query[rhs],
                         ref |-> mdns_is_string_ref(Query[rhs])]
        <5>1. QuerySubstr = IF Query[rhs] = 0 THEN z
                            ELSE IF \/ rhs = -1 \/ mdns_is_string_ref(Query[rhs])
                                    \/ QuerySize < rhs + 1 + Query[rhs]
                            THEN Nowhere ELSE l
          BY <4>1, <4>2 DEF QuerySubstr, mdns_get_next_substring, MDNS_INVALID_POS
        <5>2. z.offset # -1 /\ l.offset # -1 /\ rhs # -1
          BY <4>1
        <5> HIDE DEF z, l
        <5> QED
          BY <1>4, <4>1, <5>1, <5>2
      <4> QED
        BY <1>1, <4>1, <4>3, LeadsLabel
    <3> QED
      BY <3>1, <3>2
  <2>2. Nameless(Query, QuerySize, 0)
    BY <1>1, <2>1, LeadsNowhere
  <2> QED
    BY <1>2, <2>2 DEF Nameless
<1> QED
  BY <1>1, <1>3, <1>4

LEMMA QueryLabelOn ==
  ASSUME Reading, rhs \in 0 .. QuerySize, NEW Q, NEW v, ReadOfQuery(Q, v),
         QuerySubstr.offset # -1, QuerySubstr.length > 0
  PROVE  /\ After(QuerySubstr) \in 0 .. QuerySize /\ QueryLabel \in Seq(Byte)
         /\ Q \o <<QueryLabel>> \in Labels
         /\ \E w \in Nat : Leads(Query, QuerySize, 0, Q \o <<QueryLabel>>, w, After(QuerySubstr))
<1> DEFINE s == QuerySubstr
           q == After(QuerySubstr)
<1>1. /\ s = mdns_get_next_substring(Query, QuerySize, rhs) /\ s.offset # -1 /\ s.length > 0
      /\ s.offset \in Nat /\ s.length \in Nat /\ s.offset + s.length <= QuerySize
      /\ q = s.offset + s.length /\ QueryLabel = Labelled(Query, s.offset, s.length)
  BY QuerySubstrFacts DEF QuerySubstr, MDNS_INVALID_POS, After, Reading, TypeOK, QueryLabel
<1> HIDE DEF s, q
<1>2. PICK i \in Nat : Leads(Query, QuerySize, rhs, <<QueryLabel>>, i, q)
  BY <1>1, SubstringLeads DEF Reading
<1>3. q \in 0 .. QuerySize /\ 0 \in 0 .. QuerySize
  BY <1>1 DEF Reading
<1>4. QueryLabel \in Seq(Byte) /\ <<QueryLabel>> \in Labels
  BY <1>1, LabelledType, LabelledLabels DEF Reading
<1>5. Q \in Labels /\ v \in Nat /\ Leads(Query, QuerySize, 0, Q, v, rhs)
  BY DEF ReadOfQuery
<1>6. Leads(Query, QuerySize, 0, Q \o <<QueryLabel>>, v + i, q)
  BY <1>2, <1>3, <1>4, <1>5, LeadsOn DEF Reading
<1>7. v + i \in Nat
  BY <1>2, <1>5
<1>8. Q \o <<QueryLabel>> \in Labels
  BY <1>4, <1>5, LabelsJoin
<1> QED
  BY <1>3, <1>4, <1>6, <1>7, <1>8 DEF q

LEMMA QueryZero ==
  ASSUME Reading, rhs \in 0 .. QuerySize, NEW Q, NEW v, ReadOfQuery(Q, v),
         QuerySubstr.offset # -1, QuerySubstr.length = 0
  PROVE  Q \in AllNames(Query, QuerySize, 0)
<1> DEFINE s == QuerySubstr
<1>1. s = mdns_get_next_substring(Query, QuerySize, rhs) /\ s.offset # -1 /\ s.length = 0
  BY DEF QuerySubstr
<1> HIDE DEF s
<1>2. PICK i \in Nat : NamesAt(Query, QuerySize, rhs, i) = {<<>>}
  BY <1>1, SubstringLeads DEF Reading
<1>3. Q \in Labels /\ v \in Nat /\ Leads(Query, QuerySize, 0, Q, v, rhs) /\ 0 \in 0 .. QuerySize
  BY DEF ReadOfQuery, Reading
<1>4. NamesAt(Query, QuerySize, 0, v + i) = {Q \o r : r \in {<<>>}}
  BY <1>2, <1>3 DEF Leads
<1>5. Q \o <<>> = Q /\ v + i \in Nat
  BY <1>3, ConcatEmptySeq DEF Labels
<1>6. Q \in NamesAt(Query, QuerySize, 0, v + i)
  BY <1>4, <1>5
<1> QED
  BY <1>3, <1>5, <1>6, ReadSoon DEF Reading

-----------------------------------------------------------------------------
\* Under Plain, strncasecmp reads on to the last byte of a label.
LEMMA Compared ==
  ASSUME Reading, Plain(Query, QuerySize), ~Unreadable(Substr), QuerySubstr.offset # -1
  PROVE  /\ Label \in Seq(Byte) /\ QueryLabel \in Seq(Byte)
         /\ ~Differ(Substr, QuerySubstr) => FoldedLabel(Label) = FoldedLabel(QueryLabel)
         /\ FoldedLabel(Label) = FoldedLabel(QueryLabel) => ~Differ(Substr, QuerySubstr)
<1> DEFINE o == Substr.offset
           n == Substr.length
           p == QuerySubstr.offset
           k == QuerySubstr.length
           a == Label
           b == QueryLabel
<1>1. /\ o \in Nat /\ n \in Nat /\ o + n <= Size /\ p \in Nat /\ k \in Nat /\ p + k <= QuerySize
      /\ a = Labelled(buffer, o, n) /\ b = Labelled(Query, p, k)
  BY SubstrFacts, QuerySubstrFacts DEF Reading, TypeOK, MDNS_INVALID_POS, Label, QueryLabel
<1>3. Differ(Substr, QuerySubstr) <=>
        \/ n # k
        \/ \E i \in 0 .. k - 1 : /\ ToLower(buffer[o + i]) # ToLower(Query[p + i])
                                 /\ \A j \in 0 .. i - 1 : Query[p + j] # 0
  BY DEF Differ, strncasecmp
<1> HIDE DEF o, n, p, k, a, b
<1>2. /\ a \in Seq(Byte) /\ Len(a) = n /\ \A i \in 1 .. n : a[i] = buffer[o + i - 1]
      /\ b \in Seq(Byte) /\ Len(b) = k /\ \A i \in 1 .. k : b[i] = Query[p + i - 1]
  <2>1. a \in Seq(Byte) /\ Len(a) = n /\ \A i \in 1 .. n : a[i] = buffer[o + i - 1]
    BY <1>1, LabelledType DEF Reading
  <2>2. b \in Seq(Byte) /\ Len(b) = k /\ \A i \in 1 .. k : b[i] = Query[p + i - 1]
    BY <1>1, LabelledType DEF Reading
  <2> QED
    BY <2>1, <2>2
<1>4. FoldedLabel(a) = FoldedLabel(b) <=>
        n = k /\ \A i \in 1 .. n : ToLower(a[i]) = ToLower(b[i])
  BY <1>2, FoldedLabelSame
<1>5. ASSUME ~Differ(Substr, QuerySubstr) PROVE FoldedLabel(a) = FoldedLabel(b)
  <2>1. n = k
    BY <1>3, <1>5
  <2>2. ASSUME NEW i \in 1 .. n PROVE ToLower(a[i]) = ToLower(b[i])
    <3>1. PICK e \in Nat : e = i - 1
      BY <1>1
    <3>2. e \in 0 .. k - 1 /\ a[i] = buffer[o + e] /\ b[i] = Query[p + e]
      <4>1. o + i - 1 = o + e /\ p + i - 1 = p + e
        BY <1>1, <3>1
      <4> QED
        BY <1>1, <1>2, <2>1, <3>1, <4>1
    <3>3. ASSUME NEW j \in 0 .. e - 1 PROVE Query[p + j] # 0
      <4>1. p + j \in 0 .. QuerySize - 1 /\ p + j # QuerySize - 1
        BY <1>1, <3>2 DEF Reading
      <4> QED
        BY <4>1 DEF Plain
    <3> QED
      BY <1>3, <1>5, <3>2, <3>3
  <2> QED
    BY <1>4, <2>1, <2>2
<1>6. ASSUME FoldedLabel(a) = FoldedLabel(b) PROVE ~Differ(Substr, QuerySubstr)
  <2>1. n = k /\ \A i \in 1 .. n : ToLower(a[i]) = ToLower(b[i])
    BY <1>4, <1>6
  <2>2. ASSUME NEW i \in 0 .. k - 1 PROVE ToLower(buffer[o + i]) = ToLower(Query[p + i])
    <3>1. i + 1 \in 1 .. n /\ o + (i + 1) - 1 = o + i /\ p + (i + 1) - 1 = p + i
      BY <1>1, <2>1
    <3>2. a[i + 1] = buffer[o + i] /\ b[i + 1] = Query[p + i]
      BY <1>2, <2>1, <3>1
    <3> QED
      BY <2>1, <3>1, <3>2
  <2> QED
    BY <1>3, <2>1, <2>2
<1> QED
  BY <1>2, <1>5, <1>6 DEF a, b

\* The name r begins with the labels A, or is empty if there is no label.
BeginsWith(A, length, r) ==
  /\ length = 0 => r = <<>>
  /\ length > 0 => \E t \in Labels : r = A \o t

LEMMA Begins ==
  ASSUME NEW size \in Nat, NEW m \in Bytes(size), NEW o \in 0 .. size,
         NEW s, s = mdns_get_next_substring(m, size, o), s.offset # -1, s.length \in Nat,
         s.offset \in Nat, s.offset + s.length <= size,
         NEW i \in Nat, NEW r \in NamesAt(m, size, o, i)
  PROVE  BeginsWith(<<Labelled(m, s.offset, s.length)>>, s.length, r)
<1> DEFINE l == <<Labelled(m, s.offset, s.length)>>
<1> DEFINE N(k) == NamesAt(m, size, o, k)
<1>1. CASE s.length = 0
  <2>1. \A k \in Nat : N(k) \subseteq {<<>>}
    BY <1>1, SubstringLeads
  <2> HIDE DEF N
  <2>2. r \in N(i)
    BY DEF N
  <2>3. r = <<>>
    BY <2>1, <2>2
  <2>4. ~(s.length > 0)
    BY <1>1
  <2> QED
    BY <2>3, <2>4 DEF BeginsWith
<1>2. CASE s.length > 0
  <2> DEFINE q == s.offset + s.length
  <2>1. PICK u \in Nat : Leads(m, size, o, l, u, q)
    BY <1>2, SubstringLeads
  <2>2. q \in 0 .. size
    OBVIOUS
  <2> HIDE DEF l, q
  <2>3. ~(i < u)
    BY <2>1 DEF Leads
  <2>4. PICK j \in Nat : u + j = i
    <3>1. i - u \in Nat /\ u + (i - u) = i
      BY <2>1, <2>3
    <3> QED
      BY <3>1
  <2>5. NamesAt(m, size, o, u + j) = {l \o t : t \in NamesAt(m, size, q, j)}
    BY <2>1 DEF Leads
  <2>6. NamesAt(m, size, q, j) \in SUBSET Labels
    BY <2>2, NamesEquation
  <2>7. \E t \in Labels : r = l \o t
    BY <2>4, <2>5, <2>6
  <2>8. s.length # 0
    BY <1>2
  <2> QED
    BY <2>7, <2>8, Zenon DEF l, BeginsWith
<1> QED
  BY <1>1, <1>2

\* The labels of the query that were found again so far.
Matched(L, u, Q, v) ==
  ReadSoFar(L, u) /\ ReadOfQuery(Q, v) /\ Folded(L) = Folded(Q)

EqualInv ==
  call = "equal" /\ pc # "done" =>
    rhs \in 0 .. QuerySize /\ \E L, u, Q, v : Matched(L, u, Q, v)

EqualAgrees ==
  call = "equal" /\ pc = "done" =>
    /\ ok => \E n \in AllNames(buffer, Size, start) : SameName(n)
    /\ (\E n \in NamesAt(buffer, Size, start, Few) : SameName(n)) => ok

\* A label that differs is one of another name.
LEMMA OtherName ==
  ASSUME Reading, Plain(Query, QuerySize), rhs \in 0 .. QuerySize,
         NEW L, NEW u, NEW Q, NEW v, Matched(L, u, Q, v),
         ~Unreadable(Substr), QuerySubstr.offset # -1, Differ(Substr, QuerySubstr),
         NEW j \in Nat, NEW name \in NamesAt(buffer, Size, start, j),
         NEW q \in AllNames(Query, QuerySize, 0)
  PROVE  Folded(q) # Folded(name)
<1> DEFINE s == Substr
           t == QuerySubstr
           A == <<Label>>
           B == <<QueryLabel>>
<1>1. /\ ReadSoFar(L, u) /\ ReadOfQuery(Q, v) /\ Folded(L) = Folded(Q)
      /\ L \in Labels /\ Q \in Labels
  BY DEF Matched, ReadSoFar, ReadOfQuery
<1>2. PICK i \in Nat : \E r \in NamesAt(buffer, Size, cur, i) : name = L \o r
  BY <1>1, ReadAll
<1>3. PICK r \in NamesAt(buffer, Size, cur, i) : name = L \o r
  BY <1>2
<1>4. PICK k \in Nat : \E x \in NamesAt(Query, QuerySize, rhs, k) : q = Q \o x
  BY <1>1, QueryFacts
<1>5. PICK x \in NamesAt(Query, QuerySize, rhs, k) : q = Q \o x
  BY <1>4
<1>6. r \in Labels /\ x \in Labels
  BY NamesEquation DEF Reading
<1>7. /\ s = mdns_get_next_substring(buffer, Size, cur) /\ s.offset # -1
      /\ s.offset \in Nat /\ s.length \in Nat /\ s.offset + s.length <= Size
      /\ A = <<Labelled(buffer, s.offset, s.length)>>
  BY SubstrFacts DEF Reading, Unreadable, MDNS_INVALID_POS, Substr, Label
<1>8. /\ t = mdns_get_next_substring(Query, QuerySize, rhs) /\ t.offset # -1
      /\ t.offset \in Nat /\ t.length \in Nat /\ t.offset + t.length <= QuerySize
      /\ B = <<Labelled(Query, t.offset, t.length)>>
  BY QuerySubstrFacts DEF Reading, TypeOK, MDNS_INVALID_POS, QuerySubstr, QueryLabel
<1>9. Label \in Seq(Byte) /\ QueryLabel \in Seq(Byte) /\ FoldedLabel(Label) # FoldedLabel(QueryLabel)
  BY Compared
<1>10. s.length = 0 => t.length # 0
  <2>1. Differ(s, t) <=> s.length # t.length \/ strncasecmp(s.offset, t.offset, t.length)
    BY DEF Differ
  <2>2. t.length = 0 => ~strncasecmp(s.offset, t.offset, t.length)
    BY DEF strncasecmp
  <2> QED
    BY <2>1, <2>2
<1> HIDE DEF s, t, A, B
<1>11. BeginsWith(A, s.length, r)
  BY <1>7, Begins DEF Reading
<1>12. BeginsWith(B, t.length, x)
  BY <1>8, Begins DEF Reading
<1>13. ASSUME Folded(x) = Folded(r) PROVE FALSE
  <2>1. Len(x) = Len(r) /\ \A h \in 1 .. Len(x) : FoldedLabel(x[h]) = FoldedLabel(r[h])
    BY <1>6, <1>13, FoldedSame
  <2>2. ASSUME NEW y \in Labels, NEW z \in Labels
        PROVE  /\ Len(A \o y) # 0 /\ (A \o y)[1] = Label /\ 1 \in 1 .. Len(A \o y)
               /\ Len(B \o z) # 0 /\ (B \o z)[1] = QueryLabel
    BY <1>9 DEF A, B, Labels
  <2>3. (s.length = 0 \/ s.length > 0) /\ (t.length = 0 \/ t.length > 0) /\ ~(0 > 0)
    BY <1>7, <1>8
  <2>4. CASE s.length = 0
    <3>1. r = <<>> /\ Len(r) = 0
      BY <1>11, <2>4 DEF BeginsWith
    <3>2. PICK z \in Labels : x = B \o z
      BY <1>10, <1>12, <2>3, <2>4, Zenon DEF BeginsWith
    <3> QED
      BY <2>1, <2>2, <3>1, <3>2
  <2>5. CASE s.length > 0
    <3>1. PICK y \in Labels : r = A \o y
      BY <1>11, <2>5, Zenon DEF BeginsWith
    <3>2. t.length # 0
      <4>1. CASE t.length = 0
        <5>1. Len(x) = 0
          BY <1>12, <4>1 DEF BeginsWith
        <5> QED
          BY <2>1, <2>2, <3>1, <5>1
      <4> QED
        BY <4>1
    <3>3. PICK z \in Labels : x = B \o z
      BY <1>12, <2>3, <3>2, Zenon DEF BeginsWith
    <3>4. FoldedLabel(x[1]) = FoldedLabel(r[1]) /\ x[1] = QueryLabel /\ r[1] = Label
      BY <2>1, <2>2, <3>1, <3>3
    <3> QED
      BY <1>9, <3>4, Zenon
  <2> QED
    BY <2>3, <2>4, <2>5
<1>14. Folded(q) = Folded(name) <=> Folded(x) = Folded(r)
  BY <1>1, <1>3, <1>5, <1>6, FoldedJoin
<1> QED
  BY <1>13, <1>14

LEMMA EqualStep ==
  ASSUME TypeOK, EndsInv, Plain(Query, QuerySize), EqualInv, EqualAgrees, [Next]_vars
  PROVE  EqualInv' /\ EqualAgrees'
<1>1. buffer' = buffer /\ start' = start /\ call' = call
  BY InputKept DEF input
<1>2. CASE call # "equal"
  BY <1>1, <1>2 DEF EqualInv, EqualAgrees
<1>3. CASE call = "equal" /\ pc = "done"
  <2>1. pc' = pc /\ ok' = ok
    BY <1>3, InputKept DEF vars
  <2> QED
    BY <1>1, <1>3, <2>1 DEF EqualInv, EqualAgrees, SameName
<1>4. CASE call = "equal" /\ pc # "done"
  <2>1. pc = "equal" /\ Reading /\ rhs \in 0 .. QuerySize
    BY <1>4, ReadingNow DEF EndsInv, EqualInv
  <2>2. PICK L, u, Q, v : Matched(L, u, Q, v)
    BY <1>4 DEF EqualInv
  <2>3. ReadSoFar(L, u) /\ ReadOfQuery(Q, v) /\ Folded(L) = Folded(Q) /\ L \in Labels /\ Q \in Labels
    BY <2>2 DEF Matched, ReadSoFar, ReadOfQuery
  <2>4. CASE EqualFails
    <3>1. ~SameLabel /\ pc' = "done" /\ ok' = FALSE
      BY <1>4, <2>4 DEF EqualFails, Return
    <3>2. ASSUME NEW n \in NamesAt(buffer, Size, start, Few), SameName(n) PROVE FALSE
      <4>1. PICK q \in AllNames(Query, QuerySize, 0) : Folded(q) = Folded(n)
        BY <3>2 DEF SameName
      <4>2. ~Unreadable(Substr)
        BY <2>1, <2>3, <3>2, ReadFails
      <4>3. QuerySubstr.offset # -1
        BY <2>1, <2>3, <4>1, QueryFacts
      <4>4. Differ(Substr, QuerySubstr)
        BY <3>1, <4>2, <4>3 DEF SameLabel, MDNS_INVALID_POS
      <4> QED
        BY <2>1, <2>2, <4>1, <4>2, <4>3, <4>4, OtherName, FewType
    <3> QED
      BY <1>1, <3>1, <3>2 DEF EqualInv, EqualAgrees, SameName
  <2>5. ASSUME SameLabel
        PROVE  /\ ~Unreadable(Substr) /\ QuerySubstr.offset # -1 /\ ~Differ(Substr, QuerySubstr)
               /\ Substr.length = QuerySubstr.length /\ Substr.length \in Nat
               /\ FoldedLabel(Label) = FoldedLabel(QueryLabel)
    <3>1. ~Unreadable(Substr) /\ QuerySubstr.offset # -1 /\ ~Differ(Substr, QuerySubstr)
      BY <2>5 DEF SameLabel, MDNS_INVALID_POS
    <3> QED
      BY <2>1, <3>1, SubstrFacts, Compared DEF Differ
  <2>6. CASE Equal /\ Substr.length > 0
    <3>1. /\ SameLabel /\ pc' = pc /\ counter' = counter + 1
          /\ cur' = After(Substr) /\ rhs' = After(QuerySubstr)
      BY <2>6 DEF Equal, GoOn, Counted
    <3> DEFINE M == L \o <<Label>>
               N == Q \o <<QueryLabel>>
    <3>2. PICK w \in Nat : counter + 1 <= w /\ Leads(buffer, Size, start, M, w, After(Substr))
      BY <2>1, <2>3, <2>5, <2>6, <3>1, ReadLabel
    <3>3. /\ After(QuerySubstr) \in 0 .. QuerySize
          /\ M \in Labels /\ N \in Labels /\ Label \in Seq(Byte) /\ QueryLabel \in Seq(Byte)
      BY <2>1, <2>3, <2>5, <2>6, <3>1, ReadLabel, QueryLabelOn
    <3>4. PICK x \in Nat : Leads(Query, QuerySize, 0, N, x, After(QuerySubstr))
      BY <2>1, <2>3, <2>5, <2>6, <3>1, QueryLabelOn
    <3>5. Folded(M) = Folded(N)
      <4>1. <<Label>> \in Labels /\ <<QueryLabel>> \in Labels
        BY <3>3 DEF Labels
      <4>2. Folded(<<Label>>) = Folded(<<QueryLabel>>)
        BY <2>5, <3>1, <4>1, FoldedSame
      <4> QED
        BY <2>3, <4>1, <4>2, FoldedJoin
    <3> HIDE DEF M, N
    <3>6. PICK K, P : K = M /\ P = N
      OBVIOUS
    <3>7. ReadSoFar(K, w)'
      BY <1>1, <3>1, <3>2, <3>3, <3>6 DEF ReadSoFar
    <3>8. ReadOfQuery(P, x)'
      BY <3>1, <3>3, <3>4, <3>6 DEF ReadOfQuery
    <3>9. Matched(K, w, P, x)'
      BY <3>5, <3>6, <3>7, <3>8 DEF Matched
    <3>10. EqualInv'
      BY <3>1, <3>3, <3>9 DEF EqualInv
    <3> QED
      BY <1>1, <1>4, <3>1, <3>10 DEF EqualAgrees
  <2>7. CASE Equal /\ ~(Substr.length > 0)
    <3>1. SameLabel /\ pc' = "done" /\ ok' = TRUE
      BY <1>4, <2>7 DEF Equal, Return
    <3>2. Substr.length = 0 /\ QuerySubstr.length = 0
      BY <2>5, <2>7, <3>1
    <3>3. L \in AllNames(buffer, Size, start)
      BY <2>1, <2>3, <2>5, <3>1, <3>2, ReadZero
    <3>4. Q \in AllNames(Query, QuerySize, 0)
      BY <2>1, <2>3, <2>5, <3>1, <3>2, QueryZero
    <3>5. SameName(L)
      BY <2>3, <3>4 DEF SameName
    <3>6. SameName(L)'
      BY <3>5 DEF SameName
    <3> QED
      BY <1>1, <3>1, <3>3, <3>6 DEF EqualInv, EqualAgrees
  <2>8. CASE UNCHANGED vars
    <3>1. pc' = pc /\ cur' = cur /\ rhs' = rhs /\ counter' = counter
      BY <2>8 DEF vars, walk
    <3>2. Matched(L, u, Q, v)'
      BY <1>1, <2>2, <3>1 DEF Matched, ReadSoFar, ReadOfQuery
    <3> QED
      BY <1>1, <1>4, <2>1, <3>1, <3>2 DEF EqualInv, EqualAgrees
  <2> QED
    BY <2>1, <2>4, <2>6, <2>7, <2>8
       DEF Next, Step, SkipFails, SkipEnd, SkipLabel, ExtractFails, Extract, ParseRecord, RecordsEnd, Over
<1> QED
  BY <1>2, <1>3, <1>4

\* mdns_string_extract gives the text of the name of RFC 1035 and fails on none
\* within the limits; mdns_string_equal recognises the query and nothing else,
\* if the query is written as that of mdns_services_query, without references.
THEOREM ReadsTheName ==
  ASSUME Plain(Query, QuerySize)
  PROVE  Spec => []NamesAgree
<1> DEFINE Inv == EndsInv /\ ExtractInv /\ ExtractAgrees /\ EqualInv /\ EqualAgrees
<1>1. Init => Inv
  <2> SUFFICES ASSUME Init PROVE Inv
    OBVIOUS
  <2>1. /\ pc # "done" \/ call = "records"
        /\ str = <<>> /\ rhs = 0
        /\ QuerySize \in Nat /\ Query \in Bytes(QuerySize)
    BY MdnsReadAssumption DEF Init
  <2>2. PICK none : none = <<>>
    OBVIOUS
  <2>3. ReadSoFar(none, 0) /\ Cut(Text(none)) = none /\ none \in Labels
    BY <2>2, ReadNothing DEF Labels
  <2>4. ReadOfQuery(none, 0) /\ rhs \in 0 .. QuerySize
    BY <2>1, <2>2, <2>3, LeadsSelf DEF ReadOfQuery
  <2>5. Matched(none, 0, none, 0)
    BY <2>3, <2>4 DEF Matched
  <2>6. ExtractInv /\ ExtractAgrees
    BY <2>1, <2>2, <2>3 DEF ExtractInv, ExtractAgrees
  <2>7. EqualInv /\ EqualAgrees
    BY <2>1, <2>4, <2>5 DEF EqualInv, EqualAgrees
  <2> QED
    BY <2>6, <2>7, EndsInit
<1>2. TypeOK /\ RecordsInv /\ Inv /\ [Next]_vars => Inv'
  BY EndsStep, ExtractStep, EqualStep
<1>3. Inv => NamesAgree
  BY DEF ExtractAgrees, EqualAgrees, NamesAgree
<1>4. Spec => []RecordsInv
  BY TypeCorrect, RecordsInit, RecordsStep, PTL DEF Spec
<1> QED
  BY <1>1, <1>2, <1>3, <1>4, TypeCorrect, PTL DEF Spec

=============================================================================
