-------------------------- MODULE ChatDeliveryProofs --------------------------
(***************************************************************************)
(* Proofs about ChatDelivery: what the user is shown once nothing is under   *)
(* way, for any messages, conversations and sizes of page and cache.         *)
(***************************************************************************)
EXTENDS ChatDelivery, FiniteSetTheorems, SequenceTheorems, TLAPS

(***************************************************************************)
(* Sequences: filter, slice, and what they keep.                            *)
(***************************************************************************)

(* The place an element of a set of numbers has among them is one of as many  *)
(* as there are, and a greater one has a greater place.                      *)
LEMMA Below ==
  ASSUME NEW n \in Nat, NEW S \in SUBSET (1 .. n), NEW i \in S
  PROVE  /\ IsFiniteSet(S) /\ Cardinality(S) \in Nat
         /\ Cardinality({j \in S : j < i}) \in 0 .. Cardinality(S) - 1
         /\ \A l \in S : i < l =>
              Cardinality({j \in S : j < i}) < Cardinality({j \in S : j < l})
<1>1. IsFiniteSet(S) /\ Cardinality(S) \in Nat
  <2>1. IsFiniteSet(1 .. n)
    <3>1. 1 \in Int /\ n \in Int
      OBVIOUS
    <3> QED BY <3>1, FS_Interval
  <2> QED BY <2>1, FS_Subset, FS_CardinalityType
<1>2. ASSUME NEW A \in SUBSET S, NEW B \in SUBSET A, NEW x \in A, x \notin B
      PROVE  Cardinality(B) \in Nat /\ Cardinality(A) \in Nat /\ Cardinality(B) < Cardinality(A)
  <2>1. IsFiniteSet(A) /\ Cardinality(A) \in Nat
    BY <1>1, FS_Subset, FS_CardinalityType
  <2>2. IsFiniteSet(B) /\ Cardinality(B) \in Nat /\ Cardinality(B) <= Cardinality(A)
        /\ (Cardinality(A) = Cardinality(B) => A = B)
    BY <2>1, FS_Subset, FS_CardinalityType
  <2> QED BY <1>2, <2>1, <2>2
<1>3. Cardinality({j \in S : j < i}) \in Nat /\ Cardinality({j \in S : j < i}) < Cardinality(S)
  <2>1. {j \in S : j < i} \in SUBSET S /\ S \in SUBSET S /\ i \notin {j \in S : j < i}
    OBVIOUS
  <2> QED BY <1>2, <2>1
<1>4. ASSUME NEW l \in S, i < l
      PROVE  Cardinality({j \in S : j < i}) < Cardinality({j \in S : j < l})
  <2>1. /\ {j \in S : j < l} \in SUBSET S
        /\ {j \in S : j < i} \in SUBSET {j \in S : j < l}
        /\ i \in {j \in S : j < l} /\ i \notin {j \in S : j < i}
    <3>1. \A j \in S : j \in Int
      OBVIOUS
    <3>2. \A j \in S : j < i => j < l
      BY <1>4, <3>1
    <3>3. {j \in S : j < l} \in SUBSET S
      OBVIOUS
    <3>4. {j \in S : j < i} \in SUBSET {j \in S : j < l}
      BY <3>2
    <3>5. i \in {j \in S : j < l} /\ i \notin {j \in S : j < i}
      BY <1>4, <3>1
    <3> QED BY <3>3, <3>4, <3>5
  <2> QED BY <1>2, <2>1
<1> QED BY <1>1, <1>3, <1>4

(* Nth counts the elements of a set of numbers in their order.               *)
LEMMA NthCounts ==
  ASSUME NEW n \in Nat, NEW S \in SUBSET (1 .. n)
  PROVE  /\ Cardinality(S) \in Nat
         /\ \A k \in 1 .. Cardinality(S) : Nth(S, k) \in S
         /\ \A k, l \in 1 .. Cardinality(S) : k < l => Nth(S, k) < Nth(S, l)
         /\ \A i \in S : \E k \in 1 .. Cardinality(S) : Nth(S, k) = i
<1> DEFINE place == [i \in S |-> Cardinality({j \in S : j < i}) + 1]
<1>1. IsFiniteSet(S) /\ Cardinality(S) \in Nat
  <2>1. IsFiniteSet(1 .. n)
    <3>1. 1 \in Int /\ n \in Int
      OBVIOUS
    <3> QED BY <3>1, FS_Interval
  <2> QED BY <2>1, FS_Subset, FS_CardinalityType
<1>2. \A i \in S : place[i] \in 1 .. Cardinality(S)
  <2>1. ASSUME NEW i \in S
        PROVE  Cardinality({j \in S : j < i}) \in 0 .. Cardinality(S) - 1
    BY Below
  <2> QED BY <2>1, <1>1
<1>3. \A i, l \in S : i < l => place[i] < place[l]
  <2>1. ASSUME NEW i \in S, NEW l \in S, i < l
        PROVE  place[i] < place[l]
    <3>1. Cardinality({j \in S : j < i}) < Cardinality({j \in S : j < l})
      <4> HIDE DEF place
      <4> QED BY Below, <2>1
    <3>2. /\ Cardinality({j \in S : j < i}) \in 0 .. Cardinality(S) - 1
          /\ Cardinality({j \in S : j < l}) \in 0 .. Cardinality(S) - 1
      BY Below
    <3> QED BY <3>1, <3>2, <1>1
  <2> QED BY <2>1
<1>4. \A i, l \in S : place[i] = place[l] => i = l
  <2>1. \A i \in S : i \in Int /\ place[i] \in Int
    BY <1>1, <1>2
  <2> HIDE DEF place
  <2> QED BY <1>3, <2>1
<1>5. place \in Surjection(S, 1 .. Cardinality(S))
  <2>1. place \in Injection(S, 1 .. Cardinality(S))
    BY <1>2, <1>4 DEF Injection, IsInjective
  <2>2. IsFiniteSet(1 .. Cardinality(S)) /\ Cardinality(1 .. Cardinality(S)) = Cardinality(S)
    BY <1>1, FS_Interval
  <2> QED BY <2>1, <2>2, FS_Injection
<1>6. ASSUME NEW k \in 1 .. Cardinality(S)
      PROVE  Nth(S, k) \in S /\ place[Nth(S, k)] = k
  <2>1. PICK i \in S : place[i] = k
    BY <1>5 DEF Surjection
  <2>2. Cardinality({j \in S : j < i}) = k - 1
    <3>1. Cardinality({j \in S : j < i}) \in 0 .. Cardinality(S) - 1
      BY Below
    <3> QED BY <2>1, <3>1, <1>1
  <2>3. Nth(S, k) \in S /\ Cardinality({j \in S : j < Nth(S, k)}) = k - 1
    BY <2>2 DEF Nth
  <2> QED BY <2>3, <1>1
<1>7. \A k, l \in 1 .. Cardinality(S) : k < l => Nth(S, k) < Nth(S, l)
  <2>1. \A i \in S : i \in Int
    OBVIOUS
  <2>2. \A k \in 1 .. Cardinality(S) : k \in Int
    OBVIOUS
  <2>3. ASSUME NEW k \in 1 .. Cardinality(S), NEW l \in 1 .. Cardinality(S), k < l,
               ~(Nth(S, k) < Nth(S, l))
        PROVE  FALSE
    <3>1. /\ Nth(S, k) \in S /\ place[Nth(S, k)] = k
          /\ Nth(S, l) \in S /\ place[Nth(S, l)] = l
      BY <1>6
    <3>2. Nth(S, l) < Nth(S, k) \/ Nth(S, l) = Nth(S, k)
      <4>1. Nth(S, k) \in Int /\ Nth(S, l) \in Int
        BY <3>1, <2>1
      <4> QED BY <4>1, <2>3
    <3> HIDE DEF place
    <3>3. l < k \/ l = k
      BY <3>1, <3>2, <1>3
    <3> QED BY <3>3, <2>3, <2>2
  <2> QED BY <2>3
<1>8. \A i \in S : \E k \in 1 .. Cardinality(S) : Nth(S, k) = i
  BY <1>2, <1>4, <1>6
<1> QED BY <1>1, <1>6, <1>7, <1>8
(* t has some of the elements of s, in their order.                          *)
Selects(t, s, h, S) ==
  /\ h \in [DOMAIN t -> S]
  /\ \A k, l \in DOMAIN t : k < l => h[k] < h[l]
  /\ \A i \in S : \E k \in DOMAIN t : h[k] = i
  /\ \A k \in DOMAIN t : t[k] = s[h[k]]

LEMMA ThoseSelects ==
  ASSUME NEW T, NEW s \in Seq(T), NEW S \in SUBSET DOMAIN s
  PROVE  /\ Those(s, S) \in Seq(T)
         /\ \E h : Selects(Those(s, S), s, h, S)
<1> DEFINE t == Those(s, S)
<1> DEFINE h == [k \in 1 .. Cardinality(S) |-> Nth(S, k)]
<1>1. DOMAIN s = 1 .. Len(s) /\ Len(s) \in Nat /\ \A k \in DOMAIN s : s[k] \in T
  BY LenProperties, ElementOfSeq
<1>2. /\ Cardinality(S) \in Nat
      /\ \A k \in 1 .. Cardinality(S) : Nth(S, k) \in S
      /\ \A k, l \in 1 .. Cardinality(S) : k < l => Nth(S, k) < Nth(S, l)
      /\ \A i \in S : \E k \in 1 .. Cardinality(S) : Nth(S, k) = i
  BY <1>1, NthCounts
<1>3. DOMAIN t = 1 .. Cardinality(S) /\ \A k \in DOMAIN t : t[k] = s[Nth(S, k)]
  BY DEF Those
<1>4. t \in Seq(T)
  <2>1. \A k \in 1 .. Cardinality(S) : s[Nth(S, k)] \in T
    BY <1>1, <1>2
  <2> QED BY <2>1, <1>2, IsASeq DEF Those
<1>5. Selects(t, s, h, S)
  <2> HIDE DEF t
  <2> QED BY <1>2, <1>3 DEF Selects
<1> QED BY <1>4, <1>5

(* slice: the last CacheSize elements, which are all but the first few.       *)
LEMMA LastOfKeeps ==
  ASSUME NEW T, NEW s \in Seq(T)
  PROVE  /\ LastOf(s) \in Seq(T)
         /\ \E d \in Nat :
              /\ d <= Len(s) /\ Len(LastOf(s)) = Len(s) - d
              /\ (Len(s) > 0 => d < Len(s))
              /\ \A k \in DOMAIN LastOf(s) : k + d \in DOMAIN s /\ LastOf(s)[k] = s[k + d]
<1> DEFINE d == IF Len(s) > CacheSize THEN Len(s) - CacheSize ELSE 0
<1> DEFINE t == SubSeq(s, d + 1, Len(s))
<1>1. CacheSize \in Nat /\ CacheSize > 0 /\ Len(s) \in Nat /\ DOMAIN s = 1 .. Len(s)
  BY SizesArePositive, LenProperties
<1>2. d \in Nat /\ d <= Len(s) /\ (Len(s) > 0 => d < Len(s))
  BY <1>1
<1>3. LastOf(s) = t
  <2>1. (IF Len(s) > CacheSize THEN Len(s) - CacheSize + 1 ELSE 1) = d + 1
    BY <1>1
  <2> QED BY <2>1 DEF LastOf
<1> HIDE DEF d
<1>4. /\ t \in Seq(T) /\ Len(t) = Len(s) - d
      /\ \A k \in 1 .. Len(s) - d : t[k] = s[k + d]
  <2>1. d + 1 \in Int /\ Len(s) \in Int
    BY <1>1, <1>2
  <2>2. \A i \in d + 1 .. Len(s) : s[i] \in T
    <3>1. \A i \in d + 1 .. Len(s) : i \in 1 .. Len(s)
      <4>1. d \in Nat /\ Len(s) \in Nat
        BY <1>1, <1>2
      <4> QED BY <4>1
    <3> QED BY <3>1, ElementOfSeq
  <2>3. /\ t \in Seq(T)
        /\ Len(t) = IF d + 1 <= Len(s) THEN Len(s) - (d + 1) + 1 ELSE 0
        /\ \A k \in 1 .. Len(s) - (d + 1) + 1 : t[k] = s[(d + 1) + k - 1]
    BY <2>1, <2>2, SubSeqProperties
  <2>4. /\ (IF d + 1 <= Len(s) THEN Len(s) - (d + 1) + 1 ELSE 0) = Len(s) - d
        /\ Len(s) - (d + 1) + 1 = Len(s) - d
        /\ \A k \in 1 .. Len(s) - d : (d + 1) + k - 1 = k + d
    <3>1. d \in Nat /\ Len(s) \in Nat /\ d <= Len(s)
      BY <1>1, <1>2
    <3> QED BY <3>1
  <2> HIDE DEF t
  <2> QED BY <2>3, <2>4
<1>5. DOMAIN t = 1 .. Len(s) - d
  <2>1. DOMAIN t = 1 .. Len(t)
    BY <1>4, LenProperties
  <2> QED BY <2>1, <1>4
<1>6. \A k \in 1 .. Len(s) - d : k + d \in DOMAIN s
  BY <1>1, <1>2
<1> HIDE DEF t
<1> QED BY <1>2, <1>3, <1>4, <1>5, <1>6
-----------------------------------------------------------------------------
(***************************************************************************)
(* The invariant.  First what any messages shown, cached, or on a page, are. *)
(***************************************************************************)
EntryType == [m : Messages, id : Nat, ver : Nat, gone : BOOLEAN, edited : BOOLEAN,
              state : {"sending", "failed", "sent"}]

IsRow(table, i, m) == i \in DOMAIN table /\ table[i].m = m

(* A confirmed entry is of the row it names, and deleted only if that is.     *)
Known(x, table) ==
  IF x.id = 0 THEN x.m \in Mine /\ x.state # "sent" /\ ~x.gone
  ELSE IsRow(table, x.id, x.m) /\ (x.gone => table[x.id].gone)

Sane(s, table, sent) ==
  /\ s \in Seq(EntryType)
  /\ \A k \in DOMAIN s : /\ Known(s[k], table)
                         /\ s[k].state = "failed" => s[k].m \in Mine \cap sent

Ascending(s) == \A k, l \in Confirmed(s) : k < l => s[k].id < s[l].id
Within(s, c, to) == \A k \in DOMAIN s : to[s[k].m] = c
AllSent(s) == \A k \in DOMAIN s : s[k].id > 0 /\ s[k].state = "sent"

(* The entry looks as the row does. *)
Agrees(x, table) ==
  LET row == table[x.id]
  IN /\ x.gone = row.gone
     /\ row.gone \/ (x.ver = row.ver /\ x.edited = (row.ver > 0))

(* The confirmed entries look right, but for those an event will correct.     *)
Right(s, table, pending) == \A k \in Confirmed(s) : s[k].id \in pending \/ Agrees(s[k], table)

(* From the oldest confirmed entry on, all that is due is there. *)
Whole(s, due) ==
  \A i \in due : (Ids(s) = {} \/ \E j \in Ids(s) : j < i) => i \in Ids(s)

(* t is some of s, in the same order: h says where each was. *)
Part(t, s, h) ==
  /\ h \in [DOMAIN t -> DOMAIN s]
  /\ \A k, l \in DOMAIN t : k < l => h[k] < h[l]
  /\ \A k \in DOMAIN t : t[k] = s[h[k]]

Grows(table, next) ==
  /\ DOMAIN table \subseteq DOMAIN next
  /\ \A i \in DOMAIN table : next[i].m = table[i].m /\ (table[i].gone => next[i].gone)

(* A message, or an event, looks as its row does when it agrees with it.      *)
LEMMA LookAgrees ==
  ASSUME NEW x, NEW y, x.gone \in BOOLEAN, x.edited \in BOOLEAN, y.gone \in BOOLEAN,
         y.edited \in BOOLEAN
  PROVE  Look(x) = Look(y)
         <=> /\ x.gone = y.gone
             /\ y.gone \/ (x.ver = y.ver /\ x.edited = y.edited)
<1>1. \A a, b, c, d : <<a, b>> = <<c, d>> <=> a = c /\ b = d
  OBVIOUS
<1>2. \A a, b : <<a, b>> # <<>>
  OBVIOUS
<1>4. CASE x.gone /\ y.gone
  BY <1>4 DEF Look
<1>5. CASE x.gone /\ ~y.gone
  BY <1>5, <1>2 DEF Look
<1>6. CASE ~x.gone /\ y.gone
  BY <1>6, <1>2 DEF Look
<1>7. CASE ~x.gone /\ ~y.gone
  BY <1>7, <1>1 DEF Look
<1> QED BY <1>4, <1>5, <1>6, <1>7

LEMMA Entries ==
  ASSUME NEW s \in Seq(EntryType)
  PROVE  /\ Len(s) \in Nat /\ DOMAIN s = 1 .. Len(s) /\ DOMAIN s \subseteq Nat
         /\ \A k \in DOMAIN s : /\ s[k] \in EntryType
                                /\ s[k].m \in Messages /\ s[k].id \in Nat
                                /\ s[k].gone \in BOOLEAN
<1>1. Len(s) \in Nat /\ DOMAIN s = 1 .. Len(s)
  BY LenProperties
<1>2. \A k \in DOMAIN s : s[k] \in EntryType
  BY <1>1, ElementOfSeq
<1>3. \A x \in EntryType : x.m \in Messages /\ x.id \in Nat /\ x.gone \in BOOLEAN
  BY DEF EntryType
<1>4. DOMAIN s \subseteq Nat
  BY <1>1
<1> QED BY <1>1, <1>2, <1>3, <1>4

LEMMA GrowingKeepsSane ==
  ASSUME NEW s, NEW table, NEW next, NEW sent, NEW more,
         Sane(s, table, sent), Grows(table, next), sent \subseteq more
  PROVE  Sane(s, next, more)
BY DEF Sane, Known, IsRow, Grows

LEMMA PartKeeps ==
  ASSUME NEW s, NEW t \in Seq(EntryType), NEW h, Part(t, s, h)
  PROVE  /\ \A table, sent : Sane(s, table, sent) => Sane(t, table, sent)
         /\ Ascending(s) => Ascending(t)
         /\ \A c, to : Within(s, c, to) => Within(t, c, to)
         /\ \A table, pending : Right(s, table, pending) => Right(t, table, pending)
         /\ Ids(t) \subseteq Ids(s)
         /\ Unconfirmed(t) \subseteq Unconfirmed(s)
<1>1. \A k \in DOMAIN t : h[k] \in DOMAIN s /\ t[k] = s[h[k]]
  BY DEF Part
<1>2. \A k \in Confirmed(t) : h[k] \in Confirmed(s)
  BY <1>1 DEF Confirmed
<1>3. \A k \in Confirmed(t) : k \in DOMAIN t
  BY DEF Confirmed
<1>4. \A table, sent : Sane(s, table, sent) => Sane(t, table, sent)
  BY <1>1 DEF Sane
<1>5. Ascending(s) => Ascending(t)
  BY <1>1, <1>2, <1>3 DEF Ascending, Part
<1>6. \A c, to : Within(s, c, to) => Within(t, c, to)
  BY <1>1 DEF Within
<1>7. \A table, pending : Right(s, table, pending) => Right(t, table, pending)
  BY <1>1, <1>2, <1>3 DEF Right
<1>8. Ids(t) \subseteq Ids(s)
  BY <1>1, <1>2, <1>3 DEF Ids
<1>9. Unconfirmed(t) \subseteq Unconfirmed(s)
  BY <1>1 DEF Unconfirmed
<1> QED BY <1>4, <1>5, <1>6, <1>7, <1>8, <1>9
(* slice keeps the end of the messages. *)
LEMMA LastOfPart ==
  ASSUME NEW s \in Seq(EntryType)
  PROVE  /\ LastOf(s) \in Seq(EntryType)
         /\ Len(s) > 0 => /\ Len(LastOf(s)) \in DOMAIN LastOf(s)
                          /\ LastOf(s)[Len(LastOf(s))] = s[Len(s)]
         /\ \E h : /\ Part(LastOf(s), s, h)
                   /\ \A i \in DOMAIN s : \/ \E k \in DOMAIN LastOf(s) : h[k] = i
                                          \/ \A k \in DOMAIN LastOf(s) : i < h[k]
<1> DEFINE t == LastOf(s)
<1>1. PICK d \in Nat :
        /\ d <= Len(s) /\ Len(t) = Len(s) - d
        /\ (Len(s) > 0 => d < Len(s))
        /\ \A k \in DOMAIN t : k + d \in DOMAIN s /\ t[k] = s[k + d]
  BY LastOfKeeps
<1>2. t \in Seq(EntryType)
  BY LastOfKeeps
<1> HIDE DEF t
<1>3. /\ DOMAIN t = 1 .. Len(t) /\ Len(t) \in Nat
      /\ DOMAIN s = 1 .. Len(s) /\ Len(s) \in Nat
  BY <1>2, LenProperties
<1> DEFINE h == [k \in DOMAIN t |-> k + d]
<1>4. Part(t, s, h)
  BY <1>1, <1>3 DEF Part
<1>5. ASSUME NEW i \in DOMAIN s
      PROVE  (\E k \in DOMAIN t : h[k] = i) \/ (\A k \in DOMAIN t : i < h[k])
  <2>1. CASE i <= d
    BY <2>1, <1>1, <1>3
  <2>2. CASE i > d
    <3>1. i - d \in DOMAIN t /\ h[i - d] = i
      BY <2>2, <1>1, <1>3
    <3> QED BY <3>1
  <2> QED BY <2>1, <2>2, <1>1, <1>3
<1>6. Len(s) > 0 => Len(t) \in DOMAIN t /\ t[Len(t)] = s[Len(s)]
  BY <1>1, <1>3
<1> QED BY <1>2, <1>4, <1>5, <1>6 DEF t

(* What it leaves out is before everything it keeps, so a conversation that is *)
(* whole and in order stays so, as long as something confirmed is left.        *)
LEMMA LastOfWhole ==
  ASSUME NEW s \in Seq(EntryType), NEW due \in SUBSET Nat,
         Whole(s, due), Ascending(s), Ids(s) = {} \/ Ids(LastOf(s)) # {}
  PROVE  Whole(LastOf(s), due)
<1> DEFINE t == LastOf(s)
<1>1. PICK h : /\ Part(t, s, h)
               /\ \A i \in DOMAIN s : \/ \E k \in DOMAIN t : h[k] = i
                                      \/ \A k \in DOMAIN t : i < h[k]
  BY LastOfPart
<1>2. t \in Seq(EntryType)
  BY LastOfPart
<1> HIDE DEF t
<1>3. /\ DOMAIN t \subseteq Nat /\ DOMAIN s \subseteq Nat
      /\ \A k \in DOMAIN s : s[k].id \in Nat
      /\ \A k \in DOMAIN t : h[k] \in DOMAIN s /\ t[k] = s[h[k]] /\ t[k].id \in Nat
  <2>1. \A k \in DOMAIN t : h[k] \in DOMAIN s /\ t[k] = s[h[k]]
    BY <1>1 DEF Part
  <2> QED BY <2>1, <1>2, Entries
<1>4. ASSUME NEW i \in due, Ids(t) = {} \/ \E j \in Ids(t) : j < i
      PROVE  i \in Ids(t)
  <2>1. Ids(t) \subseteq Ids(s)
    BY <1>1, <1>2, PartKeeps
  <2>2. i \in Ids(s)
    BY <1>4, <2>1 DEF t, Whole
  <2>3. PICK j \in Ids(t) : j < i
    BY <1>4, <2>2 DEF t
  <2>4. PICK k \in Confirmed(s) : s[k].id = i
    BY <2>2 DEF Ids
  <2>5. PICK l \in Confirmed(t) : t[l].id = j
    BY <2>3 DEF Ids
  <2>6. k \in DOMAIN s /\ l \in DOMAIN t /\ h[l] \in Confirmed(s) /\ s[h[l]].id = j
    BY <2>4, <2>5, <1>3 DEF Confirmed
  <2>7. CASE \E n \in DOMAIN t : h[n] = k
    <3>1. PICK n \in DOMAIN t : h[n] = k
      BY <2>7
    <3>2. n \in Confirmed(t) /\ t[n].id = i
      BY <3>1, <2>4, <1>3 DEF Confirmed
    <3> QED BY <3>2 DEF Ids
  <2>8. CASE \A n \in DOMAIN t : k < h[n]
    <3>1. k < h[l]
      BY <2>8, <2>6
    <3>2. i < j
      BY <3>1, <2>4, <2>6 DEF Ascending
    <3>3. i \in Nat /\ j \in Nat
      BY <2>5, <2>6, <1>3
    <3> QED BY <3>2, <3>3, <2>3
  <2> QED BY <2>6, <2>7, <2>8, <1>1
<1> QED BY <1>4 DEF t, Whole

(* filter takes away what is of the message, or has the id.                   *)
Spares(t, s, m, id) ==
  \A i \in DOMAIN s : s[i].m # m /\ (s[i].id # id \/ id = 0) => \E k \in DOMAIN t : t[k] = s[i]

LEMMA WithoutPart ==
  ASSUME NEW s \in Seq(EntryType), NEW m, NEW id
  PROVE  LET t == Without(s, m, id)
         IN  /\ t \in Seq(EntryType)
             /\ \E h : Part(t, s, h)
             /\ \A k \in DOMAIN t : t[k].m # m /\ (t[k].id # id \/ id = 0)
             /\ Spares(t, s, m, id)
<1> DEFINE S == {k \in DOMAIN s : s[k].m # m /\ (s[k].id # id \/ id = 0)}
<1> DEFINE t == Those(s, S)
<1>1. t \in Seq(EntryType) /\ \E h : Selects(t, s, h, S)
  BY ThoseSelects
<1>2. PICK h : Selects(t, s, h, S)
  BY <1>1
<1>3. Without(s, m, id) = t
  BY DEF Without
<1> HIDE DEF t
<1>4. Part(t, s, h)
  BY <1>2 DEF Selects, Part
<1>5. \A k \in DOMAIN t : t[k].m # m /\ (t[k].id # id \/ id = 0)
  BY <1>2 DEF Selects
<1>6. Spares(t, s, m, id)
  BY <1>2 DEF Selects, Spares
<1> QED BY <1>1, <1>3, <1>4, <1>5, <1>6
(* A message joins the end of the list. *)
LEMMA AppendKeeps ==
  ASSUME NEW s \in Seq(EntryType), NEW x \in EntryType
  PROVE  LET t == Append(s, x)
         IN  /\ t \in Seq(EntryType)
             /\ Len(t) = Len(s) + 1 /\ DOMAIN t = 1 .. Len(s) + 1
             /\ \A k \in DOMAIN s : k \in DOMAIN t /\ t[k] = s[k]
             /\ t[Len(s) + 1] = x
             /\ \A k \in DOMAIN t : k \in DOMAIN s \/ k = Len(s) + 1
             /\ Ids(t) = Ids(s) \cup (IF x.id > 0 THEN {x.id} ELSE {})
             /\ (x.id = 0 \/ \A k \in Confirmed(s) : s[k].id < x.id) /\ Ascending(s)
                  => Ascending(t)
             /\ \A table, sent : Sane(s, table, sent) /\ Known(x, table) /\ x.state # "failed"
                                   => Sane(t, table, sent)
             /\ \A c, to : Within(s, c, to) /\ to[x.m] = c => Within(t, c, to)
             /\ \A table, pending :
                  Right(s, table, pending) /\ (x.id = 0 \/ x.id \in pending \/ Agrees(x, table))
                    => Right(t, table, pending)
<1> DEFINE t == Append(s, x)
<1>1. Len(s) \in Nat /\ DOMAIN s = 1 .. Len(s) /\ \A k \in DOMAIN s : s[k].id \in Nat
  BY Entries
<1>2. /\ t \in Seq(EntryType) /\ Len(t) = Len(s) + 1 /\ t[Len(s) + 1] = x
      /\ \A k \in 1 .. Len(s) : t[k] = s[k]
  BY AppendProperties
<1>3. DOMAIN t = 1 .. Len(s) + 1
  BY <1>2, LenProperties
<1> HIDE DEF t
<1>4. /\ \A k \in DOMAIN s : k \in DOMAIN t /\ t[k] = s[k]
      /\ \A k \in DOMAIN t : k \in DOMAIN s \/ k = Len(s) + 1
      /\ Len(s) + 1 \in DOMAIN t /\ Len(s) + 1 \notin DOMAIN s
      /\ \A k \in DOMAIN s : k < Len(s) + 1
  BY <1>1, <1>2, <1>3
<1>5. x.id \in Nat
  BY DEF EntryType
<1>6. Confirmed(t) = Confirmed(s) \cup (IF x.id > 0 THEN {Len(s) + 1} ELSE {})
  BY <1>2, <1>4 DEF Confirmed
<1>7. \A k \in Confirmed(s) : k \in DOMAIN s
  BY DEF Confirmed
<1>8. Ids(t) = Ids(s) \cup (IF x.id > 0 THEN {x.id} ELSE {})
  <2>1. \A i : i \in Ids(t) <=> i \in Ids(s) \/ (x.id > 0 /\ i = x.id)
    <3>1. \A i \in Ids(s) : i \in Ids(t)
      BY <1>4, <1>6, <1>7 DEF Ids
    <3>2. x.id > 0 => x.id \in Ids(t)
      BY <1>2, <1>6 DEF Ids
    <3>3. \A i \in Ids(t) : i \in Ids(s) \/ (x.id > 0 /\ i = x.id)
      BY <1>2, <1>4, <1>6, <1>7 DEF Ids
    <3> QED BY <3>1, <3>2, <3>3
  <2> QED BY <2>1
<1>9. ASSUME x.id = 0 \/ \A k \in Confirmed(s) : s[k].id < x.id, Ascending(s)
      PROVE  Ascending(t)
  <2> SUFFICES ASSUME NEW k \in Confirmed(t), NEW l \in Confirmed(t), k < l
               PROVE  t[k].id < t[l].id
    BY DEF Ascending
  <2>1. k \in DOMAIN t /\ l \in DOMAIN t
    BY DEF Confirmed
  <2>2. k \in DOMAIN s
    BY <2>1, <1>3, <1>1
  <2>3. k \in Confirmed(s) /\ t[k] = s[k]
    BY <2>2, <1>4 DEF Confirmed
  <2>4. CASE l \in DOMAIN s
    BY <2>3, <2>4, <1>4, <1>9 DEF Ascending, Confirmed
  <2>5. CASE l = Len(s) + 1
    BY <2>3, <2>5, <1>2, <1>9, <1>5 DEF Confirmed
  <2> QED BY <2>1, <2>4, <2>5, <1>4
<1>10. \A table, sent : Sane(s, table, sent) /\ Known(x, table) /\ x.state # "failed"
                          => Sane(t, table, sent)
  BY <1>2, <1>4 DEF Sane
<1>11. \A c, to : Within(s, c, to) /\ to[x.m] = c => Within(t, c, to)
  BY <1>2, <1>4 DEF Within
<1>12. \A table, pending :
         Right(s, table, pending) /\ (x.id = 0 \/ x.id \in pending \/ Agrees(x, table))
           => Right(t, table, pending)
  BY <1>2, <1>4, <1>6, <1>7 DEF Right
<1> QED BY <1>2, <1>3, <1>4, <1>8, <1>9, <1>10, <1>11, <1>12 DEF t

(* A page joins the front of the list. *)
LEMMA JoinKeeps ==
  ASSUME NEW p \in Seq(EntryType), NEW s \in Seq(EntryType)
  PROVE  LET t == p \o s
         IN  /\ t \in Seq(EntryType) /\ Len(t) = Len(p) + Len(s)
             /\ \A k \in DOMAIN t : \/ k \in DOMAIN p /\ t[k] = p[k]
                                    \/ /\ k \notin DOMAIN p /\ k - Len(p) \in DOMAIN s
                                       /\ t[k] = s[k - Len(p)]
             /\ \A k \in DOMAIN p : k \in DOMAIN t /\ t[k] = p[k]
             /\ \A k \in DOMAIN s : k + Len(p) \in DOMAIN t /\ t[k + Len(p)] = s[k]
             /\ \A table, sent : Sane(p, table, sent) /\ Sane(s, table, sent)
                                   => Sane(t, table, sent)
             /\ \A c, to : Within(p, c, to) /\ Within(s, c, to) => Within(t, c, to)
             /\ \A table, pending : Right(p, table, pending) /\ Right(s, table, pending)
                                      => Right(t, table, pending)
             /\ Ids(t) = Ids(p) \cup Ids(s)
             /\ Ascending(p) /\ Ascending(s) /\ (\A i \in Ids(p), j \in Ids(s) : i < j)
                  => Ascending(t)
<1> DEFINE t == p \o s
<1>1. /\ Len(s) \in Nat /\ DOMAIN s = 1 .. Len(s)
      /\ Len(p) \in Nat /\ DOMAIN p = 1 .. Len(p)
  BY Entries
<1>2. /\ t \in Seq(EntryType) /\ Len(t) = Len(p) + Len(s)
      /\ \A k \in 1 .. Len(p) + Len(s) :
           t[k] = IF k <= Len(p) THEN p[k] ELSE s[k - Len(p)]
  BY ConcatProperties
<1>3. DOMAIN t = 1 .. Len(p) + Len(s)
  BY <1>2, LenProperties
<1> HIDE DEF t
<1>4. \A k \in DOMAIN t : \/ k \in DOMAIN p /\ t[k] = p[k]
                          \/ k \notin DOMAIN p /\ k - Len(p) \in DOMAIN s /\ t[k] = s[k - Len(p)]
  BY <1>1, <1>2, <1>3
<1>5. \A k \in DOMAIN p : k \in DOMAIN t /\ t[k] = p[k]
  BY <1>1, <1>2, <1>3
<1>6. \A k \in DOMAIN s : k + Len(p) \in DOMAIN t /\ t[k + Len(p)] = s[k]
  BY <1>1, <1>2, <1>3
<1>7. \A k \in Confirmed(t) :
        \/ k \in Confirmed(p) /\ t[k] = p[k]
        \/ k \notin DOMAIN p /\ k - Len(p) \in Confirmed(s) /\ t[k] = s[k - Len(p)]
  BY <1>4 DEF Confirmed
<1>8. \A table, sent : Sane(p, table, sent) /\ Sane(s, table, sent) => Sane(t, table, sent)
  BY <1>2, <1>4 DEF Sane
<1>9. \A c, to : Within(p, c, to) /\ Within(s, c, to) => Within(t, c, to)
  BY <1>4 DEF Within
<1>10. \A table, pending : Right(p, table, pending) /\ Right(s, table, pending)
                             => Right(t, table, pending)
  BY <1>7 DEF Right
<1>11. Ids(t) = Ids(p) \cup Ids(s)
  <2>1. \A i \in Ids(t) : i \in Ids(p) \/ i \in Ids(s)
    BY <1>7 DEF Ids
  <2>2. \A k \in Confirmed(p) : k \in Confirmed(t) /\ t[k] = p[k]
    BY <1>5 DEF Confirmed
  <2>3. \A k \in Confirmed(s) : k + Len(p) \in Confirmed(t) /\ t[k + Len(p)] = s[k]
    BY <1>6 DEF Confirmed
  <2>4. \A i \in Ids(p) : i \in Ids(t)
    BY <2>2 DEF Ids
  <2>5. \A i \in Ids(s) : i \in Ids(t)
    BY <2>3 DEF Ids
  <2> QED BY <2>1, <2>4, <2>5
<1>12. ASSUME Ascending(p), Ascending(s), \A i \in Ids(p), j \in Ids(s) : i < j
       PROVE  Ascending(t)
  <2> SUFFICES ASSUME NEW k \in Confirmed(t), NEW l \in Confirmed(t), k < l
               PROVE  t[k].id < t[l].id
    BY DEF Ascending
  <2>0. k \in Int /\ l \in Int
    BY <1>3 DEF Confirmed
  <2>1. CASE k \in Confirmed(p) /\ l \in Confirmed(p) /\ t[k] = p[k] /\ t[l] = p[l]
    BY <2>1, <1>12 DEF Ascending
  <2>2. CASE /\ k \in Confirmed(p) /\ t[k] = p[k]
             /\ l - Len(p) \in Confirmed(s) /\ t[l] = s[l - Len(p)]
    BY <2>2, <1>12 DEF Ids
  <2>3. CASE /\ k - Len(p) \in Confirmed(s) /\ t[k] = s[k - Len(p)]
             /\ l - Len(p) \in Confirmed(s) /\ t[l] = s[l - Len(p)]
    <3>1. k - Len(p) < l - Len(p)
      BY <2>0, <1>1
    <3> QED BY <2>3, <3>1, <1>12 DEF Ascending
  <2>4. ~(k \notin DOMAIN p /\ l \in Confirmed(p))
    BY <2>0, <1>1, <1>3 DEF Confirmed
  <2> QED BY <2>1, <2>2, <2>3, <2>4, <1>7
<1> QED BY <1>2, <1>4, <1>5, <1>6, <1>8, <1>9, <1>10, <1>11, <1>12 DEF t
RowType == [m : Messages, ver : Nat, gone : BOOLEAN]

RowsOK ==
  /\ of \in [Messages -> Conversations]
  /\ rows \in Seq(RowType)
  /\ \A i, j \in DOMAIN rows : rows[i].m = rows[j].m => i = j

LEMMA RowsAre ==
  ASSUME RowsOK
  PROVE  /\ Len(rows) \in Nat /\ DOMAIN rows = 1 .. Len(rows)
         /\ \A i \in DOMAIN rows : /\ i \in Nat /\ i > 0 /\ rows[i] \in RowType
                                   /\ rows[i].m \in Messages /\ rows[i].ver \in Nat
                                   /\ rows[i].gone \in BOOLEAN
<1>1. Len(rows) \in Nat /\ DOMAIN rows = 1 .. Len(rows)
  BY LenProperties DEF RowsOK
<1>2. \A i \in DOMAIN rows : rows[i] \in RowType
  BY <1>1, ElementOfSeq DEF RowsOK
<1>3. \A x \in RowType : x.m \in Messages /\ x.ver \in Nat /\ x.gone \in BOOLEAN
  BY DEF RowType
<1> QED BY <1>1, <1>2, <1>3

(* A page of history: in order, as D1 has it, and with nothing left out from   *)
(* its oldest message to its end.                                            *)
LEMMA PageIs ==
  ASSUME RowsOK, NEW c, NEW before \in Nat
  PROVE  LET p == Page(c, before)
         IN  /\ p \in Seq(EntryType)
             /\ \A sent : Sane(p, rows, sent)
             /\ Ascending(p) /\ Within(p, c, of) /\ AllSent(p)
             /\ \A k \in DOMAIN p : Agrees(p[k], rows)
             /\ \A i \in Ids(p) : i \in DOMAIN rows /\ i < before
             /\ Whole(p, {i \in DOMAIN rows : of[rows[i].m] = c /\ i < before})
<1> DEFINE ids == {i \in DOMAIN rows : of[rows[i].m] = c /\ i < before}
<1> DEFINE last == {i \in ids : Cardinality({j \in ids : j > i}) < PageSize}
<1> DEFINE p == Page(c, before)
<1>1. /\ Len(rows) \in Nat /\ DOMAIN rows = 1 .. Len(rows)
      /\ \A i \in DOMAIN rows : /\ i \in Nat /\ i > 0 /\ rows[i] \in RowType
                                /\ rows[i].m \in Messages /\ rows[i].ver \in Nat
                                /\ rows[i].gone \in BOOLEAN
  BY RowsAre
<1>2. ids \in SUBSET (1 .. Len(rows)) /\ last \in SUBSET (1 .. Len(rows))
  BY <1>1
<1>3. p = [k \in 1 .. Cardinality(last) |-> Row(Nth(last, k))]
  BY DEF Page
<1>4. /\ last \subseteq ids
      /\ \A i \in ids : i \in DOMAIN rows /\ of[rows[i].m] = c /\ i < before
  OBVIOUS
<1>5. /\ \A i \in ids : \A j \in last : j < i => i \in last
      /\ ids # {} => last # {}
  <2>1. IsFiniteSet(ids)
    <3>1. 1 \in Int /\ Len(rows) \in Int
      BY <1>1
    <3>2. IsFiniteSet(1 .. Len(rows))
      BY <3>1, FS_Interval
    <3> QED BY <3>2, <1>2, FS_Subset
  <2>2. ASSUME NEW i \in ids, NEW j \in last, j < i
        PROVE  i \in last
    <3>1. {l \in ids : l > j} \in SUBSET ids
      OBVIOUS
    <3>2. IsFiniteSet({l \in ids : l > j}) /\ Cardinality({l \in ids : l > j}) \in Nat
      BY <3>1, <2>1, FS_Subset, FS_CardinalityType
    <3>3. {l \in ids : l > i} \in SUBSET {l \in ids : l > j}
      <4>1. \A l \in ids : l \in Nat
        BY <1>2
      <4>2. i \in Nat /\ j \in Nat
        BY <1>2
      <4>3. \A l \in ids : l > i => l > j
        BY <4>1, <4>2, <2>2
      <4> QED BY <4>3
    <3>4. /\ IsFiniteSet({l \in ids : l > i})
          /\ Cardinality({l \in ids : l > i}) <= Cardinality({l \in ids : l > j})
      BY <3>2, <3>3, FS_Subset
    <3>5. Cardinality({l \in ids : l > i}) \in Nat
      BY <3>4, FS_CardinalityType
    <3>6. Cardinality({l \in ids : l > j}) < PageSize /\ PageSize \in Nat
      BY SizesArePositive
    <3>7. Cardinality({l \in ids : l > i}) < PageSize
      BY <3>2, <3>4, <3>5, <3>6
    <3> QED BY <3>7
  <2>3. ASSUME ids # {}
        PROVE  last # {}
    <3>1. /\ Cardinality(ids) \in Nat
          /\ \A k \in 1 .. Cardinality(ids) : Nth(ids, k) \in ids
          /\ \A k, l \in 1 .. Cardinality(ids) : k < l => Nth(ids, k) < Nth(ids, l)
          /\ \A i \in ids : \E k \in 1 .. Cardinality(ids) : Nth(ids, k) = i
      BY <1>1, <1>2, NthCounts
    <3>2. Cardinality(ids) # 0
      BY <2>3, <2>1, FS_EmptySet
    <3> DEFINE n == Cardinality(ids)
    <3> DEFINE top == Nth(ids, n)
    <3>3. n \in 1 .. n
      BY <3>1, <3>2
    <3>4. top \in ids
      BY <3>1, <3>3
    <3>5. \A i \in ids : ~(i > top)
      <4> SUFFICES ASSUME NEW i \in ids, i > top
                   PROVE  FALSE
        OBVIOUS
      <4>1. PICK k \in 1 .. n : Nth(ids, k) = i
        BY <3>1
      <4>2. k = n \/ k < n
        BY <3>1
      <4>3. i \in Nat /\ top \in Nat
        <5>1. \A l \in ids : l \in Nat
          BY <1>2
        <5> HIDE DEF ids, top
        <5> QED BY <5>1, <3>4
      <4> HIDE DEF ids
      <4> QED BY <4>1, <4>2, <4>3, <3>1, <3>3
    <3>6. {j \in ids : j > top} = {}
      BY <3>5
    <3>7. Cardinality({j \in ids : j > top}) < PageSize
      <4>1. PageSize > 0
        BY SizesArePositive
      <4> QED BY <3>6, <4>1, FS_EmptySet
    <3> QED BY <3>4, <3>7
  <2> QED BY <2>2, <2>3
<1> HIDE DEF last, ids
<1>6. /\ Cardinality(last) \in Nat
      /\ \A k \in 1 .. Cardinality(last) : Nth(last, k) \in last
      /\ \A k, l \in 1 .. Cardinality(last) : k < l => Nth(last, k) < Nth(last, l)
      /\ \A i \in last : \E k \in 1 .. Cardinality(last) : Nth(last, k) = i
  BY <1>1, <1>2, NthCounts
<1>7. \A k \in 1 .. Cardinality(last) :
        /\ Nth(last, k) \in DOMAIN rows /\ of[rows[Nth(last, k)].m] = c /\ Nth(last, k) < before
        /\ p[k] = Row(Nth(last, k))
  BY <1>3, <1>4, <1>6
<1>8. DOMAIN p = 1 .. Cardinality(last)
  BY <1>3
<1>9. ASSUME NEW i \in DOMAIN rows
      PROVE  /\ Row(i) \in EntryType /\ Row(i).id = i /\ Row(i).m = rows[i].m
             /\ Row(i).state = "sent" /\ Row(i).id > 0
             /\ Agrees(Row(i), rows)
             /\ Row(i).gone => rows[i].gone
  BY <1>1 DEF Row, EntryType, Agrees
<1>10. p \in Seq(EntryType)
  <2>1. \A k \in 1 .. Cardinality(last) : Row(Nth(last, k)) \in EntryType
    BY <1>7, <1>9
  <2> QED BY <2>1, <1>3, <1>6, IsASeq
<1> HIDE DEF p
<1>11. \A k \in DOMAIN p : \E i \in last : i \in DOMAIN rows /\ p[k] = Row(i)
  BY <1>6, <1>7, <1>8
<1>12. \A sent : Sane(p, rows, sent)
  <2>1. \A k \in DOMAIN p : Known(p[k], rows) /\ p[k].state # "failed"
    BY <1>11, <1>9, <1>1 DEF Known, IsRow
  <2> QED BY <2>1, <1>10 DEF Sane
<1>13. AllSent(p) /\ Confirmed(p) = DOMAIN p
  <2>1. \A k \in DOMAIN p : p[k].id > 0 /\ p[k].state = "sent"
    BY <1>11, <1>9
  <2> QED BY <2>1 DEF AllSent, Confirmed
<1>14. \A k \in DOMAIN p : Agrees(p[k], rows)
  BY <1>11, <1>9
<1>15. Ids(p) = last
  <2>1. \A i \in Ids(p) : i \in last
    BY <1>11, <1>9, <1>13 DEF Ids
  <2>2. \A i \in last : i \in Ids(p)
    <3>1. ASSUME NEW i \in last
          PROVE  i \in Ids(p)
      <4>1. PICK k \in 1 .. Cardinality(last) : Nth(last, k) = i
        BY <1>6
      <4>2. k \in Confirmed(p) /\ p[k].id = i
        BY <4>1, <1>7, <1>8, <1>9, <1>13
      <4> QED BY <4>2 DEF Ids
    <3> QED BY <3>1
  <2> QED BY <2>1, <2>2
<1>16. Ascending(p)
  <2> SUFFICES ASSUME NEW k \in Confirmed(p), NEW l \in Confirmed(p), k < l
               PROVE  p[k].id < p[l].id
    BY DEF Ascending
  <2>1. p[k].id = Nth(last, k) /\ p[l].id = Nth(last, l)
    BY <1>7, <1>8, <1>9, <1>13
  <2>2. k \in 1 .. Cardinality(last) /\ l \in 1 .. Cardinality(last)
    BY <1>8, <1>13
  <2> QED BY <2>1, <2>2, <1>6
<1>17. Within(p, c, of)
  <2>1. \A k \in DOMAIN p : of[p[k].m] = c
    BY <1>7, <1>8, <1>9
  <2> QED BY <2>1 DEF Within
<1>18. Whole(p, ids)
  BY <1>5, <1>15 DEF Whole
<1>19. \A i \in Ids(p) : i \in DOMAIN rows /\ i < before
  BY <1>15, <1>4
<1> QED BY <1>10, <1>12, <1>13, <1>14, <1>16, <1>17, <1>18, <1>19 DEF p, ids
-----------------------------------------------------------------------------
(***************************************************************************)
(* What each part of the state is.                                          *)
(***************************************************************************)
SendType == [at : {"idle", "sent", "read"}, id : Nat, ver : Nat, gone : BOOLEAN]
EventType == [kind : {"chat.message", "chat.updated", "chat.deleted", "error"},
              m : Messages, id : Nat, ver : Nat, gone : BOOLEAN, edited : BOOLEAN]

SendsOK ==
  /\ sends \in [Messages -> SendType]
  /\ \A m \in Messages : /\ sends[m].at = "idle" => sends[m] = Idle
                         /\ sends[m].at = "read" =>
                              /\ IsRow(rows, sends[m].id, m)
                              /\ sends[m].gone => rows[sends[m].id].gone

AnnouncesOK ==
  \A a \in announces : /\ a \in [id : Nat, ver : Nat, gone : BOOLEAN]
                       /\ a.id \in DOMAIN rows /\ (a.gone => rows[a.id].gone)

(* An event tells of a row, an error of a command of this client.             *)
EventOK(e, table) ==
  IF e.kind = "error" THEN e.m \in Mine
  ELSE /\ IsRow(table, e.id, e.m) /\ (e.gone => table[e.id].gone)
       /\ e.gone = (e.kind = "chat.deleted")
       /\ e.edited = (e.kind = "chat.updated")

WireOK ==
  /\ wire \in Seq(EventType) /\ connected \in BOOLEAN
  /\ ~connected => wire = <<>>
  /\ \A k \in DOMAIN wire : EventOK(wire[k], rows)

AskedOK ==
  /\ asked \subseteq Mine
  /\ \A m \in Mine : Stored(m) \/ sends[m] # Idle => m \in asked
  /\ \A k \in DOMAIN wire : Concerns(wire[k]) => wire[k].m \in asked

CacheOK ==
  /\ view \in Conversations /\ loaded \subseteq Conversations
  /\ recency \in Seq(Conversations)
  /\ cache \in [Conversations -> Seq(EntryType)]
  /\ \A c \in Conversations : Sane(cache[c], rows, asked)

PageLike(s, c) ==
  Sane(s, rows, asked) /\ Ascending(s) /\ Within(s, c, of) /\ AllSent(s)

FetchOK ==
  fetch # None =>
    /\ fetch \in [conversation : Conversations, read : BOOLEAN, page : Seq(EntryType),
                  crossed : BOOLEAN]
    /\ PageLike(fetch.page, fetch.conversation)

Opens(i, s) == \E f \in Confirmed(s) : s[f].id = i /\ \A j \in Confirmed(s) : f <= j
Before(c, i) == {j \in DOMAIN rows : of[rows[j].m] = c /\ j < i}

OlderOK ==
  older # None =>
    /\ older \in [conversation : Conversations, messages : Seq(EntryType), before : Nat,
                  read : BOOLEAN, page : Seq(EntryType), crossed : BOOLEAN, early : BOOLEAN]
    /\ Sane(older.messages, rows, asked) /\ Opens(older.before, older.messages)
    /\ PageLike(older.page, older.conversation)
    /\ \A i \in Ids(older.page) : i < older.before
    /\ older.read => Whole(older.page, Before(older.conversation, older.before))

Base ==
  RowsOK /\ SendsOK /\ AnnouncesOK /\ WireOK /\ AskedOK /\ CacheOK /\ FetchOK /\ OlderOK

-----------------------------------------------------------------------------
(***************************************************************************)
(* The parts actions are made of.                                           *)
(***************************************************************************)

LEMMA Updates ==
  ASSUME CacheOK, NEW c \in Conversations, NEW t \in Seq(EntryType),
         NEW load \in SUBSET Conversations, UpdateChat(c, t, load)
  PROVE  /\ cache' \in [Conversations -> Seq(EntryType)] /\ cache'[c] = LastOf(t)
         /\ \A d \in Conversations \ {c} : \/ cache'[d] = cache[d]
                                           \/ cache'[d] = <<>> /\ d \notin loaded'
         /\ loaded' \subseteq loaded \cup load /\ loaded' \subseteq Conversations
         /\ recency' \in Seq(Conversations)
         /\ forgotten \subseteq forgotten'
         /\ \A d \in Conversations : Unconfirmed(cache[d]) \subseteq Shows(cache'[d]) \cup forgotten'
<1> DEFINE next == [d \in Conversations |-> IF d = c THEN LastOf(t)
                                            ELSE IF d \in Kept(c) THEN cache[d] ELSE <<>>]
<1>1. /\ cache' = next /\ recency' = Recent(c) /\ loaded' = (loaded \cup load) \cap Kept(c)
      /\ forgotten' = forgotten \cup
           UNION {Unconfirmed(cache[d]) \ Shows(next[d]) : d \in Conversations}
  BY DEF UpdateChat
<1>2. next \in [Conversations -> Seq(EntryType)]
  <2>1. LastOf(t) \in Seq(EntryType) /\ <<>> \in Seq(EntryType)
    BY LastOfPart, EmptySeq
  <2>2. \A d \in Conversations : cache[d] \in Seq(EntryType)
    BY DEF CacheOK
  <2> QED BY <2>1, <2>2
<1>3. Recent(c) \in Seq(Conversations)
  <2> DEFINE kept == Those(recency, {k \in DOMAIN recency : recency[k] # c})
  <2> DEFINE all == <<c>> \o kept
  <2>1. kept \in Seq(Conversations)
    BY ThoseSelects DEF CacheOK
  <2> HIDE DEF kept
  <2>2. <<c>> \in Seq(Conversations)
    OBVIOUS
  <2>3. all \in Seq(Conversations)
    BY <2>1, <2>2, ConcatProperties
  <2> DEFINE n == IF Len(all) < CacheLimit THEN Len(all) ELSE CacheLimit
  <2>4. Len(all) \in Nat /\ DOMAIN all = 1 .. Len(all)
    BY <2>3, LenProperties
  <2>5. n \in Int /\ n <= Len(all)
    BY <2>4, SizesArePositive
  <2> HIDE DEF n
  <2>6. \A i \in 1 .. n : all[i] \in Conversations
    <3>1. \A i \in 1 .. n : i \in 1 .. Len(all)
      BY <2>4, <2>5
    <3> QED BY <3>1, <2>3, ElementOfSeq
  <2> HIDE DEF all
  <2>7. SubSeq(all, 1, n) \in Seq(Conversations)
    <3>1. 1 \in Int
      OBVIOUS
    <3> QED BY <3>1, <2>5, <2>6, SubSeqProperties
  <2> QED BY <2>7 DEF n, all, kept, Recent
<1>4. \A d \in Conversations : Unconfirmed(cache[d]) \subseteq Shows(next[d]) \cup forgotten'
  <2> HIDE DEF next
  <2> QED BY <1>1
<1>5. \A d \in Conversations \ {c} : \/ next[d] = cache[d]
                                     \/ next[d] = <<>> /\ d \notin loaded'
  BY <1>1
<1>6. next[c] = LastOf(t)
  OBVIOUS
<1>7. forgotten \subseteq forgotten'
  <2> HIDE DEF next
  <2> QED BY <1>1
<1>8. loaded' \subseteq loaded \cup load /\ loaded' \subseteq Conversations
  BY <1>1 DEF CacheOK
<1> HIDE DEF next
<1> QED BY <1>1, <1>2, <1>3, <1>4, <1>5, <1>6, <1>7, <1>8

LEMMA Delivers ==
  ASSUME WireOK, RowsOK, Grows(rows, rows'), connected' = connected,
         NEW e \in EventType, EventOK(e, rows'), NEW pending, Deliver(e, pending)
  PROVE  /\ WireOK'
         /\ IF connected
            THEN /\ wire' = Append(wire, e) /\ Len(wire') = Len(wire) + 1
                 /\ Len(wire) \in Nat /\ DOMAIN wire = 1 .. Len(wire)
                 /\ DOMAIN wire' = 1 .. Len(wire) + 1
                 /\ wire'[Len(wire) + 1] = e
                 /\ \A k \in DOMAIN wire : wire'[k] = wire[k]
                 /\ \A k \in DOMAIN wire' : k \in DOMAIN wire \/ k = Len(wire) + 1
            ELSE wire = <<>> /\ wire' = <<>>
<1>1. CASE ~connected
  <2>1. wire = <<>> /\ wire' = <<>>
    BY <1>1 DEF Deliver, WireOK
  <2> QED BY <2>1, <1>1, EmptySeq DEF WireOK
<1>2. CASE connected
  <2>1. wire' = Append(wire, e)
    BY <1>2 DEF Deliver
  <2>2. /\ wire' \in Seq(EventType) /\ Len(wire') = Len(wire) + 1 /\ wire'[Len(wire) + 1] = e
        /\ \A k \in 1 .. Len(wire) : wire'[k] = wire[k]
    BY <2>1, AppendProperties DEF WireOK
  <2>3. Len(wire) \in Nat /\ DOMAIN wire = 1 .. Len(wire) /\ DOMAIN wire' = 1 .. Len(wire')
    BY <2>2, LenProperties DEF WireOK
  <2>4. \A k \in DOMAIN wire' : k \in DOMAIN wire \/ k = Len(wire) + 1
    BY <2>2, <2>3
  <2>5. \A k \in DOMAIN wire : EventOK(wire[k], rows')
    BY DEF WireOK, EventOK, IsRow, Grows
  <2>6. \A k \in DOMAIN wire' : EventOK(wire'[k], rows')
    BY <2>2, <2>3, <2>4, <2>5
  <2>7. connected'
    BY <1>2
  <2>8. WireOK'
    BY <2>2, <2>6, <2>7 DEF WireOK
  <2> QED BY <1>2, <2>1, <2>2, <2>3, <2>4, <2>8
<1> QED BY <1>1, <1>2 DEF WireOK
LEMMA Inserts ==
  ASSUME RowsOK, NEW m \in Messages, rows' = Inserted(m), of' = of
  PROVE  /\ RowsOK' /\ Grows(rows, rows') /\ IsRow(rows', IdOf(m, rows'), m)
         /\ \A i \in DOMAIN rows : i \in DOMAIN rows' /\ rows'[i] = rows[i]
         /\ \A i \in DOMAIN rows' : i \in DOMAIN rows \/ (rows'[i].m = m /\ ~Stored(m))
         /\ Stored(m) => rows' = rows
         /\ ~Stored(m) => ~rows'[IdOf(m, rows')].gone
<1> DEFINE row == [m |-> m, ver |-> 0, gone |-> FALSE]
<1>1. Len(rows) \in Nat /\ DOMAIN rows = 1 .. Len(rows)
  BY RowsAre
<1>2. ASSUME NEW r, NEW i \in DOMAIN r, r[i].m = m
      PROVE  IsRow(r, IdOf(m, r), m)
  BY <1>2 DEF IdOf, IsRow
<1>3. CASE Stored(m)
  <2>1. rows' = rows
    BY <1>3 DEF Inserted
  <2>2. IsRow(rows', IdOf(m, rows'), m)
    BY <2>1, <1>2, <1>3 DEF Stored
  <2>3. RowsOK' /\ Grows(rows, rows')
    BY <2>1 DEF RowsOK, Grows
  <2> QED BY <2>1, <2>2, <2>3, <1>3
<1>4. CASE ~Stored(m)
  <2>1. rows' = Append(rows, row)
    BY <1>4 DEF Inserted
  <2>2. rows \in Seq(RowType) /\ row \in RowType
    BY DEF RowsOK, RowType
  <2>3. /\ rows' \in Seq(RowType) /\ Len(rows') = Len(rows) + 1 /\ rows'[Len(rows) + 1] = row
        /\ \A i \in 1 .. Len(rows) : rows'[i] = rows[i]
    BY <2>1, <2>2, AppendProperties
  <2>4. DOMAIN rows' = 1 .. Len(rows) + 1
    BY <2>3, LenProperties
  <2>5. /\ \A i \in DOMAIN rows : i \in DOMAIN rows' /\ rows'[i] = rows[i]
        /\ \A i \in DOMAIN rows' : i \in DOMAIN rows \/ i = Len(rows) + 1
        /\ Len(rows) + 1 \in DOMAIN rows'
    BY <1>1, <2>3, <2>4
  <2>6. \A i \in DOMAIN rows : rows[i].m # m
    BY <1>4 DEF Stored
  <2>7. \A i, j \in DOMAIN rows' : rows'[i].m = rows'[j].m => i = j
    BY <2>3, <2>5, <2>6 DEF RowsOK
  <2>8. IsRow(rows', IdOf(m, rows'), m)
    BY <1>2, <2>3, <2>5
  <2>9. IdOf(m, rows') = Len(rows) + 1
    BY <2>3, <2>5, <2>7, <2>8 DEF IsRow
  <2>10. RowsOK'
    BY <2>3, <2>7 DEF RowsOK
  <2>11. Grows(rows, rows')
    BY <2>5 DEF Grows
  <2> QED BY <2>3, <2>5, <2>8, <2>9, <2>10, <2>11, <1>4
<1> QED BY <1>3, <1>4

LEMMA ChangeIs ==
  ASSUME RowsOK, NEW i \in DOMAIN rows, NEW ver \in Nat, NEW gone \in BOOLEAN,
         Change(i, ver, gone)
  PROVE  /\ RowsOK' /\ Grows(rows, rows') /\ of' = of /\ DOMAIN rows' = DOMAIN rows
         /\ \A j \in DOMAIN rows : rows'[j].m = rows[j].m /\ (j # i => rows'[j] = rows[j])
         /\ rows'[i].ver = ver /\ rows'[i].gone = gone /\ ~rows[i].gone
<1>1. rows' = [rows EXCEPT ![i].ver = ver, ![i].gone = gone] /\ of' = of /\ ~rows[i].gone
  BY DEF Change
<1>2. \A j \in DOMAIN rows : rows[j] \in RowType
  BY RowsAre
<1>3. [rows[i] EXCEPT !.ver = ver, !.gone = gone] \in RowType
  BY <1>2 DEF RowType
<1>4. DOMAIN rows' = DOMAIN rows /\ rows'[i] = [rows[i] EXCEPT !.ver = ver, !.gone = gone]
      /\ \A j \in DOMAIN rows : j # i => rows'[j] = rows[j]
  BY <1>1
<1>5. rows'[i].m = rows[i].m /\ rows'[i].ver = ver /\ rows'[i].gone = gone
  BY <1>2, <1>4 DEF RowType
<1>6. rows' \in Seq(RowType)
  <2>1. \A j \in 1 .. Len(rows) : rows'[j] \in RowType
    BY <1>2, <1>3, <1>4, RowsAre
  <2>2. rows' = [j \in 1 .. Len(rows) |-> rows'[j]]
    BY <1>1, RowsAre
  <2> QED BY <2>1, <2>2, RowsAre, IsASeq
<1>7. RowsOK'
  BY <1>1, <1>4, <1>5, <1>6 DEF RowsOK
<1>8. Grows(rows, rows')
  BY <1>1, <1>4, <1>5 DEF Grows
<1> QED BY <1>1, <1>4, <1>5, <1>7, <1>8
(* What a step leaves alone is still what it was, as D1 grows.                *)
LEMMA Keeps ==
  ASSUME Base, RowsOK', Grows(rows, rows'), of' = of, asked \subseteq asked'
  PROVE  /\ \A s : Sane(s, rows, asked) => Sane(s, rows', asked')
         /\ UNCHANGED <<view, cache, loaded, recency>> => CacheOK'
         /\ fetch' = fetch => FetchOK'
         /\ older' = older => OlderOK'
         /\ announces' = announces => AnnouncesOK'
         /\ UNCHANGED <<wire, connected>> => WireOK'
<1>1. \A s : Sane(s, rows, asked) => Sane(s, rows', asked')
  BY GrowingKeepsSane
<1>2. UNCHANGED <<view, cache, loaded, recency>> => CacheOK'
  BY <1>1 DEF Base, CacheOK
<1>3. \A s, c : PageLike(s, c) => Sane(s, rows', asked') /\ Ascending(s) /\ Within(s, c, of') /\ AllSent(s)
  BY <1>1 DEF PageLike
<1>4. fetch' = fetch => FetchOK'
  BY <1>3 DEF Base, FetchOK, PageLike
<1>5. ASSUME older # None
      PROVE  Before(older.conversation, older.before) =
               {j \in DOMAIN rows' : of'[rows'[j].m] = older.conversation /\ j < older.before}
  <2>1. OlderOK
    BY DEF Base
  <2>2. PICK f \in Confirmed(older.messages) : older.messages[f].id = older.before
    BY <2>1, <1>5 DEF OlderOK, Opens
  <2>3. f \in DOMAIN older.messages /\ older.messages[f].id > 0
    BY <2>2 DEF Confirmed
  <2>4. older.before > 0 /\ Known(older.messages[f], rows)
    BY <1>5, <2>1, <2>2, <2>3 DEF OlderOK, Sane
  <2>5. older.before \in DOMAIN rows
    BY <2>2, <2>3, <2>4 DEF Known, IsRow
  <2>6. /\ DOMAIN rows = 1 .. Len(rows) /\ Len(rows) \in Nat
        /\ DOMAIN rows' = 1 .. Len(rows') /\ Len(rows') \in Nat
    BY LenProperties DEF Base, RowsOK
  <2>7. \A j \in DOMAIN rows' : j < older.before => j \in DOMAIN rows
    BY <2>5, <2>6
  <2>8. \A j \in DOMAIN rows : j \in DOMAIN rows' /\ rows'[j].m = rows[j].m
    BY DEF Grows
  <2> QED BY <2>7, <2>8 DEF Before
<1>6. older' = older => OlderOK'
  <2> SUFFICES ASSUME older' = older, older # None
               PROVE  OlderOK'
    BY DEF OlderOK
  <2>1. OlderOK
    BY DEF Base
  <2>2. Before(older.conversation, older.before)' = Before(older.conversation, older.before)
    BY <1>5 DEF Before
  <2> QED BY <1>1, <1>3, <2>1, <2>2 DEF OlderOK, PageLike
<1>7. announces' = announces => AnnouncesOK'
  BY DEF Base, AnnouncesOK, Grows
<1>8. UNCHANGED <<wire, connected>> => WireOK'
  BY DEF Base, WireOK, EventOK, IsRow, Grows
<1> QED BY <1>1, <1>2, <1>4, <1>6, <1>7, <1>8

LEMMA UpdatesBase ==
  ASSUME Base, RowsOK', Grows(rows, rows'), of' = of, asked \subseteq asked',
         NEW c \in Conversations, NEW t \in Seq(EntryType), Sane(t, rows', asked'),
         NEW load \in SUBSET Conversations, UpdateChat(c, t, load), view' \in Conversations
  PROVE  CacheOK'
<1>1. CacheOK
  BY DEF Base
<1>2. /\ cache' \in [Conversations -> Seq(EntryType)] /\ cache'[c] = LastOf(t)
      /\ \A d \in Conversations \ {c} : cache'[d] = cache[d] \/ cache'[d] = <<>>
      /\ loaded' \subseteq Conversations /\ recency' \in Seq(Conversations)
  BY <1>1, Updates
<1>3. \A d \in Conversations : Sane(cache[d], rows', asked')
  BY <1>1, Keeps DEF CacheOK
<1>4. Sane(<<>>, rows', asked')
  BY EmptySeq DEF Sane
<1>5. Sane(LastOf(t), rows', asked')
  BY LastOfPart, PartKeeps
<1>6. \A d \in Conversations : Sane(cache'[d], rows', asked')
  BY <1>2, <1>3, <1>4, <1>5
<1> QED BY <1>2, <1>6 DEF CacheOK

LEMMA Stays ==
  ASSUME Base, UNCHANGED <<of, rows>>
  PROVE  RowsOK' /\ Grows(rows, rows')
BY DEF Base, RowsOK, Grows

-----------------------------------------------------------------------------
(***************************************************************************)
(* Base is kept, action by action.                                          *)
(***************************************************************************)

LEMMA SendChatBase ==
  ASSUME Base, NEW m \in Messages, SendChat(m)
  PROVE  Base'
<1> DEFINE s == cache[of[m]]
<1> DEFINE x == [m |-> m, id |-> 0, ver |-> 0, gone |-> FALSE, edited |-> FALSE, state |-> "sending"]
<1> DEFINE kept == Without(s, m, 0)
<1> DEFINE t == Append(kept, x)
<1>1. /\ m \in Mine /\ sends[m] = Idle /\ UpdateChat(of[m], t, {})
      /\ sends' = [sends EXCEPT ![m].at = "sent"] /\ asked' = asked \cup {m}
      /\ UNCHANGED <<of, rows, announces, connected, losses, wire, view, fetch, older>>
  BY DEF SendChat, socket
<1>2. of[m] \in Conversations /\ s \in Seq(EntryType) /\ Sane(s, rows, asked)
  BY DEF Base, RowsOK, CacheOK
<1>3. asked \subseteq asked' /\ asked' \subseteq Mine
  BY <1>1 DEF Base, AskedOK
<1>4. RowsOK' /\ Grows(rows, rows')
  BY <1>1, Stays
<1>5. Sane(s, rows', asked')
  BY <1>1, <1>2, <1>3, <1>4, Keeps
<1>6. kept \in Seq(EntryType) /\ \E h : Part(kept, s, h)
  BY <1>2, WithoutPart
<1>7. Sane(kept, rows', asked')
  BY <1>5, <1>6, PartKeeps
<1>8. x \in EntryType /\ Known(x, rows') /\ x.state # "failed"
  BY <1>1 DEF EntryType, Known
<1> HIDE DEF x, kept, s
<1>9. t \in Seq(EntryType) /\ Sane(t, rows', asked')
  BY <1>6, <1>7, <1>8, AppendKeeps
<1> HIDE DEF t
<1>11. CacheOK'
  <2>1. UpdateChat(of[m], t, {})
    BY <1>1 DEF t, kept, s, x
  <2>2. view' \in Conversations
    BY <1>1 DEF Base, CacheOK
  <2>3. of' = of /\ {} \in SUBSET Conversations
    BY <1>1
  <2>4. of[m] \in Conversations
    BY <1>2
  <2> QED BY <2>1, <2>2, <2>3, <2>4, <1>3, <1>4, <1>9, UpdatesBase
<1>12. SendsOK'
  BY <1>1 DEF Base, SendsOK, SendType, Idle, IsRow
<1>13. AskedOK'
  BY <1>1, <1>3 DEF Base, AskedOK, Stored, Concerns
<1> QED BY <1>1, <1>3, <1>4, <1>11, <1>12, <1>13, Keeps DEF Base
LEMMA OthersSendBase ==
  ASSUME Base, NEW m \in Messages, OthersSend(m)
  PROVE  Base'
<1>1. /\ m \notin Mine /\ sends[m] = Idle /\ sends' = [sends EXCEPT ![m].at = "sent"]
      /\ UNCHANGED <<of, rows, announces, connected, wire, view, cache, loaded, recency,
                     fetch, older, asked>>
  BY DEF OthersSend, socket, client, history
<1>2. RowsOK' /\ Grows(rows, rows')
  BY <1>1, Stays
<1>3. SendsOK'
  BY <1>1 DEF Base, SendsOK, SendType, Idle, IsRow
<1>4. AskedOK'
  BY <1>1 DEF Base, AskedOK, Stored, Concerns
<1> QED BY <1>1, <1>2, <1>3, <1>4, Keeps DEF Base

(* An error is told to this client alone. *)
LEMMA Fails ==
  ASSUME Base, NEW m \in Messages, Fail(m), Grows(rows, rows'), connected' = connected,
         m \in Mine => m \in asked, announces' = announces
  PROVE  /\ WireOK'
         /\ \A k \in DOMAIN wire' : Concerns(wire'[k]) => wire'[k].m \in asked
<1> DEFINE e == Event("error", m, Idle)
<1>1. CASE m \notin Mine
  <2>1. wire' = wire
    BY <1>1 DEF Fail
  <2> QED BY <2>1 DEF Base, WireOK, AskedOK, EventOK, IsRow, Grows
<1>2. CASE m \in Mine
  <2>1. Deliver(e, announces)
    BY <1>2 DEF Fail
  <2>2. e \in EventType /\ EventOK(e, rows') /\ e.m = m
    BY <1>2 DEF Event, Idle, EventType, EventOK
  <2> HIDE DEF e
  <2>3. /\ WireOK'
        /\ IF connected
           THEN /\ wire'[Len(wire) + 1] = e
                /\ \A k \in DOMAIN wire : wire'[k] = wire[k]
                /\ \A k \in DOMAIN wire' : k \in DOMAIN wire \/ k = Len(wire) + 1
           ELSE wire' = <<>>
    BY <2>1, <2>2, Delivers DEF Base
  <2>4. \A k \in DOMAIN wire : Concerns(wire[k]) => wire[k].m \in asked
    BY DEF Base, AskedOK
  <2>5. \A k \in DOMAIN wire' : Concerns(wire'[k]) => wire'[k].m \in asked
    <3>1. CASE connected
      BY <3>1, <2>3, <2>4, <2>2, <1>2
    <3>2. CASE ~connected
      <4>1. DOMAIN wire' = {}
        BY <3>2, <2>3
      <4> QED BY <4>1
    <3> QED BY <3>1, <3>2
  <2> QED BY <2>3, <2>5
<1> QED BY <1>1, <1>2

LEMMA RefuseBase ==
  ASSUME Base, NEW m \in Messages, Refuse(m)
  PROVE  Base'
<1>1. /\ sends[m].at = "sent" /\ sends' = [sends EXCEPT ![m] = Idle] /\ Fail(m)
      /\ UNCHANGED <<of, rows, announces, connected, view, cache, loaded, recency, fetch, older, asked>>
  BY DEF Refuse, client
<1>2. RowsOK' /\ Grows(rows, rows')
  BY <1>1, Stays
<1>3. SendsOK'
  BY <1>1 DEF Base, SendsOK, SendType, Idle, IsRow
<1>4. m \in Mine => m \in asked
  BY <1>1 DEF Base, AskedOK, Idle
<1>5. WireOK' /\ \A k \in DOMAIN wire' : Concerns(wire'[k]) => wire'[k].m \in asked
  BY <1>1, <1>2, <1>4, Fails
<1>6. AskedOK'
  <2>1. \A n \in Mine : Stored(n)' \/ sends'[n] # Idle => n \in asked
    BY <1>1 DEF Base, AskedOK, SendsOK, Stored
  <2>2. asked' = asked /\ asked \subseteq Mine
    BY <1>1 DEF Base, AskedOK
  <2> QED BY <2>1, <2>2, <1>5 DEF AskedOK, Concerns
<1> QED BY <1>1, <1>2, <1>3, <1>5, <1>6, Keeps DEF Base

LEMMA StoreBase ==
  ASSUME Base, NEW m \in Messages, Store(m)
  PROVE  Base'
<1> DEFINE i == IdOf(m, rows')
<1>1. /\ sends[m].at = "sent" /\ rows' = Inserted(m)
      /\ sends' = [sends EXCEPT ![m] = [at |-> "read", id |-> i, ver |-> rows'[i].ver,
                                        gone |-> rows'[i].gone]]
      /\ UNCHANGED <<of, announces, connected, wire, view, cache, loaded, recency, fetch, older, asked>>
  BY DEF Store, socket, client, history
<1>2. RowsOK' /\ Grows(rows, rows') /\ IsRow(rows', i, m)
      /\ \A j \in DOMAIN rows' : j \in DOMAIN rows \/ rows'[j].m = m
  BY <1>1, Inserts DEF Base
<1> HIDE DEF i
<1>3. i \in Nat /\ rows'[i].ver \in Nat /\ rows'[i].gone \in BOOLEAN
  <2>1. rows' \in Seq(RowType) /\ i \in DOMAIN rows'
    BY <1>2 DEF RowsOK, IsRow
  <2>2. DOMAIN rows' = 1 .. Len(rows') /\ rows'[i] \in RowType
    BY <2>1, LenProperties, ElementOfSeq
  <2> QED BY <2>1, <2>2 DEF RowType
<1>4. SendsOK'
  <2>1. sends' \in [Messages -> SendType]
    BY <1>1, <1>3 DEF Base, SendsOK, SendType
  <2>2. \A n \in Messages : sends'[n].at = "idle" => sends'[n] = Idle
    BY <1>1 DEF Base, SendsOK
  <2>3. ASSUME NEW n \in Messages, sends'[n].at = "read"
        PROVE  IsRow(rows', sends'[n].id, n)
               /\ (sends'[n].gone => rows'[sends'[n].id].gone)
    <3>1. CASE n = m
      BY <3>1, <1>1, <1>2 DEF Base, SendsOK
    <3>2. CASE n # m
      BY <3>2, <2>3, <1>1, <1>2 DEF Base, SendsOK, IsRow, Grows
    <3> QED BY <3>1, <3>2
  <2> QED BY <2>1, <2>2, <2>3 DEF SendsOK
<1>5. m \in Mine => m \in asked
  BY <1>1 DEF Base, AskedOK, Idle
<1>6. AskedOK'
  <2>1. ASSUME NEW n \in Mine, Stored(n)'
        PROVE  Stored(n) \/ n = m
    <3>1. PICK j \in DOMAIN rows' : rows'[j].m = n
      BY <2>1 DEF Stored
    <3> QED BY <3>1, <1>2 DEF Stored, Grows
  <2>2. \A n \in Mine : Stored(n)' \/ sends'[n] # Idle => n \in asked
    BY <1>1, <1>5, <2>1 DEF Base, AskedOK, SendsOK
  <2>3. /\ asked \subseteq Mine /\ asked' = asked /\ wire' = wire
        /\ \A k \in DOMAIN wire : Concerns(wire[k]) => wire[k].m \in asked
    BY <1>1 DEF Base, AskedOK
  <2> QED BY <2>2, <2>3 DEF AskedOK, Concerns
<1> QED BY <1>1, <1>2, <1>4, <1>6, Keeps DEF Base
LEMMA StoreLostBase ==
  ASSUME Base, NEW m \in Messages, StoreLost(m)
  PROVE  Base'
<1>1. /\ sends[m].at = "sent" /\ rows' = Inserted(m) /\ sends' = [sends EXCEPT ![m] = Idle]
      /\ Fail(m)
      /\ UNCHANGED <<of, announces, connected, view, cache, loaded, recency, fetch, older, asked>>
  BY DEF StoreLost, client
<1>2. RowsOK' /\ Grows(rows, rows')
      /\ \A j \in DOMAIN rows' : j \in DOMAIN rows \/ rows'[j].m = m
  BY <1>1, Inserts DEF Base
<1>3. SendsOK'
  <2>1. sends' \in [Messages -> SendType]
    BY <1>1 DEF Base, SendsOK, SendType, Idle
  <2>2. \A n \in Messages : sends'[n].at = "idle" => sends'[n] = Idle
    BY <1>1 DEF Base, SendsOK
  <2>3. ASSUME NEW n \in Messages, sends'[n].at = "read"
        PROVE  IsRow(rows', sends'[n].id, n)
               /\ (sends'[n].gone => rows'[sends'[n].id].gone)
    <3>1. n # m
      BY <2>3, <1>1 DEF Base, SendsOK, Idle
    <3> QED BY <3>1, <2>3, <1>1, <1>2 DEF Base, SendsOK, IsRow, Grows
  <2> QED BY <2>1, <2>2, <2>3 DEF SendsOK
<1>4. m \in Mine => m \in asked
  BY <1>1 DEF Base, AskedOK, Idle
<1>5. WireOK' /\ \A k \in DOMAIN wire' : Concerns(wire'[k]) => wire'[k].m \in asked
  BY <1>1, <1>2, <1>4, Fails
<1>6. AskedOK'
  <2>1. ASSUME NEW n \in Mine, Stored(n)'
        PROVE  Stored(n) \/ n = m
    <3>1. PICK j \in DOMAIN rows' : rows'[j].m = n
      BY <2>1 DEF Stored
    <3> QED BY <3>1, <1>2 DEF Stored, Grows
  <2>2. \A n \in Mine : Stored(n)' \/ sends'[n] # Idle => n \in asked
    BY <1>1, <1>4, <2>1 DEF Base, AskedOK, SendsOK
  <2>3. asked \subseteq Mine /\ asked' = asked
    BY <1>1 DEF Base, AskedOK
  <2> QED BY <1>5, <2>2, <2>3 DEF AskedOK, Concerns
<1> QED BY <1>1, <1>2, <1>3, <1>5, <1>6, Keeps DEF Base

(* The events of a step that delivers one. *)
LEMMA DeliversAsked ==
  ASSUME Base, Grows(rows, rows'), connected' = connected,
         NEW e \in EventType, EventOK(e, rows'), NEW pending, Deliver(e, pending),
         Concerns(e) => e.m \in asked
  PROVE  WireOK' /\ \A k \in DOMAIN wire' : Concerns(wire'[k]) => wire'[k].m \in asked
<1>1. /\ WireOK'
      /\ IF connected
         THEN /\ wire'[Len(wire) + 1] = e
              /\ \A k \in DOMAIN wire : wire'[k] = wire[k]
              /\ \A k \in DOMAIN wire' : k \in DOMAIN wire \/ k = Len(wire) + 1
         ELSE wire' = <<>>
  BY Delivers DEF Base
<1>2. \A k \in DOMAIN wire : Concerns(wire[k]) => wire[k].m \in asked
  BY DEF Base, AskedOK
<1>3. \A k \in DOMAIN wire' : Concerns(wire'[k]) => wire'[k].m \in asked
  <2>1. CASE connected
    BY <2>1, <1>1, <1>2
  <2>2. CASE ~connected
    <3>1. DOMAIN wire' = {}
      BY <2>2, <1>1
    <3> QED BY <3>1
  <2> QED BY <2>1, <2>2
<1> QED BY <1>1, <1>3

LEMMA AnswerBase ==
  ASSUME Base, NEW m \in Messages, Answer(m)
  PROVE  Base'
<1> DEFINE e == Event("chat.message", m, sends[m])
<1>1. /\ sends[m].at = "read" /\ sends' = [sends EXCEPT ![m] = Idle]
      /\ IF sends[m].gone THEN Fail(m) ELSE Deliver(e, announces)
      /\ UNCHANGED <<of, rows, announces, connected, view, cache, loaded, recency, fetch, older, asked>>
  BY DEF Answer, client
<1>2. RowsOK' /\ Grows(rows, rows')
  BY <1>1, Stays
<1>3. SendsOK'
  BY <1>1 DEF Base, SendsOK, SendType, Idle, IsRow
<1>4. m \in Mine => m \in asked
  BY <1>1 DEF Base, AskedOK, Idle
<1>5. WireOK' /\ \A k \in DOMAIN wire' : Concerns(wire'[k]) => wire'[k].m \in asked
  <2>1. CASE sends[m].gone
    BY <2>1, <1>1, <1>2, <1>4, Fails
  <2>2. CASE ~sends[m].gone
    <3>1. sends[m] \in SendType /\ IsRow(rows, sends[m].id, m)
      BY <1>1 DEF Base, SendsOK
    <3>2. /\ e \in EventType /\ e.kind = "chat.message" /\ e.m = m /\ e.id = sends[m].id
          /\ e.gone = FALSE /\ e.edited = FALSE
      BY <2>2, <3>1 DEF Event, SendType, EventType
    <3> HIDE DEF e
    <3>3. EventOK(e, rows') /\ rows' = rows /\ connected' = connected
      BY <3>1, <3>2, <1>1 DEF EventOK
    <3>4. Concerns(e) => e.m \in asked
      BY <3>2, <1>4 DEF Concerns
    <3>5. Deliver(e, announces)
      BY <2>2, <1>1
    <3> QED BY <3>2, <3>3, <3>4, <3>5, <1>2, DeliversAsked
  <2> QED BY <2>1, <2>2
<1>6. AskedOK'
  <2>1. \A n \in Mine : Stored(n)' \/ sends'[n] # Idle => n \in asked
    BY <1>1 DEF Base, AskedOK, SendsOK, Stored
  <2>2. asked' = asked /\ asked \subseteq Mine
    BY <1>1 DEF Base, AskedOK
  <2> QED BY <2>1, <2>2, <1>5 DEF AskedOK, Concerns
<1> QED BY <1>1, <1>2, <1>3, <1>5, <1>6, Keeps DEF Base

(* editMessage and deleteMessage. *)
LEMMA ChangeBase ==
  ASSUME Base, NEW i \in DOMAIN rows, NEW ver \in Nat, NEW gone \in BOOLEAN,
         Change(i, ver, gone)
  PROVE  Base'
<1>1. /\ announces' = announces \cup {[id |-> i, ver |-> ver, gone |-> gone]}
      /\ UNCHANGED <<of, sends, connected, wire, view, cache, loaded, recency, fetch, older, asked>>
  BY DEF Change, socket, client, history
<1>2. /\ RowsOK' /\ Grows(rows, rows') /\ DOMAIN rows' = DOMAIN rows
      /\ rows'[i].gone = gone
  BY ChangeIs DEF Base
<1>3. i \in Nat
  BY RowsAre DEF Base
<1>4. AnnouncesOK'
  <2>1. \A a \in announces : /\ a \in [id : Nat, ver : Nat, gone : BOOLEAN]
                             /\ a.id \in DOMAIN rows' /\ (a.gone => rows'[a.id].gone)
    BY <1>2 DEF Base, AnnouncesOK, Grows
  <2> QED BY <2>1, <1>1, <1>2, <1>3 DEF AnnouncesOK
<1>5. SendsOK'
  BY <1>1, <1>2 DEF Base, SendsOK, IsRow, Grows
<1>6. AskedOK'
  <2>1. \A n \in Mine : Stored(n)' => Stored(n)
    BY <1>2 DEF Stored, Grows
  <2> QED BY <2>1, <1>1 DEF Base, AskedOK, Concerns
<1> QED BY <1>1, <1>2, <1>4, <1>5, <1>6, Keeps DEF Base

LEMMA AnnounceBase ==
  ASSUME Base, NEW a \in announces, AnnounceChatUpdate(a)
  PROVE  Base'
<1> DEFINE e == Event(IF a.gone THEN "chat.deleted" ELSE "chat.updated", rows[a.id].m, a)
<1>1. /\ announces' = announces \ {a} /\ Deliver(e, announces')
      /\ UNCHANGED <<of, rows, sends, connected, view, cache, loaded, recency, fetch, older, asked>>
  BY DEF AnnounceChatUpdate, client
<1>2. RowsOK' /\ Grows(rows, rows')
  BY <1>1, Stays
<1>3. /\ a \in [id : Nat, ver : Nat, gone : BOOLEAN] /\ a.id \in DOMAIN rows
      /\ a.gone => rows[a.id].gone
      /\ rows[a.id].m \in Messages
  BY RowsAre DEF Base, AnnouncesOK
<1>4. /\ e \in EventType /\ e.kind = (IF a.gone THEN "chat.deleted" ELSE "chat.updated")
      /\ e.m = rows[a.id].m /\ e.id = a.id /\ e.gone = a.gone
      /\ e.edited = (e.kind = "chat.updated") /\ a.gone \in BOOLEAN
  BY <1>3 DEF Event, EventType
<1>5. Deliver(e, announces')
  BY <1>1
<1> HIDE DEF e
<1>6. EventOK(e, rows') /\ ~Concerns(e) /\ connected' = connected
  BY <1>1, <1>3, <1>4 DEF EventOK, IsRow, Concerns
<1>7. WireOK' /\ \A k \in DOMAIN wire' : Concerns(wire'[k]) => wire'[k].m \in asked
  BY <1>2, <1>4, <1>5, <1>6, DeliversAsked
<1>8. AnnouncesOK' /\ SendsOK'
  BY <1>1 DEF Base, AnnouncesOK, SendsOK, IsRow
<1>9. AskedOK'
  BY <1>1, <1>7 DEF Base, AskedOK, Stored, Concerns
<1> QED BY <1>1, <1>2, <1>7, <1>8, <1>9, Keeps DEF Base

LEMMA LoseBase ==
  ASSUME Base, NEW lost \in SUBSET Mine, Lose(lost)
  PROVE  Base'
<1>1. /\ connected' = FALSE /\ wire' = <<>>
      /\ lost \subseteq {m \in Mine : sends[m].at = "sent"}
      /\ sends' = [m \in Messages |-> IF m \in lost THEN Idle ELSE sends[m]]
      /\ UNCHANGED <<of, rows, announces, view, cache, loaded, recency, fetch, older, asked>>
  BY DEF Lose, client
<1>2. RowsOK' /\ Grows(rows, rows')
  BY <1>1, Stays
<1>3. SendsOK'
  BY <1>1 DEF Base, SendsOK, SendType, Idle, IsRow
<1>4. WireOK'
  <2>1. wire' \in Seq(EventType)
    BY <1>1, EmptySeq
  <2>2. DOMAIN wire' = {}
    BY <1>1
  <2>3. connected' \in BOOLEAN
    BY <1>1
  <2> QED BY <2>1, <2>2, <2>3, <1>1 DEF WireOK
<1>5. AskedOK'
  <2>1. \A n \in Mine : sends'[n] # Idle => sends[n] # Idle
    BY <1>1, MineAreMessages
  <2> QED BY <1>1, <2>1 DEF Base, AskedOK, Stored
<1> QED BY <1>1, <1>2, <1>3, <1>4, <1>5, Keeps DEF Base

LEMMA ReconnectBase ==
  ASSUME Base, Reconnect
  PROVE  Base'
<1>1. /\ ~connected /\ connected' = TRUE
      /\ UNCHANGED <<of, rows, sends, announces, wire, view, cache, loaded, recency, fetch, older, asked>>
  BY DEF Reconnect, server, client, history
<1>2. RowsOK' /\ Grows(rows, rows')
  BY <1>1, Stays
<1>3. WireOK'
  BY <1>1 DEF Base, WireOK
<1>4. SendsOK' /\ AskedOK'
  BY <1>1 DEF Base, SendsOK, AskedOK, Stored, Concerns
<1> QED BY <1>1, <1>2, <1>3, <1>4, Keeps DEF Base
(* What one event does to the messages it is applied to.                      *)
LEMMA TouchedIs ==
  ASSUME NEW e \in EventType, NEW x \in EntryType, Touches(e, x), NEW table, 0 \notin DOMAIN table,
         EventOK(e, table), e.kind # "chat.message", NEW sent,
         Known(x, table), x.state = "failed" => x.m \in Mine \cap sent,
         e.kind = "error" => e.m \in sent
  PROVE  LET y == Touched(e, x)
         IN  /\ y \in EntryType /\ y.m = x.m /\ y.id = x.id /\ Known(y, table)
             /\ y.state = "failed" => y.m \in Mine \cap sent
             /\ e.kind = "error" => y.state = "failed" /\ y.gone = x.gone /\ y.ver = x.ver /\ y.edited = x.edited
             /\ e.kind # "error" => y.state = x.state
             /\ e.kind = "chat.updated" => y.gone = x.gone /\ y.ver = e.ver /\ y.edited
             /\ e.kind = "chat.deleted" => y.gone
<1> DEFINE y == Touched(e, x)
<1>1. CASE e.kind = "error"
  <2>1. y = [x EXCEPT !.state = "failed"]
    BY <1>1 DEF Touched
  <2>2. x.m = e.m /\ e.m \in Mine
    BY <1>1 DEF Touches, EventOK
  <2>3. /\ y \in EntryType /\ y.m = x.m /\ y.id = x.id /\ y.state = "failed"
        /\ y.gone = x.gone /\ y.ver = x.ver /\ y.edited = x.edited
    BY <2>1 DEF EntryType
  <2> HIDE DEF y
  <2> QED BY <2>2, <2>3, <1>1 DEF y, Known
<1>2. CASE e.kind = "chat.updated"
  <2>1. y = [x EXCEPT !.ver = e.ver, !.edited = TRUE]
    BY <1>2 DEF Touched
  <2>2. /\ y \in EntryType /\ y.m = x.m /\ y.id = x.id /\ y.state = x.state
        /\ y.gone = x.gone /\ y.ver = e.ver /\ y.edited
    BY <2>1 DEF EntryType, EventType
  <2> HIDE DEF y
  <2> QED BY <2>2, <1>2 DEF y, Known
<1>3. CASE e.kind = "chat.deleted"
  <2>1. y = [x EXCEPT !.gone = TRUE]
    BY <1>3 DEF Touched
  <2>2. /\ y \in EntryType /\ y.m = x.m /\ y.id = x.id /\ y.state = x.state
        /\ y.gone
    BY <2>1 DEF EntryType
  <2>3. x.id = e.id /\ e.id \in DOMAIN table /\ table[e.id].gone /\ e.gone
    BY <1>3 DEF Touches, EventOK, IsRow
  <2>4. IsRow(table, e.id, e.m)
    BY <1>3 DEF EventOK
  <2> HIDE DEF y
  <2> QED BY <2>2, <2>3, <2>4, <1>3 DEF y, Known
<1>4. e.kind \in {"chat.updated", "chat.deleted", "error"}
  BY DEF EventType
<1> QED BY <1>1, <1>2, <1>3, <1>4
LEMMA Mapped ==
  ASSUME NEW s, NEW e \in EventType, NEW table, 0 \notin DOMAIN table,
         EventOK(e, table), e.kind # "chat.message", NEW sent, Sane(s, table, sent),
         e.kind = "error" => e.m \in sent
  PROVE  LET t == [k \in DOMAIN s |-> IF Touches(e, s[k]) THEN Touched(e, s[k]) ELSE s[k]]
         IN  /\ t \in Seq(EntryType) /\ Sane(t, table, sent) /\ DOMAIN t = DOMAIN s
             /\ Confirmed(t) = Confirmed(s) /\ Ids(t) = Ids(s) /\ Unconfirmed(t) = Unconfirmed(s)
             /\ Ascending(s) => Ascending(t)
             /\ \A c, to : Within(s, c, to) => Within(t, c, to)
             /\ \A k \in DOMAIN s : /\ t[k].m = s[k].m /\ t[k].id = s[k].id
                                    /\ t[k] = IF Touches(e, s[k]) THEN Touched(e, s[k]) ELSE s[k]
<1> DEFINE t == [k \in DOMAIN s |-> IF Touches(e, s[k]) THEN Touched(e, s[k]) ELSE s[k]]
<1>1. /\ s \in Seq(EntryType) /\ Len(s) \in Nat /\ DOMAIN s = 1 .. Len(s)
      /\ \A k \in DOMAIN s : s[k] \in EntryType
  <2>1. s \in Seq(EntryType)
    BY DEF Sane
  <2> QED BY <2>1, Entries
<1>2. ASSUME NEW k \in DOMAIN s
      PROVE  /\ t[k] \in EntryType /\ t[k].m = s[k].m /\ t[k].id = s[k].id
             /\ Known(t[k], table) /\ (t[k].state = "failed" => t[k].m \in Mine \cap sent)
  <2>1. Known(s[k], table) /\ (s[k].state = "failed" => s[k].m \in Mine \cap sent)
    BY DEF Sane
  <2>2. CASE Touches(e, s[k])
    <3> DEFINE y == Touched(e, s[k])
    <3>1. /\ y \in EntryType /\ y.m = s[k].m /\ y.id = s[k].id /\ Known(y, table)
          /\ y.state = "failed" => y.m \in Mine \cap sent
      BY <1>1, <2>1, <2>2, TouchedIs
    <3>2. t[k] = y
      BY <2>2
    <3> HIDE DEF y, t
    <3> QED BY <3>1, <3>2
  <2>3. CASE ~Touches(e, s[k])
    <3>1. t[k] = s[k]
      BY <2>3
    <3> HIDE DEF t
    <3> QED BY <3>1, <2>1, <1>1
  <2> QED BY <2>2, <2>3
<1>3. DOMAIN t = DOMAIN s
  OBVIOUS
<1>4. \A k \in DOMAIN s : t[k] = IF Touches(e, s[k]) THEN Touched(e, s[k]) ELSE s[k]
  OBVIOUS
<1>5. t = [k \in 1 .. Len(s) |-> t[k]]
  BY <1>1
<1> HIDE DEF t
<1>6. t \in Seq(EntryType)
  <2>1. \A k \in 1 .. Len(s) : t[k] \in EntryType
    BY <1>1, <1>2
  <2> QED BY <2>1, <1>1, <1>5, IsASeq
<1>7. Sane(t, table, sent)
  BY <1>2, <1>3, <1>6 DEF Sane
<1>8. Confirmed(t) = Confirmed(s)
  BY <1>2, <1>3 DEF Confirmed
<1>9. \A k \in Confirmed(s) : t[k].id = s[k].id
  BY <1>2 DEF Confirmed
<1>10. Ids(t) = Ids(s)
  BY <1>8, <1>9 DEF Ids
<1>11. Unconfirmed(t) = Unconfirmed(s)
  BY <1>2, <1>3 DEF Unconfirmed
<1>12. Ascending(s) => Ascending(t)
  BY <1>8, <1>9 DEF Ascending
<1>13. \A c, to : Within(s, c, to) => Within(t, c, to)
  BY <1>2, <1>3 DEF Within
<1> QED BY <1>2, <1>3, <1>4, <1>6, <1>7, <1>8, <1>10, <1>11, <1>12, <1>13 DEF t

(* The client takes the first event; the others move up. *)
LEMMA Takes ==
  ASSUME NEW s \in Seq(EventType), s # <<>>
  PROVE  /\ Head(s) = s[1] /\ 1 \in DOMAIN s /\ Head(s) \in EventType
         /\ DOMAIN s = 1 .. Len(s) /\ Len(s) \in Nat
         /\ Tail(s) \in Seq(EventType) /\ DOMAIN Tail(s) = 1 .. Len(s) - 1
         /\ \A k \in DOMAIN Tail(s) : k + 1 \in DOMAIN s /\ Tail(s)[k] = s[k + 1]
         /\ \A k \in DOMAIN s : k = 1 \/ (k - 1 \in DOMAIN Tail(s) /\ Tail(s)[k - 1] = s[k])
<1>1. /\ Head(s) \in EventType /\ Tail(s) \in Seq(EventType) /\ Len(Tail(s)) = Len(s) - 1
      /\ \A i \in 1 .. Len(Tail(s)) : Tail(s)[i] = s[i + 1]
  BY HeadTailProperties
<1>2. Len(s) \in Nat /\ DOMAIN s = 1 .. Len(s) /\ DOMAIN Tail(s) = 1 .. Len(Tail(s))
  BY <1>1, LenProperties
<1>3. Len(s) > 0
  BY <1>2, EmptySeq
<1> DEFINE t == Tail(s)
<1>4. Head(s) = s[1]
  OBVIOUS
<1> HIDE DEF t
<1>5. \A k \in 1 .. Len(s) - 1 : k + 1 \in 1 .. Len(s)
  BY <1>2
<1>6. \A k \in 1 .. Len(s) : k = 1 \/ (k - 1 \in 1 .. Len(s) - 1 /\ k = (k - 1) + 1)
  BY <1>2
<1>7. \A k \in 1 .. Len(s) : k = 1 \/ (k - 1 \in DOMAIN Tail(s) /\ Tail(s)[k - 1] = s[k])
  BY <1>1, <1>2, <1>6
<1> QED BY <1>1, <1>2, <1>3, <1>4, <1>5, <1>7

(* An event applied leaves messages one may show. *)
LEMMA AppliedIs ==
  ASSUME Base, NEW e \in EventType, EventOK(e, rows), Concerns(e) => e.m \in asked
  PROVE  Applied(e) \in Seq(EntryType) /\ Sane(Applied(e), rows, asked)
<1> DEFINE s == cache[of[e.m]]
<1> DEFINE x == [m |-> e.m, id |-> e.id, ver |-> e.ver, gone |-> FALSE, edited |-> FALSE, state |-> "sent"]
<1> DEFINE kept == Without(s, e.m, e.id)
<1>1. of[e.m] \in Conversations /\ s \in Seq(EntryType) /\ Sane(s, rows, asked)
  BY DEF Base, RowsOK, CacheOK, EventType
<1>2. 0 \notin DOMAIN rows
  BY RowsAre DEF Base
<1>3. CASE e.kind = "chat.message"
  <2>1. kept \in Seq(EntryType) /\ \E h : Part(kept, s, h)
    BY <1>1, WithoutPart
  <2>2. Sane(kept, rows, asked)
    BY <1>1, <2>1, PartKeeps
  <2>3. x \in EntryType /\ Known(x, rows) /\ x.state # "failed"
    <3>1. IsRow(rows, e.id, e.m)
      BY <1>3 DEF EventOK
    <3>2. e.id # 0
      BY <3>1, <1>2 DEF IsRow
    <3> QED BY <3>1, <3>2 DEF EventType, EntryType, Known
  <2>4. Applied(e) = Append(kept, x)
    BY <1>3 DEF Applied
  <2> HIDE DEF kept, x
  <2> QED BY <2>1, <2>2, <2>3, <2>4, AppendKeeps
<1>4. CASE e.kind # "chat.message"
  <2>1. Applied(e) = [k \in DOMAIN s |-> IF Touches(e, s[k]) THEN Touched(e, s[k]) ELSE s[k]]
    BY <1>4 DEF Applied
  <2>2. e.kind = "error" => e.m \in asked
    BY DEF Concerns, EventOK
  <2> HIDE DEF s
  <2> DEFINE t == [k \in DOMAIN s |-> IF Touches(e, s[k]) THEN Touched(e, s[k]) ELSE s[k]]
  <2>3. t \in Seq(EntryType) /\ Sane(t, rows, asked)
    BY <2>2, <1>1, <1>2, <1>4, Mapped
  <2> QED BY <2>1, <2>3
<1> QED BY <1>3, <1>4

LEMMA ReceiveBase ==
  ASSUME Base, Receive
  PROVE  Base'
<1> DEFINE e == Head(wire)
<1>1. /\ connected /\ wire # <<>> /\ wire' = Tail(wire)
      /\ \/ UNCHANGED <<cache, loaded, recency, fetch, older>>
         \/ /\ UpdateChat(of[e.m], Applied(e), {}) /\ fetch' = Crossed(fetch, of[e.m])
            /\ older' = IF older = None \/ older.conversation # of[e.m] THEN older
                        ELSE [older EXCEPT !.crossed = TRUE]
      /\ UNCHANGED <<of, rows, sends, announces, connected, view, asked>>
  BY DEF Receive, server
<1>2. /\ e = wire[1] /\ 1 \in DOMAIN wire /\ e \in EventType
      /\ Tail(wire) \in Seq(EventType)
      /\ \A k \in DOMAIN Tail(wire) : k + 1 \in DOMAIN wire /\ Tail(wire)[k] = wire[k + 1]
  BY <1>1, Takes DEF Base, WireOK
<1>3. EventOK(e, rows) /\ (Concerns(e) => e.m \in asked)
  BY <1>2 DEF Base, WireOK, AskedOK
<1>4. Applied(e) \in Seq(EntryType) /\ Sane(Applied(e), rows, asked)
  BY <1>2, <1>3, AppliedIs
<1> HIDE DEF e
<1>5. RowsOK' /\ Grows(rows, rows')
  BY <1>1, Stays
<1>6. CacheOK'
  <2>1. CASE UNCHANGED <<cache, loaded, recency>>
    BY <2>1, <1>1, <1>5, Keeps
  <2>2. CASE UpdateChat(of[e.m], Applied(e), {})
    <3>1. of[e.m] \in Conversations /\ view' \in Conversations /\ {} \in SUBSET Conversations
      BY <1>1, <1>2 DEF Base, RowsOK, CacheOK, EventType
    <3>2. Sane(Applied(e), rows', asked') /\ of' = of /\ asked \subseteq asked'
      BY <1>1, <1>4
    <3> QED BY <2>2, <3>1, <3>2, <1>4, <1>5, UpdatesBase
  <2> QED BY <2>1, <2>2, <1>1
<1>7. FetchOK'
  <2>1. CASE fetch' = fetch
    BY <2>1, <1>1, <1>5, Keeps
  <2>2. CASE fetch' = [fetch EXCEPT !.crossed = fetch.read] /\ fetch # None
    <3>1. FetchOK
      BY DEF Base
    <3>2. /\ fetch \in [conversation : Conversations, read : BOOLEAN, page : Seq(EntryType), crossed : BOOLEAN]
          /\ PageLike(fetch.page, fetch.conversation)
      BY <2>2, <3>1 DEF FetchOK
    <3>3. /\ fetch' \in [conversation : Conversations, read : BOOLEAN, page : Seq(EntryType), crossed : BOOLEAN]
          /\ fetch'.page = fetch.page /\ fetch'.conversation = fetch.conversation
      BY <2>2, <3>2
    <3>4. UNCHANGED <<of, rows, asked>>
      BY <1>1
    <3> QED BY <3>2, <3>3, <3>4 DEF FetchOK, PageLike
  <2> QED BY <2>1, <2>2, <1>1 DEF Crossed
<1>8. OlderOK'
  <2>1. CASE older' = older
    BY <2>1, <1>1, <1>5, Keeps
  <2>2. CASE older' = [older EXCEPT !.crossed = TRUE] /\ older # None
    <3>1. /\ older \in [conversation : Conversations, messages : Seq(EntryType), before : Nat,
                        read : BOOLEAN, page : Seq(EntryType), crossed : BOOLEAN, early : BOOLEAN]
      BY <2>2 DEF Base, OlderOK
    <3>2. /\ older' \in [conversation : Conversations, messages : Seq(EntryType), before : Nat,
                         read : BOOLEAN, page : Seq(EntryType), crossed : BOOLEAN, early : BOOLEAN]
          /\ older'.page = older.page /\ older'.conversation = older.conversation
          /\ older'.messages = older.messages /\ older'.before = older.before
          /\ older'.read = older.read
      BY <2>2, <3>1
    <3>3. UNCHANGED <<of, rows, asked>>
      BY <1>1
    <3> QED BY <2>2, <3>2, <3>3 DEF Base, OlderOK, PageLike, Before
  <2> QED BY <2>1, <2>2, <1>1
<1>9. WireOK'
  BY <1>1, <1>2 DEF Base, WireOK
<1>10. AskedOK' /\ SendsOK' /\ AnnouncesOK'
  BY <1>1, <1>2 DEF Base, AskedOK, SendsOK, AnnouncesOK, Stored, Concerns
<1> QED BY <1>5, <1>6, <1>7, <1>8, <1>9, <1>10 DEF Base
LEMMA OpenBase ==
  ASSUME Base, NEW c \in Conversations, Open(c)
  PROVE  Base'
<1>1. /\ view' = c /\ (fetch' = fetch \/ fetch' = None)
      /\ UNCHANGED <<of, rows, sends, announces, connected, wire, cache, loaded, recency, older, asked>>
  BY DEF Open, server, socket, history
<1>2. RowsOK' /\ Grows(rows, rows')
  BY <1>1, Stays
<1>3. CacheOK'
  BY <1>1 DEF Base, CacheOK
<1>4. FetchOK'
  BY <1>1, <1>2, Keeps DEF FetchOK
<1>5. SendsOK' /\ AskedOK'
  BY <1>1 DEF Base, SendsOK, AskedOK, Stored, Concerns
<1> QED BY <1>1, <1>2, <1>3, <1>4, <1>5, Keeps DEF Base

LEMMA FetchHistoryBase ==
  ASSUME Base, FetchHistory
  PROVE  Base'
<1>1. /\ fetch' = [conversation |-> view, read |-> FALSE, page |-> <<>>, crossed |-> FALSE]
      /\ UNCHANGED <<of, rows, sends, announces, connected, wire, view, cache, loaded, recency,
                     older, asked>>
  BY DEF FetchHistory, server, socket, history
<1>2. RowsOK' /\ Grows(rows, rows')
  BY <1>1, Stays
<1>3. FetchOK'
  <2>1. fetch'.page = <<>> /\ <<>> \in Seq(EntryType) /\ DOMAIN <<>> = {}
    BY <1>1, EmptySeq
  <2>2. PageLike(<<>>, view)'
    BY <2>1 DEF PageLike, Sane, Ascending, Within, AllSent, Confirmed
  <2> QED BY <1>1, <2>1, <2>2 DEF Base, CacheOK, FetchOK, PageLike
<1>4. SendsOK' /\ AskedOK'
  BY <1>1 DEF Base, SendsOK, AskedOK, Stored, Concerns
<1> QED BY <1>1, <1>2, <1>3, <1>4, Keeps DEF Base

LEMMA FetchReadBase ==
  ASSUME Base, FetchRead
  PROVE  Base'
<1> DEFINE p == Page(fetch.conversation, Len(rows) + 1)
<1>1. /\ fetch # None /\ fetch' = [fetch EXCEPT !.read = TRUE, !.page = p]
      /\ UNCHANGED <<of, rows, sends, announces, connected, wire, view, cache, loaded, recency,
                     older, asked>>
  BY DEF FetchRead, server, socket, history
<1>2. RowsOK' /\ Grows(rows, rows')
  BY <1>1, Stays
<1>3. p \in Seq(EntryType) /\ PageLike(p, fetch.conversation)
  <2>1. Len(rows) + 1 \in Nat
    BY RowsAre DEF Base
  <2> QED BY <2>1, PageIs DEF Base, PageLike
<1> HIDE DEF p
<1>4. FetchOK'
  <2>1. fetch \in [conversation : Conversations, read : BOOLEAN, page : Seq(EntryType),
                   crossed : BOOLEAN]
    BY <1>1 DEF Base, FetchOK
  <2>2. /\ fetch' \in [conversation : Conversations, read : BOOLEAN, page : Seq(EntryType),
                       crossed : BOOLEAN]
        /\ fetch'.page = p /\ fetch'.conversation = fetch.conversation
    BY <2>1, <1>1, <1>3
  <2>3. UNCHANGED <<of, rows, asked>>
    BY <1>1
  <2> QED BY <2>2, <2>3, <1>3 DEF FetchOK, PageLike
<1>5. SendsOK' /\ AskedOK'
  BY <1>1 DEF Base, SendsOK, AskedOK, Stored, Concerns
<1> QED BY <1>1, <1>2, <1>4, <1>5, Keeps DEF Base

LEMMA FetchDoneBase ==
  ASSUME Base, FetchDone
  PROVE  Base'
<1>1. /\ fetch # None /\ fetch' = None
      /\ UpdateChat(fetch.conversation, fetch.page, {fetch.conversation})
      /\ UNCHANGED <<of, rows, sends, announces, connected, wire, view, older, asked>>
  BY DEF FetchDone, server, socket
<1>2. RowsOK' /\ Grows(rows, rows')
  BY <1>1, Stays
<1>3. /\ fetch.conversation \in Conversations /\ fetch.page \in Seq(EntryType)
      /\ Sane(fetch.page, rows', asked') /\ asked \subseteq asked' /\ of' = of
      /\ {fetch.conversation} \in SUBSET Conversations /\ view' \in Conversations
  BY <1>1 DEF Base, FetchOK, PageLike, CacheOK
<1>4. CacheOK'
  BY <1>1, <1>2, <1>3, UpdatesBase
<1>5. FetchOK'
  BY <1>1 DEF FetchOK
<1>6. SendsOK' /\ AskedOK'
  BY <1>1 DEF Base, SendsOK, AskedOK, Stored, Concerns
<1> QED BY <1>1, <1>2, <1>4, <1>5, <1>6, Keeps DEF Base

(* The first of the confirmed messages. *)
LEMMA FirstIs ==
  ASSUME NEW s \in Seq(EntryType), Confirmed(s) # {}
  PROVE  LET first == CHOOSE i \in Confirmed(s) : \A j \in Confirmed(s) : i <= j
         IN  /\ first \in Confirmed(s) /\ \A j \in Confirmed(s) : first <= j
             /\ s[first].id \in Nat /\ s[first].id > 0
<1> DEFINE S == Confirmed(s)
<1>1. S \in SUBSET (1 .. Len(s)) /\ Len(s) \in Nat
  BY Entries DEF Confirmed
<1>2. \A i \in S : s[i].id \in Nat /\ s[i].id > 0
  BY Entries DEF Confirmed
<1>3. /\ Cardinality(S) \in Nat
      /\ \A k \in 1 .. Cardinality(S) : Nth(S, k) \in S
      /\ \A k, l \in 1 .. Cardinality(S) : k < l => Nth(S, k) < Nth(S, l)
      /\ \A i \in S : \E k \in 1 .. Cardinality(S) : Nth(S, k) = i
  BY <1>1, NthCounts
<1>4. S # {} /\ \A i \in S : i \in Nat
  BY <1>1
<1> HIDE DEF S
<1>5. PICK i \in S : TRUE
  BY <1>4
<1>6. PICK k \in 1 .. Cardinality(S) : Nth(S, k) = i
  BY <1>3
<1>7. 1 \in 1 .. Cardinality(S) /\ Nth(S, 1) \in S
  BY <1>3, <1>6
<1>8. \A j \in S : Nth(S, 1) <= j
  <2> SUFFICES ASSUME NEW j \in S
               PROVE  Nth(S, 1) <= j
    OBVIOUS
  <2>1. PICK l \in 1 .. Cardinality(S) : Nth(S, l) = j
    BY <1>3
  <2>2. l = 1 \/ 1 < l
    BY <2>1, <1>3
  <2>3. Nth(S, 1) \in Nat /\ j \in Nat
    BY <1>4, <1>7
  <2>4. CASE l = 1
    BY <2>1, <2>3, <2>4
  <2>5. CASE 1 < l
    BY <2>1, <2>3, <2>5, <1>3, <1>7
  <2> QED BY <2>2, <2>4, <2>5
<1>9. \E a \in S : \A j \in S : a <= j
  BY <1>7, <1>8
<1> QED BY <1>2, <1>9 DEF S

LEMMA LoadOlderBase ==
  ASSUME Base, LoadOlder
  PROVE  Base'
<1> DEFINE s == cache[view]
<1> DEFINE first == CHOOSE i \in Confirmed(s) : \A j \in Confirmed(s) : i <= j
<1>1. /\ Confirmed(s) # {}
      /\ older' = [conversation |-> view, messages |-> s, before |-> s[first].id,
                   read |-> FALSE, page |-> <<>>, crossed |-> FALSE, early |-> view \notin loaded]
      /\ UNCHANGED <<of, rows, sends, announces, connected, wire, view, cache, loaded, recency,
                     fetch, asked>>
  BY DEF LoadOlder, server, socket, history
<1>2. RowsOK' /\ Grows(rows, rows')
  BY <1>1, Stays
<1>3. view \in Conversations /\ s \in Seq(EntryType) /\ Sane(s, rows, asked)
  BY DEF Base, CacheOK
<1> HIDE DEF s
<1>4. /\ first \in Confirmed(s) /\ \A j \in Confirmed(s) : first <= j
      /\ s[first].id \in Nat /\ s[first].id > 0
  BY <1>1, <1>3, FirstIs
<1> HIDE DEF first
<1>5. Opens(s[first].id, s)
  BY <1>4 DEF Opens
<1>6. OlderOK'
  <2>1. <<>> \in Seq(EntryType) /\ DOMAIN <<>> = {}
    BY EmptySeq
  <2>2. older' \in [conversation : Conversations, messages : Seq(EntryType), before : Nat,
                    read : BOOLEAN, page : Seq(EntryType), crossed : BOOLEAN, early : BOOLEAN]
    BY <1>1, <1>3, <1>4, <2>1
  <2>3. /\ older'.page = <<>> /\ older'.messages = s /\ older'.before = s[first].id
        /\ older'.read = FALSE
    BY <1>1
  <2>4. Sane(<<>>, rows', asked') /\ Ascending(<<>>) /\ Within(<<>>, view, of') /\ AllSent(<<>>)
    BY <2>1 DEF Sane, Ascending, Within, AllSent, Confirmed
  <2>5. Ids(<<>>) = {}
    BY <2>1 DEF Ids, Confirmed
  <2>6. Sane(s, rows', asked') /\ older'.conversation = view
    BY <1>1, <1>3
  <2> QED BY <2>2, <2>3, <2>4, <2>5, <2>6, <1>5 DEF OlderOK, PageLike
<1>7. SendsOK' /\ AskedOK'
  BY <1>1 DEF Base, SendsOK, AskedOK, Stored, Concerns
<1> QED BY <1>1, <1>2, <1>6, <1>7, Keeps DEF Base

LEMMA OlderReadBase ==
  ASSUME Base, OlderRead
  PROVE  Base'
<1> DEFINE p == Page(older.conversation, older.before)
<1>1. /\ older # None /\ older' = [older EXCEPT !.read = TRUE, !.page = p]
      /\ UNCHANGED <<of, rows, sends, announces, connected, wire, view, cache, loaded, recency,
                     fetch, asked>>
  BY DEF OlderRead, server, socket, history
<1>2. RowsOK' /\ Grows(rows, rows')
  BY <1>1, Stays
<1>3. /\ older \in [conversation : Conversations, messages : Seq(EntryType), before : Nat,
                    read : BOOLEAN, page : Seq(EntryType), crossed : BOOLEAN, early : BOOLEAN]
      /\ Sane(older.messages, rows, asked) /\ Opens(older.before, older.messages)
  BY <1>1 DEF Base, OlderOK
<1>4. older.before \in Nat
  BY <1>3
<1>5. /\ p \in Seq(EntryType) /\ PageLike(p, older.conversation)
      /\ \A i \in Ids(p) : i < older.before
      /\ Whole(p, Before(older.conversation, older.before))
  BY <1>4, PageIs DEF Base, PageLike, Before
<1> HIDE DEF p
<1>6. /\ older' \in [conversation : Conversations, messages : Seq(EntryType), before : Nat,
                     read : BOOLEAN, page : Seq(EntryType), crossed : BOOLEAN, early : BOOLEAN]
      /\ older'.page = p /\ older'.messages = older.messages /\ older'.before = older.before
      /\ older'.conversation = older.conversation
  BY <1>1, <1>3, <1>5
<1>7. OlderOK'
  <2>1. UNCHANGED <<of, rows, asked>>
    BY <1>1
  <2> QED BY <2>1, <1>3, <1>5, <1>6 DEF OlderOK, PageLike, Before
<1>8. SendsOK' /\ AskedOK'
  BY <1>1 DEF Base, SendsOK, AskedOK, Stored, Concerns
<1> QED BY <1>1, <1>2, <1>7, <1>8, Keeps DEF Base

LEMMA OlderDoneBase ==
  ASSUME Base, OlderDone
  PROVE  Base'
<1> DEFINE t == older.page \o older.messages
<1>1. /\ older # None /\ older' = None /\ fetch' = None /\ UpdateChat(view, t, {view})
      /\ UNCHANGED <<of, rows, sends, announces, connected, wire, view, asked>>
  BY DEF OlderDone, server, socket
<1>2. RowsOK' /\ Grows(rows, rows')
  BY <1>1, Stays
<1>3. /\ older.page \in Seq(EntryType) /\ older.messages \in Seq(EntryType)
      /\ Sane(older.page, rows, asked) /\ Sane(older.messages, rows, asked)
  BY <1>1 DEF Base, OlderOK, PageLike
<1>4. t \in Seq(EntryType) /\ Sane(t, rows, asked)
  BY <1>3, JoinKeeps
<1> HIDE DEF t
<1>5. /\ Sane(t, rows', asked') /\ asked \subseteq asked' /\ of' = of
      /\ view \in Conversations /\ {view} \in SUBSET Conversations /\ view' \in Conversations
  BY <1>1, <1>4 DEF Base, CacheOK
<1>6. CacheOK'
  <2>1. UpdateChat(view, t, {view})
    BY <1>1
  <2> QED BY <2>1, <1>2, <1>4, <1>5, UpdatesBase
<1>7. FetchOK' /\ OlderOK'
  BY <1>1 DEF FetchOK, OlderOK
<1>8. SendsOK' /\ AskedOK'
  BY <1>1 DEF Base, SendsOK, AskedOK, Stored, Concerns
<1> QED BY <1>1, <1>2, <1>6, <1>7, <1>8, Keeps DEF Base

LEMMA InitBase ==
  ASSUME Init
  PROVE  Base
<1>1. /\ <<>> \in Seq(RowType) /\ <<>> \in Seq(EventType) /\ <<>> \in Seq(EntryType)
      /\ <<>> \in Seq(Conversations)
  BY EmptySeq
<1>2. DOMAIN <<>> = {}
  OBVIOUS
<1>3. RowsOK /\ AnnouncesOK /\ WireOK
  BY <1>1, <1>2 DEF Init, RowsOK, AnnouncesOK, WireOK
<1>4. SendsOK /\ AskedOK
  BY <1>2, MineAreMessages DEF Init, SendsOK, SendType, Idle, AskedOK, Stored
<1>5. CacheOK
  BY <1>1, <1>2 DEF Init, CacheOK, Sane
<1>6. FetchOK /\ OlderOK
  BY DEF Init, FetchOK, OlderOK
<1> QED BY <1>3, <1>4, <1>5, <1>6 DEF Base

LEMMA NextBase ==
  ASSUME Base, [Next]_vars
  PROVE  Base'
<1>1. CASE Next
  <2>1. ASSUME NEW m \in Messages,
               SendChat(m) \/ OthersSend(m) \/ Refuse(m) \/ Store(m) \/ StoreLost(m) \/ Answer(m)
        PROVE  Base'
    BY <2>1, SendChatBase, OthersSendBase, RefuseBase, StoreBase, StoreLostBase, AnswerBase
  <2>2. ASSUME NEW i \in 1 .. Len(rows), EditMessage(i) \/ DeleteMessage(i)
        PROVE  Base'
    <3>1. i \in DOMAIN rows /\ rows[i].ver \in Nat /\ rows[i].ver + 1 \in Nat
      BY <2>2, RowsAre DEF Base, EditMessage, DeleteMessage
    <3>2. Change(i, rows[i].ver + 1, FALSE) \/ Change(i, rows[i].ver, TRUE)
      BY <2>2 DEF EditMessage, DeleteMessage
    <3>3. FALSE \in BOOLEAN /\ TRUE \in BOOLEAN
      OBVIOUS
    <3> QED BY <3>1, <3>2, <3>3, ChangeBase
  <2>3. ASSUME NEW a \in announces, AnnounceChatUpdate(a)
        PROVE  Base'
    BY <2>3, AnnounceBase
  <2>4. ASSUME NEW lost \in SUBSET Mine, Lose(lost)
        PROVE  Base'
    BY <2>4, LoseBase
  <2>5. ASSUME NEW c \in Conversations, Open(c)
        PROVE  Base'
    BY <2>5, OpenBase
  <2> QED
    BY <1>1, <2>1, <2>2, <2>3, <2>4, <2>5, ReconnectBase, ReceiveBase, FetchHistoryBase,
       FetchReadBase, FetchDoneBase, LoadOlderBase, OlderReadBase, OlderDoneBase DEF Next
<1>2. CASE UNCHANGED vars
  <2>1. UNCHANGED <<of, rows, sends, announces, connected, wire, view, cache, loaded, recency,
                    fetch, older, asked>>
    BY <1>2 DEF vars, server, socket, client, history
  <2>2. RowsOK' /\ Grows(rows, rows')
    BY <2>1, Stays
  <2>3. SendsOK' /\ AskedOK'
    BY <2>1 DEF Base, SendsOK, AskedOK, Stored, Concerns
  <2> QED BY <2>1, <2>2, <2>3, Keeps DEF Base
<1> QED BY <1>1, <1>2
-----------------------------------------------------------------------------
(***************************************************************************)
(* What a message's sender is told.  As long as no older page is mixed with  *)
(* newer messages, an attempt has one word on its way to the client at most,  *)
(* what was said is true, and what was asked is remembered.                  *)
(***************************************************************************)
Heard(m) == \E k \in DOMAIN wire : Concerns(wire[k]) /\ wire[k].m = m
Erred(m) == \E k \in DOMAIN wire : wire[k].kind = "error" /\ wire[k].m = m

InPlace == /\ \A c \in Conversations : Within(cache[c], c, of)
           /\ older # None => Within(older.messages, older.conversation, of)

OneWord == \A m \in Mine :
  /\ sends[m] # Idle => ~Heard(m) /\ ~Failed(m)
  /\ Heard(m) => ~Failed(m)
  /\ \A k, l \in DOMAIN wire :
       Concerns(wire[k]) /\ wire[k].m = m /\ Concerns(wire[l]) /\ wire[l].m = m => k = l

Truthful == \A m \in Messages :
  /\ Stored(m) /\ (sends[m].at = "sent" \/ Erred(m) \/ Failed(m)) => m \in unsure \cap Mine
  /\ sends[m].at = "read" /\ sends[m].gone => m \in unsure

Remembered == \A m \in asked :
  \/ Stored(m) \/ Failed(m) \/ m \in unheard \cup forgotten
  \/ (sends[m].at = "sent" \/ Erred(m)) /\ m \in Unconfirmed(cache[of[m]])

Awaited == \A c \in Conversations : \A k \in DOMAIN cache[c] :
  LET e == cache[c][k]
  IN e.id = 0 /\ e.state = "sending" => e.m \in unheard \/ sends[e.m] # Idle \/ Heard(e.m)

Attempts == InPlace /\ OneWord /\ Truthful /\ Remembered /\ Awaited

(* No step forgets why the cache may differ from D1. *)
LEMMA ExcusesGrow ==
  ASSUME [Next]_vars
  PROVE  excuses \subseteq excuses'
<1>1. ASSUME NEW m \in Messages, Fail(m)
      PROVE  excuses \subseteq excuses'
  BY <1>1 DEF Fail, Deliver
<1>2. ASSUME NEW m \in Messages,
             SendChat(m) \/ OthersSend(m) \/ Refuse(m) \/ Store(m) \/ StoreLost(m) \/ Answer(m)
      PROVE  excuses \subseteq excuses'
  <2>1. CASE SendChat(m)
    BY <2>1 DEF SendChat
  <2>2. CASE OthersSend(m) \/ Store(m)
    BY <2>2 DEF OthersSend, Store, history
  <2>3. CASE Refuse(m) \/ StoreLost(m)
    BY <2>3, <1>1 DEF Refuse, StoreLost
  <2>4. CASE Answer(m)
    <3>1. ASSUME NEW e, Deliver(e, announces)
          PROVE  excuses \subseteq excuses'
      BY <3>1 DEF Deliver
    <3> QED BY <2>4, <3>1, <1>1 DEF Answer
  <2> QED BY <1>2, <2>1, <2>2, <2>3, <2>4
<1>3. ASSUME NEW i \in 1 .. Len(rows), EditMessage(i) \/ DeleteMessage(i)
      PROVE  excuses \subseteq excuses'
  BY <1>3 DEF EditMessage, DeleteMessage, Change, history
<1>4. ASSUME NEW a \in announces, AnnounceChatUpdate(a)
      PROVE  excuses \subseteq excuses'
  <2>1. ASSUME NEW e, NEW pending, Deliver(e, pending)
        PROVE  excuses \subseteq excuses'
    BY <2>1 DEF Deliver
  <2> QED BY <1>4, <2>1 DEF AnnounceChatUpdate
<1>5. ASSUME NEW lost \in SUBSET Mine, Lose(lost)
      PROVE  excuses \subseteq excuses'
  BY <1>5 DEF Lose
<1>6. ASSUME NEW c \in Conversations, Open(c)
      PROVE  excuses \subseteq excuses'
  BY <1>6 DEF Open, history
<1>7. CASE Receive
  BY <1>7 DEF Receive
<1>8. CASE FetchDone
  BY <1>8 DEF FetchDone
<1>9. CASE OlderDone
  BY <1>9 DEF OlderDone
<1>10. CASE Reconnect \/ FetchHistory \/ FetchRead \/ LoadOlder \/ OlderRead
  BY <1>10 DEF Reconnect, FetchHistory, FetchRead, LoadOlder, OlderRead, history
<1>11. CASE UNCHANGED vars
  BY <1>11 DEF vars, history
<1> QED
  BY <1>2, <1>3, <1>4, <1>5, <1>6, <1>7, <1>8, <1>9, <1>10, <1>11 DEF Next

(* A step that neither shows, sends nor delivers anything.                    *)
LEMMA AttemptsStay ==
  ASSUME Base, Attempts,
         UNCHANGED <<of, sends, wire, cache, asked, unsure, unheard, forgotten>>,
         \A m : Stored(m)' <=> Stored(m),
         older' # None => Within(older'.messages, older'.conversation, of)
  PROVE  Attempts'
<1>1. \A m : (Heard(m)' <=> Heard(m)) /\ (Erred(m)' <=> Erred(m)) /\ (Failed(m)' <=> Failed(m))
  BY DEF Heard, Erred, Failed, Concerns
<1>2. InPlace'
  BY DEF Attempts, InPlace
<1>3. OneWord'
  BY <1>1 DEF Attempts, OneWord, Concerns
<1>4. Truthful'
  BY <1>1 DEF Attempts, Truthful
<1>5. Remembered'
  BY <1>1 DEF Attempts, Remembered
<1>6. Awaited'
  BY <1>1 DEF Attempts, Awaited
<1> QED BY <1>2, <1>3, <1>4, <1>5, <1>6 DEF Attempts

(* Who has heard what after an event is delivered. *)
LEMMA DeliversHeard ==
  ASSUME WireOK, RowsOK, Grows(rows, rows'), connected' = connected,
         NEW e \in EventType, EventOK(e, rows'), NEW pending, Deliver(e, pending)
  PROVE  /\ \A n : Heard(n)' <=> Heard(n) \/ (connected /\ Concerns(e) /\ e.m = n)
         /\ \A n : Erred(n)' <=> Erred(n) \/ (connected /\ e.kind = "error" /\ e.m = n)
         /\ \A n : (Concerns(e) /\ e.m = n => ~Heard(n)) =>
              ((\A k, l \in DOMAIN wire :
                  Concerns(wire[k]) /\ wire[k].m = n /\ Concerns(wire[l]) /\ wire[l].m = n => k = l)
               => (\A k, l \in DOMAIN wire' :
                  Concerns(wire'[k]) /\ wire'[k].m = n /\ Concerns(wire'[l]) /\ wire'[l].m = n => k = l))
         /\ unheard' = unheard \cup (IF connected \/ ~Concerns(e) THEN {} ELSE {e.m})
<1>1. IF connected
      THEN /\ Len(wire) \in Nat /\ DOMAIN wire = 1 .. Len(wire)
           /\ DOMAIN wire' = 1 .. Len(wire) + 1
           /\ wire'[Len(wire) + 1] = e
           /\ \A k \in DOMAIN wire : wire'[k] = wire[k]
           /\ \A k \in DOMAIN wire' : k \in DOMAIN wire \/ k = Len(wire) + 1
      ELSE wire = <<>> /\ wire' = <<>>
  BY Delivers
<1>2. unheard' = unheard \cup (IF connected \/ ~Concerns(e) THEN {} ELSE {e.m})
  BY DEF Deliver
<1>3. CASE connected
  <2>1. /\ Len(wire) + 1 \in DOMAIN wire' /\ Len(wire) + 1 \notin DOMAIN wire
        /\ \A k \in DOMAIN wire : k \in DOMAIN wire'
    BY <1>1, <1>3
  <2>2. /\ wire'[Len(wire) + 1] = e
        /\ \A k \in DOMAIN wire : wire'[k] = wire[k]
        /\ \A k \in DOMAIN wire' : k \in DOMAIN wire \/ k = Len(wire) + 1
    BY <1>1, <1>3
  <2>3. \A n : Heard(n)' <=> Heard(n) \/ (Concerns(e) /\ e.m = n)
    BY <2>1, <2>2 DEF Heard, Concerns
  <2>4. \A n : Erred(n)' <=> Erred(n) \/ (e.kind = "error" /\ e.m = n)
    BY <2>1, <2>2 DEF Erred
  <2>5. ASSUME NEW n, Concerns(e) /\ e.m = n => ~Heard(n),
               \A k, l \in DOMAIN wire :
                 Concerns(wire[k]) /\ wire[k].m = n /\ Concerns(wire[l]) /\ wire[l].m = n => k = l,
               NEW k \in DOMAIN wire', NEW l \in DOMAIN wire',
               Concerns(wire'[k]), wire'[k].m = n, Concerns(wire'[l]), wire'[l].m = n
        PROVE  k = l
    BY <2>1, <2>2, <2>5 DEF Heard
  <2> QED BY <2>3, <2>4, <2>5, <1>2, <1>3
<1>4. CASE ~connected
  <2>1. DOMAIN wire = {} /\ DOMAIN wire' = {}
    BY <1>1, <1>4
  <2> QED BY <2>1, <1>2, <1>4 DEF Heard, Erred
<1> QED BY <1>3, <1>4

(* An attempt ends: the client is told of an error, or of the message.        *)
LEMMA EndsAttempts ==
  ASSUME Base, Attempts, NEW m \in Messages, sends[m] # Idle,
         sends' = [sends EXCEPT ![m] = Idle],
         UNCHANGED <<of, cache, older, asked, forgotten, connected>>, unsure \subseteq unsure',
         Grows(rows, rows'), \A n : n # m => (Stored(n)' <=> Stored(n)), Stored(m) => Stored(m)',
         NEW e \in EventType, EventOK(e, rows'), NEW pending, e.m = m,
         e.kind \in {"chat.message", "error"},
         Deliver(e, pending) \/ (m \notin Mine /\ UNCHANGED <<wire, unheard>>),
         IF e.kind = "error" THEN Stored(m)' /\ m \in Mine => m \in unsure' ELSE Stored(m)'
  PROVE  Attempts'
<1>1. /\ \A n : Heard(n)' <=> Heard(n) \/ (connected /\ m \in Mine /\ m = n)
      /\ \A n : Erred(n)' <=> Erred(n) \/ (connected /\ m \in Mine /\ e.kind = "error" /\ m = n)
      /\ \A n : (m \in Mine /\ m = n => ~Heard(n)) =>
              ((\A k, l \in DOMAIN wire :
                  Concerns(wire[k]) /\ wire[k].m = n /\ Concerns(wire[l]) /\ wire[l].m = n => k = l)
               => (\A k, l \in DOMAIN wire' :
                  Concerns(wire'[k]) /\ wire'[k].m = n /\ Concerns(wire'[l]) /\ wire'[l].m = n => k = l))
      /\ unheard' = unheard \cup (IF connected \/ m \notin Mine THEN {} ELSE {m})
  <2>1. CASE Deliver(e, pending)
    <3>1. Concerns(e) <=> m \in Mine
      BY DEF Concerns
    <3>2. e.kind = "error" => m \in Mine
      BY DEF EventOK
    <3>3. WireOK /\ RowsOK
      BY DEF Base
    <3>4. /\ \A n : Heard(n)' <=> Heard(n) \/ (connected /\ Concerns(e) /\ e.m = n)
          /\ \A n : Erred(n)' <=> Erred(n) \/ (connected /\ e.kind = "error" /\ e.m = n)
          /\ \A n : (Concerns(e) /\ e.m = n => ~Heard(n)) =>
              ((\A k, l \in DOMAIN wire :
                  Concerns(wire[k]) /\ wire[k].m = n /\ Concerns(wire[l]) /\ wire[l].m = n => k = l)
               => (\A k, l \in DOMAIN wire' :
                  Concerns(wire'[k]) /\ wire'[k].m = n /\ Concerns(wire'[l]) /\ wire'[l].m = n => k = l))
          /\ unheard' = unheard \cup (IF connected \/ ~Concerns(e) THEN {} ELSE {e.m})
      BY <2>1, <3>3, DeliversHeard
    <3> QED BY <3>1, <3>2, <3>4
  <2>2. CASE m \notin Mine /\ UNCHANGED <<wire, unheard>>
    BY <2>2 DEF Heard, Erred, Concerns
  <2> QED BY <2>1, <2>2
<1>2. \A n : Failed(n)' <=> Failed(n)
  BY DEF Failed
<1>3. \A n \in Messages : sends'[n] = IF n = m THEN Idle ELSE sends[n]
  BY DEF Base, SendsOK
<1>4. /\ m \in Mine => ~Heard(m) /\ ~Failed(m)
      /\ \A n : Erred(n) => n \in Mine /\ Heard(n)
      /\ \A n : Failed(n) => n \in Mine
  <2>1. m \in Mine => ~Heard(m) /\ ~Failed(m)
    BY DEF Attempts, OneWord
  <2>2. \A n : Erred(n) => n \in Mine /\ Heard(n)
    BY DEF Base, WireOK, EventOK, Erred, Heard, Concerns
  <2>3. \A n : Failed(n) => n \in Mine
    BY DEF Base, CacheOK, Sane, Failed
  <2> QED BY <2>1, <2>2, <2>3
<1>5. InPlace'
  BY DEF Attempts, InPlace
<1>6. OneWord'
  <2> SUFFICES ASSUME NEW n \in Mine
               PROVE  /\ sends'[n] # Idle => ~Heard(n)' /\ ~Failed(n)'
                      /\ Heard(n)' => ~Failed(n)'
                      /\ \A k, l \in DOMAIN wire' :
                           Concerns(wire'[k]) /\ wire'[k].m = n /\ Concerns(wire'[l]) /\ wire'[l].m = n
                             => k = l
    BY DEF OneWord, Concerns
  <2>1. n \in Messages
    BY MineAreMessages
  <2>2. /\ sends[n] # Idle => ~Heard(n) /\ ~Failed(n)
        /\ Heard(n) => ~Failed(n)
        /\ \A k, l \in DOMAIN wire :
             Concerns(wire[k]) /\ wire[k].m = n /\ Concerns(wire[l]) /\ wire[l].m = n => k = l
    BY DEF Attempts, OneWord
  <2> QED BY <2>1, <2>2, <1>1, <1>2, <1>3, <1>4
<1>7. Truthful'
  <2> SUFFICES ASSUME NEW n \in Messages
               PROVE  /\ Stored(n)' /\ (sends'[n].at = "sent" \/ Erred(n)' \/ Failed(n)')
                           => n \in unsure' \cap Mine
                      /\ sends'[n].at = "read" /\ sends'[n].gone => n \in unsure'
    BY DEF Truthful
  <2>1. CASE n = m
    BY <2>1, <1>1, <1>2, <1>3, <1>4 DEF Idle
  <2>2. CASE n # m
    BY <2>2, <1>1, <1>2, <1>3 DEF Attempts, Truthful
  <2> QED BY <2>1, <2>2
<1>8. Remembered'
  <2> SUFFICES ASSUME NEW n \in asked
               PROVE  \/ Stored(n)' \/ Failed(n)' \/ n \in unheard' \cup forgotten'
                      \/ (sends'[n].at = "sent" \/ Erred(n)') /\ n \in Unconfirmed(cache'[of'[n]])
    BY DEF Remembered
  <2>1. n \in Mine /\ n \in Messages
    BY MineAreMessages DEF Base, AskedOK
  <2>2. \/ Stored(n) \/ Failed(n) \/ n \in unheard \cup forgotten
        \/ (sends[n].at = "sent" \/ Erred(n)) /\ n \in Unconfirmed(cache[of[n]])
    BY DEF Attempts, Remembered
  <2>3. CASE n = m
    <3>1. CASE connected
      BY <3>1, <2>1, <2>2, <2>3, <1>1, <1>4
    <3>2. CASE ~connected
      BY <3>2, <2>1, <2>3, <1>1
    <3> QED BY <3>1, <3>2
  <2>4. CASE n # m
    BY <2>1, <2>2, <2>4, <1>1, <1>2, <1>3
  <2> QED BY <2>3, <2>4
<1>9. Awaited'
  <2> SUFFICES ASSUME NEW c \in Conversations, NEW k \in DOMAIN cache[c],
                      cache[c][k].id = 0, cache[c][k].state = "sending"
               PROVE  LET n == cache[c][k].m
                      IN n \in unheard' \/ sends'[n] # Idle \/ Heard(n)'
    BY DEF Awaited
  <2> DEFINE n == cache[c][k].m
  <2>1. n \in Mine /\ n \in Messages
    BY MineAreMessages DEF Base, CacheOK, Sane, Known
  <2>2. n \in unheard \/ sends[n] # Idle \/ Heard(n)
    BY DEF Attempts, Awaited
  <2> HIDE DEF n
  <2> QED BY <2>1, <2>2, <1>1, <1>3 DEF n
<1> QED BY <1>5, <1>6, <1>7, <1>8, <1>9 DEF Attempts
LEMMA FailEnds ==
  ASSUME Base, Attempts, NEW m \in Messages, sends[m] # Idle,
         sends' = [sends EXCEPT ![m] = Idle], Fail(m),
         UNCHANGED <<of, cache, older, asked, forgotten, connected>>, unsure \subseteq unsure',
         Grows(rows, rows'), \A n : n # m => (Stored(n)' <=> Stored(n)), Stored(m) => Stored(m)',
         Stored(m)' /\ m \in Mine => m \in unsure'
  PROVE  Attempts'
<1> DEFINE e == Event("error", m, Idle)
<1> DEFINE other == [kind |-> "error", m |-> m, id |-> 0, ver |-> 0, gone |-> FALSE, edited |-> FALSE]
<1>1. e \in EventType /\ e.m = m /\ e.kind = "error"
  BY DEF Event, Idle, EventType
<1>2. CASE m \in Mine
  <2>1. Deliver(e, announces)
    BY <1>2 DEF Fail
  <2>2. EventOK(e, rows')
    BY <1>1, <1>2 DEF EventOK
  <2> HIDE DEF e
  <2>3. e.kind \in {"chat.message", "error"}
    BY <1>1
  <2> QED BY <2>1, <2>2, <2>3, <1>1, EndsAttempts
<1>3. CASE m \notin Mine
  <2>1. UNCHANGED <<wire, unheard>>
    BY <1>3 DEF Fail
  <2>2. \A n \in Messages : sends'[n] = IF n = m THEN Idle ELSE sends[n]
    BY DEF Base, SendsOK
  <2>3. \A n : (Heard(n)' <=> Heard(n)) /\ (Erred(n)' <=> Erred(n)) /\ (Failed(n)' <=> Failed(n))
    BY <2>1 DEF Heard, Erred, Failed, Concerns
  <2>4. InPlace'
    BY DEF Attempts, InPlace
  <2>5. OneWord'
    BY <1>3, <2>1, <2>2, <2>3, MineAreMessages DEF Attempts, OneWord, Concerns
  <2>6. Truthful'
    <3>1. ~Erred(m) /\ ~Failed(m)
      <4>1. \A n : Erred(n) => n \in Mine
        BY DEF Base, WireOK, EventOK, Erred
      <4>2. \A n : Failed(n) => n \in Mine
        BY DEF Base, CacheOK, Sane, Failed
      <4> QED BY <4>1, <4>2, <1>3
    <3>2. ASSUME NEW n \in Messages
          PROVE  /\ Stored(n)' /\ (sends'[n].at = "sent" \/ Erred(n)' \/ Failed(n)')
                      => n \in unsure' \cap Mine
                 /\ sends'[n].at = "read" /\ sends'[n].gone => n \in unsure'
      BY <2>2, <2>3, <3>1 DEF Attempts, Truthful, Idle
    <3> QED BY <3>2 DEF Truthful
  <2>7. Remembered'
    <3>1. \A n \in asked : n \in Messages /\ n # m
      BY <1>3, MineAreMessages DEF Base, AskedOK
    <3> QED BY <2>1, <2>2, <2>3, <3>1 DEF Attempts, Remembered
  <2>8. Awaited'
    <3>1. \A c \in Conversations : \A k \in DOMAIN cache[c] :
            cache[c][k].id = 0 => cache[c][k].m \in Mine /\ cache[c][k].m \in Messages
      BY MineAreMessages DEF Base, CacheOK, Sane, Known
    <3>2. \A n \in Mine : sends'[n] = sends[n]
      BY <1>3, <2>2, MineAreMessages
    <3> QED BY <2>1, <2>3, <3>1, <3>2 DEF Attempts, Awaited
  <2> QED BY <2>4, <2>5, <2>6, <2>7, <2>8 DEF Attempts
<1> QED BY <1>2, <1>3

LEMMA RefuseAttempts ==
  ASSUME Base, Attempts, NEW m \in Messages, Refuse(m)
  PROVE  Attempts'
<1>1. /\ sends[m].at = "sent" /\ sends' = [sends EXCEPT ![m] = Idle] /\ Fail(m)
      /\ UNCHANGED <<of, rows, connected, cache, older, unsure, forgotten, asked>>
  BY DEF Refuse, client
<1>2. Grows(rows, rows')
  BY <1>1, Stays
<1>3. \A n : Stored(n)' <=> Stored(n)
  BY <1>1 DEF Stored
<1>4. Stored(m) => m \in unsure
  BY <1>1 DEF Attempts, Truthful
<1>5. sends[m] # Idle
  BY <1>1 DEF Idle
<1> QED BY <1>1, <1>2, <1>3, <1>4, <1>5, FailEnds

LEMMA StoreLostAttempts ==
  ASSUME Base, Attempts, NEW m \in Messages, StoreLost(m)
  PROVE  Attempts'
<1>1. /\ sends[m].at = "sent" /\ rows' = Inserted(m) /\ sends' = [sends EXCEPT ![m] = Idle]
      /\ Fail(m) /\ unsure' = unsure \cup {m}
      /\ UNCHANGED <<of, connected, cache, older, forgotten, asked>>
  BY DEF StoreLost, client
<1>2. /\ Grows(rows, rows') /\ IsRow(rows', IdOf(m, rows'), m)
      /\ \A i \in DOMAIN rows : i \in DOMAIN rows' /\ rows'[i] = rows[i]
      /\ \A i \in DOMAIN rows' : i \in DOMAIN rows \/ (rows'[i].m = m /\ ~Stored(m))
  BY <1>1, Inserts DEF Base
<1>3. \A n : n # m => (Stored(n)' <=> Stored(n))
  BY <1>2 DEF Stored
<1>4. Stored(m)'
  BY <1>2 DEF Stored, IsRow
<1>5. sends[m] # Idle
  BY <1>1 DEF Idle
<1>6. unsure \subseteq unsure' /\ m \in unsure'
  BY <1>1
<1> QED BY <1>1, <1>2, <1>3, <1>4, <1>5, <1>6, FailEnds

LEMMA AnswerAttempts ==
  ASSUME Base, Attempts, NEW m \in Messages, Answer(m)
  PROVE  Attempts'
<1> DEFINE e == Event("chat.message", m, sends[m])
<1>1. /\ sends[m].at = "read" /\ sends' = [sends EXCEPT ![m] = Idle]
      /\ IF sends[m].gone THEN Fail(m) ELSE Deliver(e, announces)
      /\ UNCHANGED <<of, rows, connected, cache, older, unsure, forgotten, asked>>
  BY DEF Answer, client
<1>2. Grows(rows, rows')
  BY <1>1, Stays
<1>3. \A n : Stored(n)' <=> Stored(n)
  BY <1>1 DEF Stored
<1>4. sends[m] # Idle
  BY <1>1 DEF Idle
<1>5. CASE sends[m].gone
  <2>1. m \in unsure
    BY <1>1, <1>5 DEF Attempts, Truthful
  <2> QED BY <1>1, <1>2, <1>3, <1>4, <1>5, <2>1, FailEnds
<1>6. CASE ~sends[m].gone
  <2>1. sends[m] \in SendType /\ IsRow(rows, sends[m].id, m)
    BY <1>1 DEF Base, SendsOK
  <2>2. /\ e \in EventType /\ e.kind = "chat.message" /\ e.m = m /\ e.id = sends[m].id
        /\ e.gone = FALSE /\ e.edited = FALSE
    BY <1>6, <2>1 DEF Event, SendType, EventType
  <2>3. Deliver(e, announces)
    BY <1>1, <1>6
  <2> HIDE DEF e
  <2>4. EventOK(e, rows')
    BY <2>1, <2>2, <1>1 DEF EventOK
  <2>5. Stored(m)'
    BY <2>1, <1>1 DEF Stored, IsRow
  <2>6. /\ e.kind \in {"chat.message", "error"} /\ e.kind # "error"
        /\ UNCHANGED <<of, cache, older, asked, forgotten, connected>> /\ unsure \subseteq unsure'
        /\ sends' = [sends EXCEPT ![m] = Idle]
    BY <2>2, <1>1
  <2> QED BY <2>2, <2>3, <2>4, <2>5, <2>6, <1>2, <1>3, <1>4, EndsAttempts
<1> QED BY <1>5, <1>6

LEMMA StoreAttempts ==
  ASSUME Base, Attempts, NEW m \in Messages, Store(m)
  PROVE  Attempts'
<1> DEFINE i == IdOf(m, rows')
<1>1. /\ sends[m].at = "sent" /\ rows' = Inserted(m)
      /\ sends' = [sends EXCEPT ![m] = [at |-> "read", id |-> i, ver |-> rows'[i].ver,
                                        gone |-> rows'[i].gone]]
      /\ UNCHANGED <<of, wire, cache, older, asked, unsure, unheard, forgotten>>
  BY DEF Store, socket, client, history
<1>2. /\ IsRow(rows', i, m) /\ (~Stored(m) => ~rows'[i].gone)
      /\ \A j \in DOMAIN rows : j \in DOMAIN rows' /\ rows'[j] = rows[j]
      /\ \A j \in DOMAIN rows' : j \in DOMAIN rows \/ rows'[j].m = m
  BY <1>1, Inserts DEF Base
<1> HIDE DEF i
<1>3. /\ \A n : n # m => (Stored(n)' <=> Stored(n))
      /\ Stored(m)'
  BY <1>2 DEF Stored, IsRow
<1>4. /\ \A n \in Messages : n # m => sends'[n] = sends[n]
      /\ sends'[m].at = "read" /\ sends'[m].gone = rows'[i].gone
  BY <1>1 DEF Base, SendsOK
<1>5. sends[m] # Idle /\ sends'[m] # Idle
  BY <1>1, <1>4 DEF Idle
<1>6. \A n : (Heard(n)' <=> Heard(n)) /\ (Erred(n)' <=> Erred(n)) /\ (Failed(n)' <=> Failed(n))
  BY <1>1 DEF Heard, Erred, Failed, Concerns
<1>7. ~Erred(m) /\ ~Failed(m)
  <2>1. \A n : Erred(n) => n \in Mine /\ Heard(n)
    BY DEF Base, WireOK, EventOK, Erred, Heard, Concerns
  <2>2. \A n : Failed(n) => n \in Mine
    BY DEF Base, CacheOK, Sane, Failed
  <2>3. m \in Mine => ~Heard(m) /\ ~Failed(m)
    BY <1>5 DEF Attempts, OneWord
  <2> QED BY <2>1, <2>2, <2>3
<1>8. InPlace'
  BY <1>1 DEF Attempts, InPlace
<1>9. OneWord'
  <2>1. \A n \in Mine : n \in Messages
    BY MineAreMessages
  <2>2. \A n \in Mine : sends'[n] # Idle => sends[n] # Idle
    BY <2>1, <1>4, <1>5
  <2> QED BY <2>2, <1>1, <1>6 DEF Attempts, OneWord, Concerns
<1>10. Truthful'
  <2> SUFFICES ASSUME NEW n \in Messages
               PROVE  /\ Stored(n)' /\ (sends'[n].at = "sent" \/ Erred(n)' \/ Failed(n)')
                           => n \in unsure' \cap Mine
                      /\ sends'[n].at = "read" /\ sends'[n].gone => n \in unsure'
    BY DEF Truthful
  <2>1. CASE n = m
    <3>1. Stored(m) => m \in unsure
      BY <1>1 DEF Attempts, Truthful
    <3> QED BY <2>1, <3>1, <1>1, <1>2, <1>4, <1>6, <1>7
  <2>2. CASE n # m
    BY <2>2, <1>1, <1>3, <1>4, <1>6 DEF Attempts, Truthful
  <2> QED BY <2>1, <2>2
<1>11. Remembered'
  <2>1. \A n \in asked : n \in Messages
    BY MineAreMessages DEF Base, AskedOK
  <2> QED BY <2>1, <1>1, <1>3, <1>4, <1>6 DEF Attempts, Remembered
<1>12. Awaited'
  <2>1. \A c \in Conversations : \A k \in DOMAIN cache[c] :
          cache[c][k].id = 0 => cache[c][k].m \in Messages
    BY MineAreMessages DEF Base, CacheOK, Sane, Known
  <2>2. \A n \in Messages : sends[n] # Idle => sends'[n] # Idle
    BY <1>4, <1>5
  <2> QED BY <2>1, <2>2, <1>1, <1>6 DEF Attempts, Awaited
<1> QED BY <1>8, <1>9, <1>10, <1>11, <1>12 DEF Attempts

LEMMA OthersSendAttempts ==
  ASSUME Base, Attempts, NEW m \in Messages, OthersSend(m)
  PROVE  Attempts'
<1>1. /\ m \notin Mine /\ ~Stored(m) /\ sends' = [sends EXCEPT ![m].at = "sent"] /\ sends[m] = Idle
      /\ UNCHANGED <<of, rows, wire, cache, older, asked, unsure, unheard, forgotten>>
  BY DEF OthersSend, socket, client, history
<1>2. /\ \A n \in Messages : n # m => sends'[n] = sends[n]
      /\ sends'[m].at = "sent"
  BY <1>1 DEF Base, SendsOK, SendType
<1>3. \A n : /\ Heard(n)' <=> Heard(n)
             /\ Erred(n)' <=> Erred(n)
             /\ Failed(n)' <=> Failed(n)
             /\ Stored(n)' <=> Stored(n)
  BY <1>1 DEF Heard, Erred, Failed, Concerns, Stored
<1>4. \A n \in Mine : sends'[n] = sends[n]
  BY <1>1, <1>2, MineAreMessages
<1>5. InPlace' /\ OneWord'
  BY <1>1, <1>3, <1>4 DEF Attempts, InPlace, OneWord, Concerns
<1>6. Truthful'
  BY <1>1, <1>2, <1>3 DEF Attempts, Truthful
<1>7. Remembered'
  <2>1. \A n \in asked : sends'[n] = sends[n]
    BY <1>4 DEF Base, AskedOK
  <2> QED BY <2>1, <1>1, <1>3 DEF Attempts, Remembered
<1>8. Awaited'
  <2>1. \A c \in Conversations : \A k \in DOMAIN cache[c] :
          cache[c][k].id = 0 => cache[c][k].m \in Mine
    BY DEF Base, CacheOK, Sane, Known
  <2> QED BY <2>1, <1>1, <1>3, <1>4 DEF Attempts, Awaited
<1> QED BY <1>5, <1>6, <1>7, <1>8 DEF Attempts

LEMMA AnnounceAttempts ==
  ASSUME Base, Attempts, NEW a \in announces, AnnounceChatUpdate(a)
  PROVE  Attempts'
<1> DEFINE e == Event(IF a.gone THEN "chat.deleted" ELSE "chat.updated", rows[a.id].m, a)
<1>1. /\ Deliver(e, announces')
      /\ UNCHANGED <<of, rows, sends, connected, cache, older, asked, unsure, forgotten>>
  BY DEF AnnounceChatUpdate, client
<1>2. /\ a \in [id : Nat, ver : Nat, gone : BOOLEAN] /\ a.id \in DOMAIN rows
      /\ a.gone => rows[a.id].gone
      /\ rows[a.id].m \in Messages
  BY RowsAre DEF Base, AnnouncesOK
<1>3. /\ e \in EventType /\ e.kind = (IF a.gone THEN "chat.deleted" ELSE "chat.updated")
      /\ e.m = rows[a.id].m /\ e.id = a.id /\ e.gone = a.gone
      /\ e.edited = (e.kind = "chat.updated") /\ a.gone \in BOOLEAN
  BY <1>2 DEF Event, EventType
<1>4. Deliver(e, announces')
  BY <1>1
<1> HIDE DEF e
<1>5. EventOK(e, rows') /\ ~Concerns(e) /\ e.kind # "error" /\ Grows(rows, rows')
  BY <1>1, <1>2, <1>3, Stays DEF EventOK, IsRow, Concerns
<1>6. WireOK /\ RowsOK /\ connected' = connected
  BY <1>1 DEF Base
<1>7. /\ \A n : (Heard(n)' <=> Heard(n)) /\ (Erred(n)' <=> Erred(n))
      /\ \A n :
              ((\A k, l \in DOMAIN wire :
                  Concerns(wire[k]) /\ wire[k].m = n /\ Concerns(wire[l]) /\ wire[l].m = n => k = l)
               => (\A k, l \in DOMAIN wire' :
                  Concerns(wire'[k]) /\ wire'[k].m = n /\ Concerns(wire'[l]) /\ wire'[l].m = n => k = l))
      /\ unheard' = unheard
  <2>1. /\ \A n : Heard(n)' <=> Heard(n) \/ (connected /\ Concerns(e) /\ e.m = n)
        /\ \A n : Erred(n)' <=> Erred(n) \/ (connected /\ e.kind = "error" /\ e.m = n)
        /\ \A n : (Concerns(e) /\ e.m = n => ~Heard(n)) =>
              ((\A k, l \in DOMAIN wire :
                  Concerns(wire[k]) /\ wire[k].m = n /\ Concerns(wire[l]) /\ wire[l].m = n => k = l)
               => (\A k, l \in DOMAIN wire' :
                  Concerns(wire'[k]) /\ wire'[k].m = n /\ Concerns(wire'[l]) /\ wire'[l].m = n => k = l))
        /\ unheard' = unheard \cup (IF connected \/ ~Concerns(e) THEN {} ELSE {e.m})
    BY <1>3, <1>4, <1>5, <1>6, DeliversHeard
  <2> QED BY <2>1, <1>5
<1>8. \A n : (Failed(n)' <=> Failed(n)) /\ (Stored(n)' <=> Stored(n))
  BY <1>1 DEF Failed, Stored
<1>9. InPlace'
  BY <1>1 DEF Attempts, InPlace
<1>10. OneWord'
  <2> SUFFICES ASSUME NEW n \in Mine
               PROVE  /\ sends'[n] # Idle => ~Heard(n)' /\ ~Failed(n)'
                      /\ Heard(n)' => ~Failed(n)'
                      /\ \A k, l \in DOMAIN wire' :
                           Concerns(wire'[k]) /\ wire'[k].m = n /\ Concerns(wire'[l]) /\ wire'[l].m = n
                             => k = l
    BY DEF OneWord, Concerns
  <2>1. /\ sends[n] # Idle => ~Heard(n) /\ ~Failed(n)
        /\ Heard(n) => ~Failed(n)
        /\ \A k, l \in DOMAIN wire :
             Concerns(wire[k]) /\ wire[k].m = n /\ Concerns(wire[l]) /\ wire[l].m = n => k = l
    BY DEF Attempts, OneWord
  <2>2. sends' = sends
    BY <1>1
  <2> QED BY <2>1, <2>2, <1>7, <1>8
<1>11. Truthful' /\ Remembered' /\ Awaited'
  BY <1>1, <1>7, <1>8 DEF Attempts, Truthful, Remembered, Awaited
<1> QED BY <1>9, <1>10, <1>11 DEF Attempts

LEMMA LoseAttempts ==
  ASSUME Base, Attempts, NEW lost \in SUBSET Mine, Lose(lost)
  PROVE  Attempts'
<1>1. /\ wire' = <<>>
      /\ lost \subseteq {m \in Mine : sends[m].at = "sent"}
      /\ sends' = [m \in Messages |-> IF m \in lost THEN Idle ELSE sends[m]]
      /\ unheard' = unheard \cup lost \cup
           {wire[k].m : k \in {j \in DOMAIN wire : Concerns(wire[j])}}
      /\ UNCHANGED <<of, rows, cache, older, asked, unsure, forgotten>>
  BY DEF Lose, client
<1>2. DOMAIN wire' = {}
  BY <1>1
<1>3. \A n : ~Heard(n)' /\ ~Erred(n)'
  BY <1>2 DEF Heard, Erred
<1>4. \A n : (Failed(n)' <=> Failed(n)) /\ (Stored(n)' <=> Stored(n))
  BY <1>1 DEF Failed, Stored
<1>5. \A n : Heard(n) => n \in unheard'
  <2>1. \A n : Heard(n) => n \in {wire[k].m : k \in {j \in DOMAIN wire : Concerns(wire[j])}}
    BY DEF Heard
  <2> QED BY <2>1, <1>1
<1>6. /\ unheard \subseteq unheard'
      /\ \A n \in Messages : n \in lost \/ sends'[n] = sends[n]
      /\ \A n \in lost : n \in unheard' /\ sends'[n] = Idle /\ sends[n].at = "sent" /\ n \in Messages
  BY <1>1, MineAreMessages
<1>7. \A n \in Messages : sends'[n] # Idle => n \notin lost /\ sends'[n] = sends[n]
  BY <1>6
<1>8. InPlace'
  BY <1>1 DEF Attempts, InPlace
<1>9. OneWord'
  <2>1. \A n \in Mine : sends'[n] # Idle => sends[n] # Idle
    BY <1>7, MineAreMessages
  <2> QED BY <2>1, <1>2, <1>3, <1>4 DEF Attempts, OneWord
<1>10. Truthful'
  <2>1. \A n \in Messages : sends'[n].at # "idle" => sends'[n] = sends[n]
    BY <1>6 DEF Idle
  <2> QED BY <2>1, <1>1, <1>3, <1>4 DEF Attempts, Truthful
<1>11. Remembered'
  <2> SUFFICES ASSUME NEW n \in asked
               PROVE  \/ Stored(n)' \/ Failed(n)' \/ n \in unheard' \cup forgotten'
                      \/ (sends'[n].at = "sent" \/ Erred(n)') /\ n \in Unconfirmed(cache'[of'[n]])
    BY <1>1 DEF Remembered
  <2>1. n \in Messages
    BY MineAreMessages DEF Base, AskedOK
  <2>2. \/ Stored(n) \/ Failed(n) \/ n \in unheard \cup forgotten
        \/ (sends[n].at = "sent" \/ Erred(n)) /\ n \in Unconfirmed(cache[of[n]])
    BY DEF Attempts, Remembered
  <2>3. Erred(n) => Heard(n)
    BY DEF Base, WireOK, EventOK, Erred, Heard, Concerns
  <2> QED BY <2>1, <2>2, <2>3, <1>1, <1>4, <1>5, <1>6
<1>12. Awaited'
  <2> SUFFICES ASSUME NEW c \in Conversations, NEW k \in DOMAIN cache[c],
                      cache[c][k].id = 0, cache[c][k].state = "sending"
               PROVE  LET n == cache[c][k].m
                      IN n \in unheard' \/ sends'[n] # Idle \/ Heard(n)'
    BY <1>1 DEF Awaited
  <2> DEFINE n == cache[c][k].m
  <2>1. n \in Messages
    BY MineAreMessages DEF Base, CacheOK, Sane, Known
  <2>2. n \in unheard \/ sends[n] # Idle \/ Heard(n)
    BY DEF Attempts, Awaited
  <2> HIDE DEF n
  <2> QED BY <2>1, <2>2, <1>5, <1>6 DEF n
<1> QED BY <1>8, <1>9, <1>10, <1>11, <1>12 DEF Attempts
(* What the client shows is changed: t is of what was shown, of what D1 has,   *)
(* or of the messages in out.                                                *)
Comes(t, s, out) ==
  \A k \in DOMAIN t :
    \/ t[k].m \in out
    \/ t[k].id > 0 /\ t[k].state = "sent"
    \/ \E i \in DOMAIN s : t[k].m = s[i].m /\ t[k].id = s[i].id /\ t[k].state = s[i].state

LEMMA PartComes ==
  ASSUME NEW s, NEW t, NEW u, NEW h, Part(u, t, h), NEW out, Comes(t, s, out)
  PROVE  Comes(u, s, out)
<1>1. \A k \in DOMAIN u : h[k] \in DOMAIN t /\ u[k] = t[h[k]]
  BY DEF Part
<1> QED BY <1>1 DEF Comes

(* What of the messages outside out is still shown, if it is not forgotten.    *)
Remain(c, out) ==
  /\ forgotten \subseteq forgotten'
  /\ \A n : n \notin out /\ Failed(n)' => Failed(n)
  /\ \A d \in Conversations : \A i \in DOMAIN cache[d] : cache[d][i].id = 0 =>
       \/ cache[d][i].m \in forgotten' \/ Stored(cache[d][i].m)
       \/ \E k \in DOMAIN cache'[d] : cache'[d][k].m = cache[d][i].m /\ cache'[d][k].id = 0
  /\ \A n : n \notin out /\ Failed(n) =>
       \/ Stored(n) \/ n \in forgotten' \/ Failed(n)'
       \/ \E i \in DOMAIN cache[c] :
            cache[c][i].m = n /\ cache[c][i].id = 0 /\ cache[c][i].state = "sending"
  /\ \A d \in Conversations : \A k \in DOMAIN cache'[d] :
       \/ cache'[d][k].m \in out \/ cache'[d][k].id # 0
       \/ \E i \in DOMAIN cache[d] : /\ cache[d][i].m = cache'[d][k].m /\ cache[d][i].id = 0
                                     /\ cache[d][i].state = cache'[d][k].state

LEMMA UpdatesKeep ==
  ASSUME Base, UNCHANGED <<of, rows>>, NEW c \in Conversations, NEW t \in Seq(EntryType),
         NEW load \in SUBSET Conversations, UpdateChat(c, t, load), NEW sent, Sane(t, rows, sent),
         NEW out, Comes(t, cache[c], out)
  PROVE  /\ Remain(c, out)
         /\ Within(t, c, of) /\ (\A d \in Conversations : Within(cache[d], d, of))
              => \A d \in Conversations : Within(cache'[d], d, of)
<1>1. /\ cache' \in [Conversations -> Seq(EntryType)] /\ cache'[c] = LastOf(t)
      /\ \A d \in Conversations \ {c} : cache'[d] = cache[d] \/ cache'[d] = <<>>
      /\ forgotten \subseteq forgotten'
      /\ \A d \in Conversations : Unconfirmed(cache[d]) \subseteq Shows(cache'[d]) \cup forgotten'
  BY Updates DEF Base
<1>2. PICK h : Part(LastOf(t), t, h)
  BY LastOfPart
<1>3. LastOf(t) \in Seq(EntryType)
  BY LastOfPart
<1>4. Sane(LastOf(t), rows, sent) /\ Comes(LastOf(t), cache[c], out)
  BY <1>2, <1>3, PartKeeps, PartComes
<1>5. DOMAIN <<>> = {}
  OBVIOUS
<1>6. \A d \in Conversations : \A k \in DOMAIN cache[d] :
        /\ cache[d][k].id \in Nat
        /\ cache[d][k].id # 0 => Stored(cache[d][k].m)
        /\ cache[d][k].id = 0 => cache[d][k].state \in {"sending", "failed"}
  <2> SUFFICES ASSUME NEW d \in Conversations, NEW k \in DOMAIN cache[d]
               PROVE  /\ cache[d][k].id \in Nat
                      /\ cache[d][k].id # 0 => Stored(cache[d][k].m)
                      /\ cache[d][k].id = 0 => cache[d][k].state \in {"sending", "failed"}
    OBVIOUS
  <2>1. cache[d] \in Seq(EntryType) /\ Known(cache[d][k], rows)
    BY DEF Base, CacheOK, Sane
  <2>2. cache[d][k] \in EntryType
    BY <2>1, Entries
  <2> QED BY <2>1, <2>2 DEF Known, IsRow, Stored, EntryType
<1>7. \A k \in DOMAIN LastOf(t) : /\ LastOf(t)[k].id \in Nat
                                  /\ LastOf(t)[k].id # 0 => Stored(LastOf(t)[k].m)
                                  /\ LastOf(t)[k].id = 0 => LastOf(t)[k].state # "sent"
  <2>1. \A k \in DOMAIN LastOf(t) : Known(LastOf(t)[k], rows) /\ LastOf(t)[k].id \in Nat
    BY <1>3, <1>4, Entries DEF Sane
  <2> QED BY <2>1 DEF Known, IsRow, Stored
<1>8. ASSUME NEW d \in Conversations, NEW k \in DOMAIN cache'[d]
      PROVE  \/ cache'[d][k].m \in out
             \/ cache'[d][k].id > 0 /\ cache'[d][k].state = "sent"
             \/ \E i \in DOMAIN cache[d] : /\ cache[d][i].m = cache'[d][k].m
                                           /\ cache[d][i].id = cache'[d][k].id
                                           /\ cache[d][i].state = cache'[d][k].state
  <2>1. CASE d = c
    BY <2>1, <1>1, <1>4, <1>8 DEF Comes
  <2>2. CASE d # c
    BY <2>2, <1>1, <1>5, <1>8
  <2> QED BY <2>1, <2>2
<1>9. ASSUME NEW n, n \notin out, Failed(n)'
      PROVE  Failed(n)
  <2>1. PICK d \in Conversations : \E k \in DOMAIN cache'[d] :
          cache'[d][k].m = n /\ cache'[d][k].state = "failed"
    BY <1>9 DEF Failed
  <2> QED BY <2>1, <1>8, <1>9 DEF Failed
<1>10. ASSUME NEW d \in Conversations, NEW n \in Unconfirmed(cache[d])
       PROVE  n \in forgotten' \/ Stored(n) \/ \E k \in DOMAIN cache'[d] :
                cache'[d][k].m = n /\ cache'[d][k].id = 0
  <2>1. CASE n \in Shows(cache'[d])
    <3>1. PICK k \in DOMAIN cache'[d] : cache'[d][k].m = n
      BY <2>1 DEF Shows
    <3>2. CASE d = c
      BY <3>1, <3>2, <1>1, <1>7
    <3>3. CASE d # c
      BY <3>1, <3>3, <1>1, <1>5, <1>6
    <3> QED BY <3>2, <3>3
  <2> QED BY <2>1, <1>1
<1>11. \A d \in Conversations : \A i \in DOMAIN cache[d] : cache[d][i].id = 0 =>
         \/ cache[d][i].m \in forgotten' \/ Stored(cache[d][i].m)
         \/ \E k \in DOMAIN cache'[d] : cache'[d][k].m = cache[d][i].m /\ cache'[d][k].id = 0
  BY <1>10 DEF Unconfirmed
<1>12. ASSUME NEW n, n \notin out, Failed(n)
       PROVE  \/ Stored(n) \/ n \in forgotten' \/ Failed(n)'
              \/ \E i \in DOMAIN cache[c] :
                   cache[c][i].m = n /\ cache[c][i].id = 0 /\ cache[c][i].state = "sending"
  <2>0. PICK d \in Conversations : \E i \in DOMAIN cache[d] :
          cache[d][i].m = n /\ cache[d][i].state = "failed"
    BY <1>12 DEF Failed
  <2>1. PICK i \in DOMAIN cache[d] : cache[d][i].m = n /\ cache[d][i].state = "failed"
    BY <2>0
  <2>2. CASE cache[d][i].id # 0
    BY <2>1, <2>2, <1>6
  <2>3. CASE cache[d][i].id = 0
    <3>1. n \in Unconfirmed(cache[d])
      BY <2>1, <2>3 DEF Unconfirmed
    <3>2. CASE \E k \in DOMAIN cache'[d] : cache'[d][k].m = n /\ cache'[d][k].id = 0
      <4>1. PICK k \in DOMAIN cache'[d] : cache'[d][k].m = n /\ cache'[d][k].id = 0
        BY <3>2
      <4>2. CASE d # c
        <5>1. cache'[d] = cache[d]
          BY <4>1, <4>2, <1>1, <1>5
        <5> QED BY <5>1, <2>1 DEF Failed
      <4>3. CASE d = c
        <5>1. PICK l \in DOMAIN cache[c] : /\ cache[c][l].m = n /\ cache[c][l].id = 0
                                           /\ cache[c][l].state = cache'[c][k].state
          BY <4>1, <4>3, <1>8, <1>12
        <5>2. cache[c][l].state \in {"sending", "failed"}
          BY <5>1, <1>6
        <5> QED BY <5>1, <5>2, <4>1, <4>3 DEF Failed
      <4> QED BY <4>2, <4>3
    <3> QED BY <3>1, <3>2, <1>10
  <2> QED BY <2>2, <2>3
<1>13. \A d \in Conversations : \A k \in DOMAIN cache'[d] :
         \/ cache'[d][k].m \in out \/ cache'[d][k].id # 0
         \/ \E i \in DOMAIN cache[d] : /\ cache[d][i].m = cache'[d][k].m /\ cache[d][i].id = 0
                                       /\ cache[d][i].state = cache'[d][k].state
  BY <1>8
<1>14. ASSUME Within(t, c, of), \A d \in Conversations : Within(cache[d], d, of)
       PROVE  \A d \in Conversations : Within(cache'[d], d, of)
  <2>1. Within(LastOf(t), c, of)
    BY <1>2, <1>3, <1>14, PartKeeps
  <2> QED BY <2>1, <1>1, <1>5, <1>14 DEF Within
<1> QED BY <1>1, <1>9, <1>11, <1>12, <1>13, <1>14 DEF Remain

(* A message the step says nothing of is as well remembered as before.         *)
LEMMA OthersKeep ==
  ASSUME Base, Attempts, UNCHANGED <<of, rows, unsure, unheard>>,
         NEW c \in Conversations, NEW t \in Seq(EntryType),
         NEW load \in SUBSET Conversations, UpdateChat(c, t, load), NEW sent, Sane(t, rows, sent),
         NEW out, Comes(t, cache[c], out),
         NEW n \in Messages, n \notin out, sends'[n] = sends[n],
         Heard(n)' <=> Heard(n), Erred(n)' <=> Erred(n)
  PROVE  /\ n \in Mine => /\ sends'[n] # Idle => ~Heard(n)' /\ ~Failed(n)'
                          /\ Heard(n)' => ~Failed(n)'
         /\ Stored(n)' /\ (sends'[n].at = "sent" \/ Erred(n)' \/ Failed(n)')
              => n \in unsure' \cap Mine
         /\ sends'[n].at = "read" /\ sends'[n].gone => n \in unsure'
         /\ n \in asked => \/ Stored(n)' \/ Failed(n)' \/ n \in unheard' \cup forgotten'
                           \/ (sends'[n].at = "sent" \/ Erred(n)') /\ n \in Unconfirmed(cache'[of'[n]])
         /\ \A d \in Conversations : \A k \in DOMAIN cache'[d] :
              cache'[d][k].m = n /\ cache'[d][k].id = 0 /\ cache'[d][k].state = "sending"
                => n \in unheard' \/ sends'[n] # Idle \/ Heard(n)'
<1>1. /\ forgotten \subseteq forgotten'
      /\ Failed(n)' => Failed(n)
      /\ n \in Unconfirmed(cache[of[n]]) => n \in forgotten' \/ Stored(n) \/ n \in Unconfirmed(cache'[of[n]])
      /\ Failed(n) =>
           \/ Stored(n) \/ n \in forgotten' \/ Failed(n)'
           \/ \E i \in DOMAIN cache[c] :
                cache[c][i].m = n /\ cache[c][i].id = 0 /\ cache[c][i].state = "sending"
      /\ \A d \in Conversations : \A k \in DOMAIN cache'[d] :
           \/ cache'[d][k].m # n \/ cache'[d][k].id # 0
           \/ \E i \in DOMAIN cache[d] : /\ cache[d][i].m = n /\ cache[d][i].id = 0
                                         /\ cache[d][i].state = cache'[d][k].state
  <2>1. of[n] \in Conversations
    BY DEF Base, RowsOK
  <2>2. Remain(c, out)
    <3>1. UNCHANGED <<of, rows>>
      OBVIOUS
    <3> QED BY <3>1, UpdatesKeep
  <2>3. \A d \in Conversations : \A k \in DOMAIN cache'[d] :
          \/ cache'[d][k].m # n \/ cache'[d][k].id # 0
          \/ \E i \in DOMAIN cache[d] : /\ cache[d][i].m = n /\ cache[d][i].id = 0
                                        /\ cache[d][i].state = cache'[d][k].state
    BY <2>2 DEF Remain
  <2>4. n \in Unconfirmed(cache[of[n]]) =>
          n \in forgotten' \/ Stored(n) \/ n \in Unconfirmed(cache'[of[n]])
    BY <2>1, <2>2 DEF Remain, Unconfirmed
  <2> QED BY <2>2, <2>3, <2>4 DEF Remain
<1>2. Stored(n)' <=> Stored(n)
  BY DEF Stored
<1>3. n \in Mine => /\ sends[n] # Idle => ~Heard(n) /\ ~Failed(n)
                    /\ Heard(n) => ~Failed(n)
  BY DEF Attempts, OneWord
<1>4. /\ Stored(n) /\ (sends[n].at = "sent" \/ Erred(n) \/ Failed(n)) => n \in unsure \cap Mine
      /\ sends[n].at = "read" /\ sends[n].gone => n \in unsure
  BY DEF Attempts, Truthful
<1>5. \A d \in Conversations : \A k \in DOMAIN cache[d] :
        cache[d][k].m = n /\ cache[d][k].id = 0 /\ cache[d][k].state = "sending"
          => n \in unheard \/ sends[n] # Idle \/ Heard(n)
  BY DEF Attempts, Awaited
<1>6. n \in asked => \/ Stored(n) \/ Failed(n) \/ n \in unheard \cup forgotten
                     \/ (sends[n].at = "sent" \/ Erred(n)) /\ n \in Unconfirmed(cache[of[n]])
  BY DEF Attempts, Remembered
<1>7. n \in asked /\ Failed(n) => Stored(n) \/ n \in forgotten' \/ Failed(n)' \/ n \in unheard
  <2>1. n \in asked => n \in Mine
    BY DEF Base, AskedOK
  <2> QED BY <2>1, <1>1, <1>3, <1>5
<1>8. n \in asked => \/ Stored(n)' \/ Failed(n)' \/ n \in unheard' \cup forgotten'
                     \/ (sends'[n].at = "sent" \/ Erred(n)') /\ n \in Unconfirmed(cache'[of'[n]])
  BY <1>1, <1>2, <1>6, <1>7
<1>9. \A d \in Conversations : \A k \in DOMAIN cache'[d] :
        cache'[d][k].m = n /\ cache'[d][k].id = 0 /\ cache'[d][k].state = "sending"
          => n \in unheard' \/ sends'[n] # Idle \/ Heard(n)'
  BY <1>1, <1>5
<1> QED BY <1>1, <1>2, <1>3, <1>4, <1>8, <1>9
(* Every message is remembered if those in out are. *)
Said(n) ==
  /\ n \in Mine => /\ sends[n] # Idle => ~Heard(n) /\ ~Failed(n)
                   /\ Heard(n) => ~Failed(n)
  /\ Stored(n) /\ (sends[n].at = "sent" \/ Erred(n) \/ Failed(n)) => n \in unsure \cap Mine
  /\ sends[n].at = "read" /\ sends[n].gone => n \in unsure
  /\ n \in asked => \/ Stored(n) \/ Failed(n) \/ n \in unheard \cup forgotten
                    \/ (sends[n].at = "sent" \/ Erred(n)) /\ n \in Unconfirmed(cache[of[n]])
  /\ \A d \in Conversations : \A k \in DOMAIN cache[d] :
       cache[d][k].m = n /\ cache[d][k].id = 0 /\ cache[d][k].state = "sending"
         => n \in unheard \/ sends[n] # Idle \/ Heard(n)

Once(n) ==
  \A k, l \in DOMAIN wire :
    Concerns(wire[k]) /\ wire[k].m = n /\ Concerns(wire[l]) /\ wire[l].m = n => k = l

LEMMA AttemptsAre ==
  ASSUME Base
  PROVE  Attempts <=> InPlace /\ (\A n \in Messages : Said(n)) /\ (\A n \in Mine : Once(n))
<1>1. \A n \in Mine : n \in Messages
  BY MineAreMessages
<1>2. \A n \in asked : n \in Messages
  BY MineAreMessages DEF Base, AskedOK
<1>3. ASSUME Attempts
      PROVE  InPlace /\ (\A n \in Messages : Said(n)) /\ (\A n \in Mine : Once(n))
  <2>1. ASSUME NEW n \in Messages
        PROVE  Said(n)
    BY <1>3 DEF Attempts, OneWord, Truthful, Remembered, Awaited, Said
  <2>2. \A n \in Mine : Once(n)
    BY <1>3 DEF Attempts, OneWord, Once
  <2> QED BY <1>3, <2>1, <2>2 DEF Attempts
<1>4. ASSUME InPlace, \A n \in Messages : Said(n), \A n \in Mine : Once(n)
      PROVE  Attempts
  <2>1. OneWord
    BY <1>1, <1>4 DEF OneWord, Said, Once
  <2>2. Truthful
    BY <1>4 DEF Truthful, Said
  <2>3. Remembered
    BY <1>2, <1>4 DEF Remembered, Said
  <2>4. Awaited
    <3> SUFFICES ASSUME NEW c \in Conversations, NEW k \in DOMAIN cache[c],
                        cache[c][k].id = 0, cache[c][k].state = "sending"
                 PROVE  LET n == cache[c][k].m
                        IN n \in unheard \/ sends[n] # Idle \/ Heard(n)
      BY DEF Awaited
    <3> DEFINE n == cache[c][k].m
    <3>1. n \in Messages
      BY <1>1 DEF Base, CacheOK, Sane, Known
    <3>2. Said(n)
      BY <3>1, <1>4
    <3> HIDE DEF n
    <3> QED BY <3>2 DEF n, Said
  <2> QED BY <1>4, <2>1, <2>2, <2>3, <2>4 DEF Attempts
<1> QED BY <1>3, <1>4

LEMMA OthersSaid ==
  ASSUME Base, Attempts, UNCHANGED <<of, rows, unsure, unheard>>,
         NEW c \in Conversations, NEW t \in Seq(EntryType),
         NEW load \in SUBSET Conversations, UpdateChat(c, t, load), NEW sent, Sane(t, rows, sent),
         NEW out, Comes(t, cache[c], out),
         NEW n \in Messages, n \notin out, sends'[n] = sends[n],
         Heard(n)' <=> Heard(n), Erred(n)' <=> Erred(n), n \in asked' => n \in asked
  PROVE  Said(n)'
<1>1. /\ n \in Mine => /\ sends'[n] # Idle => ~Heard(n)' /\ ~Failed(n)'
                       /\ Heard(n)' => ~Failed(n)'
      /\ Stored(n)' /\ (sends'[n].at = "sent" \/ Erred(n)' \/ Failed(n)')
           => n \in unsure' \cap Mine
      /\ sends'[n].at = "read" /\ sends'[n].gone => n \in unsure'
      /\ n \in asked => \/ Stored(n)' \/ Failed(n)' \/ n \in unheard' \cup forgotten'
                        \/ (sends'[n].at = "sent" \/ Erred(n)') /\ n \in Unconfirmed(cache'[of'[n]])
      /\ \A d \in Conversations : \A k \in DOMAIN cache'[d] :
           cache'[d][k].m = n /\ cache'[d][k].id = 0 /\ cache'[d][k].state = "sending"
             => n \in unheard' \/ sends'[n] # Idle \/ Heard(n)'
  BY OthersKeep
<1> QED BY <1>1 DEF Said

LEMMA SendChatAttempts ==
  ASSUME Base, Attempts, Base', NEW m \in Messages, SendChat(m)
  PROVE  Attempts'
<1> DEFINE c == of[m]
<1> DEFINE s == cache[c]
<1> DEFINE x == [m |-> m, id |-> 0, ver |-> 0, gone |-> FALSE, edited |-> FALSE, state |-> "sending"]
<1> DEFINE kept == Without(s, m, 0)
<1> DEFINE t == Append(kept, x)
<1>1. /\ m \in Mine /\ sends[m] = Idle /\ UpdateChat(c, t, {})
      /\ Failed(m) \/ m \notin asked
      /\ sends' = [sends EXCEPT ![m].at = "sent"] /\ asked' = asked \cup {m}
      /\ UNCHANGED <<of, rows, announces, wire, older, unsure, unheard>>
  BY DEF SendChat, socket
<1>2. c \in Conversations /\ s \in Seq(EntryType) /\ Sane(s, rows, asked) /\ Within(s, c, of)
  BY DEF Base, RowsOK, CacheOK, Attempts, InPlace
<1>3. /\ kept \in Seq(EntryType) /\ \E h : Part(kept, s, h)
      /\ \A k \in DOMAIN kept : kept[k].m # m
  BY <1>2, WithoutPart
<1>4. x \in EntryType /\ Known(x, rows) /\ x.state = "sending" /\ x.m = m /\ x.id = 0
  BY <1>1 DEF EntryType, Known
<1>5. Sane(kept, rows, asked) /\ Within(kept, c, of)
  BY <1>2, <1>3, PartKeeps
<1> HIDE DEF x, kept, s
<1>6. /\ t \in Seq(EntryType) /\ Len(t) = Len(kept) + 1 /\ DOMAIN t = 1 .. Len(kept) + 1
      /\ \A k \in DOMAIN kept : k \in DOMAIN t /\ t[k] = kept[k]
      /\ t[Len(kept) + 1] = x
      /\ \A k \in DOMAIN t : k \in DOMAIN kept \/ k = Len(kept) + 1
      /\ Sane(t, rows, asked) /\ Within(t, c, of)
  BY <1>3, <1>4, <1>5, AppendKeeps
<1>7. Comes(t, s, {m})
  <2>1. \A k \in DOMAIN kept : \E i \in DOMAIN s : kept[k] = s[i]
    BY <1>3 DEF Part
  <2> HIDE DEF t
  <2> QED BY <2>1, <1>4, <1>6 DEF Comes
<1>8. Len(kept) \in Nat /\ DOMAIN kept = 1 .. Len(kept)
  BY <1>3, Entries
<1>9. \A k \in DOMAIN t : t[k].m = m => t[k] = x
  <2> HIDE DEF t
  <2> QED BY <1>3, <1>6
<1> HIDE DEF t, c
<1>10. Remain(c, {m}) /\ \A d \in Conversations : Within(cache'[d], d, of)
  <2>1. UNCHANGED <<of, rows>> /\ {} \in SUBSET Conversations /\ UpdateChat(c, t, {})
    BY <1>1
  <2>2. Comes(t, cache[c], {m})
    BY <1>7 DEF s
  <2>3. Remain(c, {m}) /\ ((\A d \in Conversations : Within(cache[d], d, of))
          => \A d \in Conversations : Within(cache'[d], d, of))
    BY <2>1, <2>2, <1>2, <1>6, UpdatesKeep
  <2> QED BY <2>3 DEF Attempts, InPlace
<1>11. /\ \A n : /\ Heard(n)' <=> Heard(n)
                 /\ Erred(n)' <=> Erred(n)
                 /\ Stored(n)' <=> Stored(n)
  BY <1>1 DEF Heard, Erred, Concerns, Stored
<1>12. /\ sends'[m].at = "sent" /\ \A n \in Messages : n # m => sends'[n] = sends[n]
  BY <1>1 DEF Base, SendsOK, SendType
<1>13. ASSUME NEW n \in Messages, n # m
       PROVE  Said(n)'
  <2>1. UNCHANGED <<of, rows, unsure, unheard>> /\ {} \in SUBSET Conversations /\ UpdateChat(c, t, {})
    BY <1>1
  <2>2. Comes(t, cache[c], {m}) /\ n \notin {m}
    BY <1>7, <1>13 DEF s
  <2>3. sends'[n] = sends[n] /\ (n \in asked' => n \in asked)
    BY <1>1, <1>12, <1>13
  <2> QED BY <2>1, <2>2, <2>3, <1>2, <1>6, <1>11, OthersSaid
<1>14. /\ cache' \in [Conversations -> Seq(EntryType)] /\ cache'[c] = LastOf(t)
  <2>1. {} \in SUBSET Conversations
    OBVIOUS
  <2> QED BY <2>1, <1>1, <1>2, <1>6, Updates DEF Base
<1>15. PICK h : Part(LastOf(t), t, h)
  BY <1>6, LastOfPart
<1>16. /\ Len(LastOf(t)) \in DOMAIN cache'[c] /\ cache'[c][Len(LastOf(t))] = x
  <2>1. Len(t) > 0 /\ t[Len(t)] = x
    BY <1>6, <1>8
  <2> QED BY <2>1, <1>6, <1>14, LastOfPart
<1>17. \A d \in Conversations : \A k \in DOMAIN cache'[d] : cache'[d][k].m = m => cache'[d][k] = x
  <2>1. \A k \in DOMAIN cache'[c] : cache'[c][k].m = m => cache'[c][k] = x
    BY <1>9, <1>14, <1>15 DEF Part
  <2>2. \A d \in Conversations : d # c => \A k \in DOMAIN cache'[d] : cache'[d][k].m # m
    BY <1>10 DEF Within, c
  <2> QED BY <2>1, <2>2
<1>18. Said(m)'
  <2>1. ~Failed(m)'
    BY <1>17, <1>4 DEF Failed
  <2>2. ~Heard(m)
    <3>1. Heard(m) => m \in asked
      BY DEF Base, AskedOK, Heard
    <3>2. Failed(m) => ~Heard(m)
      BY <1>1 DEF Attempts, OneWord
    <3> QED BY <3>1, <3>2, <1>1
  <2>3. Stored(m) => m \in unsure
    <3>1. Stored(m) => m \in asked
      BY <1>1 DEF Base, AskedOK
    <3>2. Failed(m) /\ Stored(m) => m \in unsure
      BY DEF Attempts, Truthful
    <3> QED BY <3>1, <3>2, <1>1
  <2>4. sends'[m] # Idle
    BY <1>12 DEF Idle
  <2>5. m \in Unconfirmed(cache'[of'[m]])
    BY <1>1, <1>4, <1>16 DEF Unconfirmed, c
  <2> QED BY <2>1, <2>2, <2>3, <2>4, <2>5, <1>1, <1>11, <1>12 DEF Said
<1>19. \A n \in Mine : Once(n)'
  BY <1>1 DEF Attempts, OneWord, Once, Concerns
<1>20. InPlace'
  BY <1>1, <1>10 DEF Attempts, InPlace
<1>21. (\A n \in Messages : Said(n))'
  BY <1>13, <1>18
<1>22. Attempts' <=> InPlace' /\ (\A n \in Messages : Said(n))' /\ (\A n \in Mine : Once(n))'
  BY AttemptsAre, PTL
<1> QED BY <1>19, <1>20, <1>21, <1>22
(* Who has heard what after the client takes an event. *)
LEMMA TakesHeard ==
  ASSUME WireOK, wire # <<>>, wire' = Tail(wire)
  PROVE  LET e == Head(wire)
         IN  /\ e \in EventType /\ EventOK(e, rows) /\ \E k \in DOMAIN wire : wire[k] = e
             /\ \A n : n # e.m \/ ~Concerns(e) => (Heard(n)' <=> Heard(n))
             /\ \A n : n # e.m \/ e.kind # "error" => (Erred(n)' <=> Erred(n))
             /\ \A n : (Heard(n)' => Heard(n)) /\ (Erred(n)' => Erred(n))
             /\ \A n : Once(n) => Once(n)'
             /\ \A n : Concerns(e) /\ n = e.m => Heard(n) /\ (Once(n) => ~Heard(n)')
             /\ e.kind = "error" => Erred(e.m)
<1> DEFINE e == Head(wire)
<1>1. /\ e = wire[1] /\ 1 \in DOMAIN wire /\ e \in EventType
      /\ DOMAIN wire = 1 .. Len(wire) /\ Len(wire) \in Nat
      /\ DOMAIN wire' = 1 .. Len(wire) - 1
      /\ \A k \in DOMAIN wire' : k + 1 \in DOMAIN wire /\ wire'[k] = wire[k + 1]
      /\ \A k \in DOMAIN wire : k = 1 \/ (k - 1 \in DOMAIN wire' /\ wire'[k - 1] = wire[k])
  BY Takes DEF WireOK
<1> HIDE DEF e
<1>2. EventOK(e, rows)
  BY <1>1 DEF WireOK
<1>3. \A n : (Heard(n)' => Heard(n)) /\ (Erred(n)' => Erred(n))
  BY <1>1 DEF Heard, Erred, Concerns
<1>4. ASSUME NEW n, n # e.m \/ ~Concerns(e), Heard(n)
      PROVE  Heard(n)'
  <2>1. PICK k \in DOMAIN wire : Concerns(wire[k]) /\ wire[k].m = n
    BY <1>4 DEF Heard
  <2>2. k # 1
    BY <2>1, <1>1, <1>4
  <2> QED BY <2>1, <2>2, <1>1 DEF Heard, Concerns
<1>5. ASSUME NEW n, n # e.m \/ e.kind # "error", Erred(n)
      PROVE  Erred(n)'
  <2>1. PICK k \in DOMAIN wire : wire[k].kind = "error" /\ wire[k].m = n
    BY <1>5 DEF Erred
  <2>2. k # 1
    BY <2>1, <1>1, <1>5
  <2> QED BY <2>1, <2>2, <1>1 DEF Erred
<1>6. \A k \in DOMAIN wire' : k \in Nat /\ k > 0
  BY <1>1
<1>7. ASSUME NEW n, Once(n)
      PROVE  Once(n)'
  <2> SUFFICES ASSUME NEW k \in DOMAIN wire', NEW l \in DOMAIN wire',
                      Concerns(wire'[k]), wire'[k].m = n, Concerns(wire'[l]), wire'[l].m = n
               PROVE  k = l
    BY DEF Once, Concerns
  <2>1. k + 1 = l + 1
    BY <1>1, <1>7 DEF Once
  <2> QED BY <2>1, <1>6
<1>8. Concerns(e) => Heard(e.m)
  BY <1>1 DEF Heard
<1>9. ASSUME NEW n, Concerns(e), n = e.m, Once(n), Heard(n)'
      PROVE  FALSE
  <2>1. PICK k \in DOMAIN wire' : Concerns(wire'[k]) /\ wire'[k].m = n
    BY <1>9 DEF Heard, Concerns
  <2>2. k + 1 = 1
    BY <2>1, <1>1, <1>9 DEF Once
  <2> QED BY <2>2, <1>6
<1>10. e.kind = "error" => Erred(e.m)
  BY <1>1 DEF Erred
<1> QED BY <1>1, <1>2, <1>3, <1>4, <1>5, <1>7, <1>8, <1>9, <1>10 DEF e

(* What an event applied shows of the message it is about. *)
LEMMA AppliedShows ==
  ASSUME Base, Attempts, NEW e \in EventType, EventOK(e, rows), Concerns(e) => e.m \in asked
  PROVE  LET s == cache[of[e.m]]
             t == Applied(e)
         IN  /\ Within(t, of[e.m], of)
             /\ Comes(t, s, IF e.kind \in {"chat.message", "error"} THEN {e.m} ELSE {})
             /\ \A k \in DOMAIN t : t[k].m = e.m =>
                  /\ e.kind = "chat.message" => t[k].id > 0 /\ t[k].state = "sent"
                  /\ e.kind = "error" => t[k].state = "failed"
<1> DEFINE c == of[e.m]
<1> DEFINE s == cache[c]
<1> DEFINE x == [m |-> e.m, id |-> e.id, ver |-> e.ver, gone |-> FALSE, edited |-> FALSE, state |-> "sent"]
<1> DEFINE kept == Without(s, e.m, e.id)
<1>1. c \in Conversations /\ s \in Seq(EntryType) /\ Sane(s, rows, asked) /\ Within(s, c, of)
  BY DEF Base, RowsOK, CacheOK, EventType, Attempts, InPlace
<1>2. 0 \notin DOMAIN rows /\ \A i \in DOMAIN rows : i > 0
  BY RowsAre DEF Base
<1>3. CASE e.kind = "chat.message"
  <2>1. /\ kept \in Seq(EntryType) /\ \E h : Part(kept, s, h)
        /\ \A k \in DOMAIN kept : kept[k].m # e.m
    BY <1>1, WithoutPart
  <2>2. Within(kept, c, of)
    BY <1>1, <2>1, PartKeeps
  <2>3. x \in EntryType /\ x.m = e.m /\ x.id > 0 /\ x.state = "sent"
    <3>1. IsRow(rows, e.id, e.m)
      BY <1>3 DEF EventOK
    <3> QED BY <3>1, <1>2 DEF EventType, EntryType, IsRow
  <2>4. Applied(e) = Append(kept, x)
    BY <1>3 DEF Applied
  <2>5. \A k \in DOMAIN kept : \E i \in DOMAIN s : kept[k] = s[i]
    BY <2>1 DEF Part
  <2> HIDE DEF kept, x, s
  <2> DEFINE t == Append(kept, x)
  <2>6. /\ t[Len(kept) + 1] = x
        /\ \A k \in DOMAIN kept : k \in DOMAIN t /\ t[k] = kept[k]
        /\ \A k \in DOMAIN t : k \in DOMAIN kept \/ k = Len(kept) + 1
        /\ Within(t, c, of)
    BY <2>1, <2>2, <2>3, AppendKeeps
  <2> HIDE DEF t
  <2>7. Comes(t, s, {e.m})
    BY <2>3, <2>5, <2>6 DEF Comes
  <2>8. \A k \in DOMAIN t : t[k].m = e.m => t[k].id > 0 /\ t[k].state = "sent"
    BY <2>1, <2>3, <2>6
  <2> QED BY <1>3, <2>4, <2>6, <2>7, <2>8 DEF t, s
<1>4. CASE e.kind # "chat.message"
  <2>1. Applied(e) = [k \in DOMAIN s |-> IF Touches(e, s[k]) THEN Touched(e, s[k]) ELSE s[k]]
    BY <1>4 DEF Applied
  <2>2. e.kind = "error" => e.m \in asked
    BY DEF Concerns, EventOK
  <2>3. \A k \in DOMAIN s : /\ s[k] \in EntryType /\ Known(s[k], rows)
                            /\ s[k].state = "failed" => s[k].m \in Mine \cap asked
    BY <1>1, Entries DEF Sane
  <2> HIDE DEF s
  <2> DEFINE t == [k \in DOMAIN s |-> IF Touches(e, s[k]) THEN Touched(e, s[k]) ELSE s[k]]
  <2>4. /\ DOMAIN t = DOMAIN s /\ Within(t, c, of)
        /\ \A k \in DOMAIN s : /\ t[k].m = s[k].m /\ t[k].id = s[k].id
                               /\ t[k] = IF Touches(e, s[k]) THEN Touched(e, s[k]) ELSE s[k]
    BY <2>2, <1>1, <1>2, <1>4, Mapped
  <2> HIDE DEF t
  <2>5. \A k \in DOMAIN s : Touches(e, s[k]) =>
          /\ e.kind = "error" => Touched(e, s[k]).state = "failed"
          /\ e.kind # "error" => Touched(e, s[k]).state = s[k].state
    BY <2>2, <2>3, <1>2, <1>4, TouchedIs
  <2>6. CASE e.kind = "error"
    <3>1. \A k \in DOMAIN s : Touches(e, s[k]) <=> s[k].m = e.m
      BY <2>6 DEF Touches
    <3>2. Comes(t, s, {e.m})
      BY <3>1, <2>4 DEF Comes
    <3>3. \A k \in DOMAIN t : t[k].m = e.m => t[k].state = "failed"
      BY <3>1, <2>4, <2>5, <2>6
    <3> QED BY <3>2, <3>3, <2>1, <2>4, <2>6 DEF t, s
  <2>7. CASE e.kind # "error"
    <3>1. Comes(t, s, {})
      BY <2>4, <2>5, <2>7 DEF Comes
    <3> QED BY <3>1, <2>1, <2>4, <2>7, <1>4 DEF t, s
  <2> QED BY <2>6, <2>7
<1> QED BY <1>3, <1>4

LEMMA ReceiveAttempts ==
  ASSUME Base, Attempts, Base', Receive
  PROVE  Attempts'
<1> DEFINE e == Head(wire)
<1> DEFINE c == of[e.m]
<1>1. /\ wire # <<>> /\ wire' = Tail(wire)
      /\ \/ e.kind = "error" /\ e.m \notin Shows(cache[c]) /\ UNCHANGED <<cache, older, forgotten>>
         \/ /\ UpdateChat(c, Applied(e), {})
            /\ older' = IF older = None \/ older.conversation # c THEN older
                        ELSE [older EXCEPT !.crossed = TRUE]
      /\ UNCHANGED <<of, rows, sends, asked, unsure, unheard>>
  BY DEF Receive, server
<1>2. /\ e \in EventType /\ EventOK(e, rows) /\ \E k \in DOMAIN wire : wire[k] = e
      /\ \A n : n # e.m \/ ~Concerns(e) => (Heard(n)' <=> Heard(n))
      /\ \A n : n # e.m \/ e.kind # "error" => (Erred(n)' <=> Erred(n))
      /\ \A n : (Heard(n)' => Heard(n)) /\ (Erred(n)' => Erred(n))
      /\ \A n : Once(n) => Once(n)'
      /\ \A n : Concerns(e) /\ n = e.m => Heard(n) /\ (Once(n) => ~Heard(n)')
      /\ e.kind = "error" => Erred(e.m)
  BY <1>1, TakesHeard DEF Base
<1> HIDE DEF e
<1>3. Concerns(e) => e.m \in asked
  BY <1>2 DEF Base, AskedOK
<1>4. e.m \in Messages /\ c \in Conversations
  BY <1>2 DEF EventType, Base, RowsOK
<1>0. PICK m \in Messages : m = e.m
  BY <1>4
<1>5. /\ Applied(e) \in Seq(EntryType) /\ Sane(Applied(e), rows, asked)
      /\ Within(Applied(e), c, of)
      /\ Comes(Applied(e), cache[c], IF e.kind \in {"chat.message", "error"} THEN {e.m} ELSE {})
      /\ \A k \in DOMAIN Applied(e) : Applied(e)[k].m = e.m =>
           /\ e.kind = "chat.message" => Applied(e)[k].id > 0 /\ Applied(e)[k].state = "sent"
           /\ e.kind = "error" => Applied(e)[k].state = "failed"
  BY <1>2, <1>3, AppliedIs, AppliedShows
<1> DEFINE t == Applied(e)
<1> DEFINE out == IF e.kind \in {"chat.message", "error"} THEN {e.m} ELSE {}
<1>6. /\ t \in Seq(EntryType) /\ Sane(t, rows, asked) /\ Within(t, c, of)
      /\ Comes(t, cache[c], out)
      /\ \A k \in DOMAIN t : t[k].m = e.m =>
           /\ e.kind = "chat.message" => t[k].id > 0 /\ t[k].state = "sent"
           /\ e.kind = "error" => t[k].state = "failed"
  BY <1>5
<1>7. \/ e.kind = "error" /\ e.m \notin Shows(cache[c]) /\ UNCHANGED <<cache, older, forgotten>>
      \/ UpdateChat(c, t, {})
  BY <1>1
<1> HIDE DEF t
<1>8. Attempts <=> InPlace /\ (\A n \in Messages : Said(n)) /\ (\A n \in Mine : Once(n))
  BY AttemptsAre
<1>9. \A n : Stored(n)' <=> Stored(n)
  BY <1>1 DEF Stored
<1>10. ASSUME NEW n \in Messages, n \notin out
       PROVE  Said(n)'
  <2>1. /\ Heard(n)' <=> Heard(n)
        /\ Erred(n)' <=> Erred(n)
    BY <1>2, <1>10 DEF Concerns
  <2> HIDE DEF out
  <2>2. CASE UpdateChat(c, t, {})
    <3>1. UNCHANGED <<of, rows, unsure, unheard>> /\ {} \in SUBSET Conversations
          /\ sends'[n] = sends[n] /\ (n \in asked' => n \in asked)
      BY <1>1
    <3> QED BY <3>1, <2>1, <2>2, <1>4, <1>6, <1>10, OthersSaid
  <2>3. CASE UNCHANGED <<cache, forgotten>>
    <3>1. Said(n)
      BY <1>8
    <3>2. Failed(n)' <=> Failed(n)
      BY <2>3 DEF Failed
    <3> QED BY <3>1, <3>2, <2>1, <2>3, <1>1, <1>9 DEF Said
  <2> QED BY <2>2, <2>3, <1>7
<1>11. ASSUME UpdateChat(c, t, {})
       PROVE  /\ \A d \in Conversations : Within(cache'[d], d, of)
              /\ \A d \in Conversations : \A k \in DOMAIN cache'[d] : cache'[d][k].m = m =>
                   /\ e.kind = "chat.message" => cache'[d][k].id > 0 /\ cache'[d][k].state = "sent"
                   /\ e.kind = "error" => cache'[d][k].state = "failed"
              /\ forgotten \subseteq forgotten'
              /\ m \in Unconfirmed(cache[c]) => m \in forgotten' \/ m \in Shows(cache'[c])
  <2>1. {} \in SUBSET Conversations /\ UNCHANGED <<of, rows>>
    BY <1>1
  <2> HIDE DEF out, c
  <2>2. ((\A d \in Conversations : Within(cache[d], d, of))
           => \A d \in Conversations : Within(cache'[d], d, of))
    BY <2>1, <1>0, <1>4, <1>6, <1>11, UpdatesKeep
  <2>3. \A d \in Conversations : Within(cache'[d], d, of)
    BY <2>2 DEF Attempts, InPlace
  <2>4. /\ cache'[c] = LastOf(t) /\ forgotten \subseteq forgotten'
        /\ \A d \in Conversations : Unconfirmed(cache[d]) \subseteq Shows(cache'[d]) \cup forgotten'
    BY <2>1, <1>0, <1>4, <1>6, <1>11, Updates DEF Base
  <2>5. PICK h : Part(LastOf(t), t, h)
    BY <1>6, LastOfPart
  <2>6. \A d \in Conversations : \A k \in DOMAIN cache'[d] : cache'[d][k].m = m =>
          /\ e.kind = "chat.message" => cache'[d][k].id > 0 /\ cache'[d][k].state = "sent"
          /\ e.kind = "error" => cache'[d][k].state = "failed"
    <3>1. \A k \in DOMAIN cache'[c] : cache'[c][k].m = m =>
            /\ e.kind = "chat.message" => cache'[c][k].id > 0 /\ cache'[c][k].state = "sent"
            /\ e.kind = "error" => cache'[c][k].state = "failed"
      BY <2>4, <2>5, <1>0, <1>6 DEF Part
    <3>2. \A d \in Conversations : d # c => \A k \in DOMAIN cache'[d] : cache'[d][k].m # m
      BY <2>3, <1>0 DEF Within, c
    <3> QED BY <3>1, <3>2
  <2>7. m \in Unconfirmed(cache[c]) => m \in forgotten' \/ m \in Shows(cache'[c])
    BY <2>4, <1>0, <1>4
  <2> QED BY <2>3, <2>4, <2>6, <2>7
<1>12. ASSUME e.kind \in {"chat.message", "error"}
       PROVE  Said(m)'
  <2>1. /\ m \in Mine => Heard(m) /\ ~Heard(m)' /\ sends[m] = Idle /\ ~Failed(m)
        /\ e.kind = "error" => m \in Mine /\ Erred(m)
        /\ e.kind = "chat.message" => Stored(m)
    <3>1. m \in Mine => Concerns(e)
      BY <1>0, <1>12 DEF Concerns
    <3>2. m \in Mine => Said(m) /\ Once(m)
      BY <1>0, <1>4, <1>8
    <3>3. e.kind = "error" => m \in Mine
      BY <1>0, <1>2 DEF EventOK
    <3>4. e.kind = "chat.message" => Stored(m)
      BY <1>0, <1>2 DEF EventOK, IsRow, Stored
    <3> QED BY <3>1, <3>2, <3>3, <3>4, <1>0, <1>2 DEF Said
  <2>2. Said(m)
    BY <1>0, <1>4, <1>8
  <2>3. Failed(m)' => m \in Mine
    BY <1>0 DEF Base, CacheOK, Sane, Failed
  <2>4. Erred(m)' => m \in Mine /\ Heard(m)'
    <3>1. Erred(m)' => Erred(m)
      BY <1>0, <1>2
    <3>2. Erred(m) => m \in Mine
      BY DEF Base, WireOK, EventOK, Erred
    <3>3. Erred(m)' /\ m \in Mine => Heard(m)'
      BY DEF Erred, Heard, Concerns
    <3> QED BY <3>1, <3>2, <3>3
  <2>5. ~Erred(m)'
    BY <2>1, <2>4
  <2>6. CASE e.kind = "chat.message"
    <3>1. UpdateChat(c, t, {})
      BY <2>6, <1>7
    <3>2. \A d \in Conversations : \A k \in DOMAIN cache'[d] : cache'[d][k].m = m =>
            cache'[d][k].id > 0 /\ cache'[d][k].state = "sent"
      BY <3>1, <2>6, <1>11
    <3>3. ~Failed(m)'
      BY <3>2 DEF Failed
    <3>4. \A d \in Conversations : \A k \in DOMAIN cache'[d] :
            cache'[d][k].m = m /\ cache'[d][k].id = 0 /\ cache'[d][k].state = "sending" => FALSE
      BY <3>2
    <3> QED BY <3>3, <3>4, <2>1, <2>2, <2>5, <2>6, <1>1, <1>9 DEF Said, Idle
  <2>7. CASE e.kind = "error"
    <3>1. Stored(m) => m \in unsure \cap Mine
      BY <2>1, <2>2, <2>7 DEF Said
    <3>2. m \in asked => \/ Stored(m) \/ m \in unheard \cup forgotten
                           \/ m \in Unconfirmed(cache[c])
      BY <2>1, <2>2, <2>7, <1>0 DEF Said
    <3>3. CASE UpdateChat(c, t, {})
      <4>1. \A d \in Conversations : \A k \in DOMAIN cache'[d] : cache'[d][k].m = m =>
              cache'[d][k].state = "failed"
        BY <3>3, <2>7, <1>11
      <4>2. m \in Shows(cache'[c]) => Failed(m)'
        BY <4>1, <1>0, <1>4 DEF Shows, Failed
      <4>3. m \in asked => Stored(m) \/ Failed(m)' \/ m \in unheard \cup forgotten'
        BY <4>2, <3>2, <3>3, <1>11
      <4>4. \A d \in Conversations : \A k \in DOMAIN cache'[d] :
              cache'[d][k].m = m /\ cache'[d][k].id = 0 /\ cache'[d][k].state = "sending" => FALSE
        BY <4>1
      <4> QED BY <4>3, <4>4, <3>1, <2>1, <2>5, <2>7, <1>1, <1>9 DEF Said, Idle
    <3>4. CASE m \notin Shows(cache[c]) /\ UNCHANGED <<cache, forgotten>>
      <4>1. m \notin Unconfirmed(cache[c])
        BY <3>4 DEF Shows, Unconfirmed
      <4>2. \A d \in Conversations : \A k \in DOMAIN cache[d] : cache[d][k].m # m
        BY <3>4, <1>0 DEF Attempts, InPlace, Within, Shows
      <4>3. Failed(m)' <=> Failed(m)
        BY <3>4 DEF Failed
      <4> QED BY <4>1, <4>2, <4>3, <3>1, <3>2, <3>4, <2>1, <2>5, <2>7, <1>1, <1>9 DEF Said, Idle
    <3> QED BY <3>3, <3>4, <1>0, <1>7
  <2> QED BY <2>6, <2>7, <1>12
<1>13. \A n \in Messages : Said(n)'
  BY <1>0, <1>10, <1>12
<1>14. \A n \in Mine : Once(n)'
  BY <1>2, <1>8
<1>15. InPlace'
  <2>1. \A d \in Conversations : Within(cache'[d], d, of')
    <3>1. CASE UpdateChat(c, t, {})
      BY <3>1, <1>1, <1>11
    <3>2. CASE UNCHANGED cache
      BY <3>2, <1>1 DEF Attempts, InPlace
    <3> QED BY <3>1, <3>2, <1>7
  <2>2. older' # None => Within(older'.messages, older'.conversation, of')
    <3>1. CASE older' = older
      BY <3>1, <1>1 DEF Attempts, InPlace
    <3>2. CASE older # None /\ older' = [older EXCEPT !.crossed = TRUE]
      <4>1. older \in [conversation : Conversations, messages : Seq(EntryType), before : Nat,
                       read : BOOLEAN, page : Seq(EntryType), crossed : BOOLEAN, early : BOOLEAN]
        BY <3>2 DEF Base, OlderOK
      <4>2. older'.messages = older.messages /\ older'.conversation = older.conversation
        BY <3>2, <4>1
      <4> QED BY <3>2, <4>2, <1>1 DEF Attempts, InPlace
    <3> QED BY <3>1, <3>2, <1>1
  <2> QED BY <2>1, <2>2 DEF InPlace
<1>16. Attempts' <=> InPlace' /\ (\A n \in Messages : Said(n))' /\ (\A n \in Mine : Once(n))'
  BY AttemptsAre, PTL
<1> QED BY <1>13, <1>14, <1>15, <1>16
Unmixed == excuses \cap {"clobbered", "strayed"} = {}

(* A page is shown: nobody is told anything. *)
LEMMA PageAttempts ==
  ASSUME Base, Attempts, Base', UNCHANGED <<of, rows, sends, wire, asked, unsure, unheard>>,
         NEW c \in Conversations, NEW t \in Seq(EntryType),
         NEW load \in SUBSET Conversations, UpdateChat(c, t, load), Sane(t, rows, asked),
         Comes(t, cache[c], {}), Within(t, c, of), older' = older \/ older' = None
  PROVE  Attempts'
<1>1. Attempts <=> InPlace /\ (\A n \in Messages : Said(n)) /\ (\A n \in Mine : Once(n))
  BY AttemptsAre
<1>2. \A n : (Heard(n)' <=> Heard(n)) /\ (Erred(n)' <=> Erred(n)) /\ (Once(n)' <=> Once(n))
  BY DEF Heard, Erred, Once, Concerns
<1>3. UNCHANGED <<of, rows, unsure, unheard>> /\ UNCHANGED <<of, rows>>
  OBVIOUS
<1>4. ASSUME NEW n \in Messages
      PROVE  Said(n)'
  <2>1. sends'[n] = sends[n] /\ n \notin {} /\ (n \in asked' => n \in asked)
    OBVIOUS
  <2>2. UNCHANGED <<of, rows, unsure, unheard>>
    BY <1>3
  <2>3. (Heard(n)' <=> Heard(n)) /\ (Erred(n)' <=> Erred(n))
    BY <1>2
  <2>4. Base /\ Attempts /\ UpdateChat(c, t, load) /\ Sane(t, rows, asked) /\ Comes(t, cache[c], {})
    OBVIOUS
  <2> DEFINE out == {}
  <2>5. Comes(t, cache[c], out) /\ n \notin out
    BY <2>1
  <2> HIDE DEF out
  <2> QED BY <2>1, <2>2, <2>3, <2>4, <2>5, OthersSaid
<1>5. \A d \in Conversations : Within(cache'[d], d, of)
  <2>1. ((\A d \in Conversations : Within(cache[d], d, of))
           => \A d \in Conversations : Within(cache'[d], d, of))
    BY <1>3, UpdatesKeep
  <2> QED BY <2>1 DEF Attempts, InPlace
<1>6. InPlace'
  BY <1>5 DEF Attempts, InPlace
<1>7. \A n \in Mine : Once(n)'
  BY <1>1, <1>2
<1>8. Attempts' <=> InPlace' /\ (\A n \in Messages : Said(n))' /\ (\A n \in Mine : Once(n))'
  BY AttemptsAre, PTL
<1> QED BY <1>4, <1>6, <1>7, <1>8

LEMMA FetchDoneAttempts ==
  ASSUME Base, Attempts, Base', FetchDone
  PROVE  Attempts'
<1> DEFINE c == fetch.conversation
<1> DEFINE t == fetch.page
<1>1. /\ fetch # None /\ UpdateChat(c, t, {c})
      /\ UNCHANGED <<of, rows, sends, wire, asked, unsure, unheard>> /\ older' = older
  BY DEF FetchDone, server, socket
<1>2. /\ c \in Conversations /\ t \in Seq(EntryType) /\ {c} \in SUBSET Conversations
      /\ Sane(t, rows, asked) /\ Within(t, c, of) /\ AllSent(t)
  BY <1>1 DEF Base, FetchOK, PageLike
<1>3. Comes(t, cache[c], {})
  BY <1>2 DEF Comes, AllSent
<1> HIDE DEF c, t
<1> QED BY <1>1, <1>2, <1>3, PageAttempts

LEMMA OlderDoneAttempts ==
  ASSUME Base, Attempts, Base', OlderDone, Unmixed'
  PROVE  Attempts'
<1> DEFINE p == older.page
<1> DEFINE s == older.messages
<1> DEFINE t == p \o s
<1>1. /\ older # None /\ older' = None /\ UpdateChat(view, t, {view})
      /\ UNCHANGED <<of, rows, sends, wire, asked, unsure, unheard>>
      /\ cache[view] = s /\ view = older.conversation
  <2>1. /\ older # None /\ older' = None /\ UpdateChat(view, t, {view})
        /\ UNCHANGED <<of, rows, sends, wire, asked, unsure, unheard>>
        /\ excuses' = excuses
             \cup (IF older.crossed \/ cache[view] # s THEN {"clobbered"} ELSE {})
             \cup (IF view # older.conversation THEN {"strayed"} ELSE {})
             \cup (IF older.early THEN {"early"} ELSE {})
    BY DEF OlderDone, server, socket
  <2>2. cache[view] = s /\ view = older.conversation
    BY <2>1 DEF Unmixed
  <2> QED BY <2>1, <2>2
<1>2. /\ p \in Seq(EntryType) /\ s \in Seq(EntryType)
      /\ Sane(p, rows, asked) /\ Within(p, view, of) /\ AllSent(p)
      /\ Sane(s, rows, asked)
  BY <1>1 DEF Base, OlderOK, PageLike
<1>3. view \in Conversations /\ {view} \in SUBSET Conversations /\ Within(s, view, of)
  BY <1>1 DEF Base, CacheOK, Attempts, InPlace
<1> HIDE DEF p, s
<1>4. /\ t \in Seq(EntryType) /\ Sane(t, rows, asked) /\ Within(t, view, of)
      /\ \A k \in DOMAIN t : \/ k \in DOMAIN p /\ t[k] = p[k]
                             \/ k - Len(p) \in DOMAIN s /\ t[k] = s[k - Len(p)]
  BY <1>2, <1>3, JoinKeeps
<1> HIDE DEF t
<1>5. Comes(t, cache[view], {})
  BY <1>1, <1>2, <1>4 DEF Comes, AllSent
<1>6. older' = older \/ older' = None
  BY <1>1
<1>7. UNCHANGED <<of, rows, sends, wire, asked, unsure, unheard>> /\ UpdateChat(view, t, {view})
  BY <1>1
<1> QED BY <1>3, <1>4, <1>5, <1>6, <1>7, PageAttempts

LEMMA NextAttempts ==
  ASSUME Base, Base', Unmixed => Attempts, [Next]_vars
  PROVE  Unmixed' => Attempts'
<1> SUFFICES ASSUME Unmixed'
             PROVE  Attempts'
  OBVIOUS
<1>1. Attempts
  <2>1. excuses \subseteq excuses'
    BY ExcusesGrow
  <2> QED BY <2>1 DEF Unmixed
<1>2. ASSUME NEW m \in Messages,
             SendChat(m) \/ OthersSend(m) \/ Refuse(m) \/ Store(m) \/ StoreLost(m) \/ Answer(m)
      PROVE  Attempts'
  BY <1>1, <1>2, SendChatAttempts, OthersSendAttempts, RefuseAttempts, StoreAttempts,
     StoreLostAttempts, AnswerAttempts
<1>3. ASSUME NEW i \in 1 .. Len(rows), EditMessage(i) \/ DeleteMessage(i)
      PROVE  Attempts'
  <2>1. i \in DOMAIN rows /\ rows[i].ver \in Nat /\ rows[i].ver + 1 \in Nat
    BY <1>3, RowsAre DEF Base, EditMessage, DeleteMessage
  <2>2. ASSUME NEW ver \in Nat, NEW gone \in BOOLEAN, Change(i, ver, gone)
        PROVE  Attempts'
    <3>1. Grows(rows, rows') /\ DOMAIN rows' = DOMAIN rows
      BY <2>1, <2>2, ChangeIs DEF Base
    <3>2. \A m : Stored(m)' <=> Stored(m)
      BY <3>1 DEF Stored, Grows
    <3>3. UNCHANGED <<of, sends, wire, cache, asked, unsure, unheard, forgotten>> /\ older' = older
      BY <2>2 DEF Change, socket, client, history
    <3>4. older' # None => Within(older'.messages, older'.conversation, of)
      BY <1>1, <3>3 DEF Attempts, InPlace
    <3> QED BY <3>2, <3>3, <3>4, <1>1, AttemptsStay
  <2>3. Change(i, rows[i].ver + 1, FALSE) \/ Change(i, rows[i].ver, TRUE)
    BY <1>3 DEF EditMessage, DeleteMessage
  <2>4. FALSE \in BOOLEAN /\ TRUE \in BOOLEAN
    OBVIOUS
  <2> QED BY <2>1, <2>2, <2>3, <2>4
<1>4. ASSUME NEW a \in announces, AnnounceChatUpdate(a)
      PROVE  Attempts'
  BY <1>1, <1>4, AnnounceAttempts
<1>5. ASSUME NEW lost \in SUBSET Mine, Lose(lost)
      PROVE  Attempts'
  BY <1>1, <1>5, LoseAttempts
<1>6. CASE Receive
  BY <1>1, <1>6, ReceiveAttempts
<1>7. CASE FetchDone
  BY <1>1, <1>7, FetchDoneAttempts
<1>8. CASE OlderDone
  BY <1>1, <1>8, OlderDoneAttempts
<1>9. ASSUME UNCHANGED <<of, rows, sends, wire, cache, asked, unsure, unheard, forgotten>>,
             older' # None => Within(older'.messages, older'.conversation, of)
      PROVE  Attempts'
  <2>1. \A m : Stored(m)' <=> Stored(m)
    BY <1>9 DEF Stored
  <2>2. UNCHANGED <<of, sends, wire, cache, asked, unsure, unheard, forgotten>>
    BY <1>9
  <2> QED BY <2>1, <2>2, <1>1, <1>9, AttemptsStay
<1>10. ASSUME (\E c \in Conversations : Open(c)) \/ Reconnect \/ FetchHistory \/ FetchRead \/ UNCHANGED vars
       PROVE  Attempts'
  <2>1. UNCHANGED <<of, rows, sends, wire, cache, asked, unsure, unheard, forgotten>> /\ older' = older
    BY <1>10 DEF Open, Reconnect, FetchHistory, FetchRead, vars, server, socket, client, history
  <2>2. older' # None => Within(older'.messages, older'.conversation, of)
    BY <1>1, <2>1 DEF Attempts, InPlace
  <2> QED BY <2>1, <2>2, <1>9
<1>11. CASE LoadOlder
  <2>1. /\ UNCHANGED <<of, rows, sends, wire, cache, asked, unsure, unheard, forgotten>>
        /\ older'.messages = cache[view] /\ older'.conversation = view
    BY <1>11 DEF LoadOlder, server, socket, history
  <2>2. Within(cache[view], view, of)
    BY <1>1 DEF Base, CacheOK, Attempts, InPlace
  <2> QED BY <2>1, <2>2, <1>9
<1>12. CASE OlderRead
  <2>1. /\ UNCHANGED <<of, rows, sends, wire, cache, asked, unsure, unheard, forgotten>>
        /\ older # None
        /\ older' = [older EXCEPT !.read = TRUE, !.page = Page(older.conversation, older.before)]
    BY <1>12 DEF OlderRead, server, socket, history
  <2>2. older \in [conversation : Conversations, messages : Seq(EntryType), before : Nat,
                   read : BOOLEAN, page : Seq(EntryType), crossed : BOOLEAN, early : BOOLEAN]
    BY <2>1 DEF Base, OlderOK
  <2>3. older'.messages = older.messages /\ older'.conversation = older.conversation
    BY <2>1, <2>2
  <2>4. Within(older.messages, older.conversation, of)
    BY <1>1, <2>1 DEF Attempts, InPlace
  <2> QED BY <2>1, <2>3, <2>4, <1>9
<1> QED
  BY <1>2, <1>3, <1>4, <1>5, <1>6, <1>7, <1>8, <1>10, <1>11, <1>12 DEF Next

LEMMA InitAttempts ==
  ASSUME Init
  PROVE  Attempts
<1>1. DOMAIN <<>> = {}
  OBVIOUS
<1>2. \A m : ~Heard(m) /\ ~Erred(m) /\ ~Stored(m) /\ ~Failed(m)
  BY <1>1 DEF Init, Heard, Erred, Stored, Failed
<1>3. \A m \in Messages : sends[m] = Idle
  BY DEF Init
<1>4. InPlace
  BY <1>1 DEF Init, InPlace, Within
<1>5. OneWord
  BY <1>1, <1>2 DEF Init, OneWord
<1>6. Truthful
  BY <1>2, <1>3 DEF Truthful, Idle
<1>7. Remembered /\ Awaited
  BY <1>1 DEF Init, Remembered, Awaited
<1> QED BY <1>4, <1>5, <1>6, <1>7 DEF Attempts

LEMMA QuietNoticed ==
  ASSUME Base, Unmixed => Attempts
  PROVE  Noticed
<1> SUFFICES ASSUME Quiet, Unmixed
             PROVE  /\ \A m \in asked : Stored(m) \/ Failed(m) \/ m \in unheard \cup forgotten
                    /\ \A c \in Conversations : \A k \in DOMAIN cache[c] :
                         LET e == cache[c][k]
                         IN e.id = 0 => \/ e.state = "sending" /\ e.m \in unheard
                                        \/ e.state = "failed" /\ (Stored(e.m) => e.m \in unsure)
  BY DEF Noticed, Unmixed
<1>1. /\ \A m : ~Heard(m) /\ ~Erred(m)
      /\ \A m \in Messages : sends[m] = Idle
  <2>1. DOMAIN wire = {}
    BY DEF Quiet
  <2> QED BY <2>1 DEF Quiet, Heard, Erred
<1>2. \A m \in asked : Stored(m) \/ Failed(m) \/ m \in unheard \cup forgotten
  <2>1. \A m \in asked : m \in Messages
    BY MineAreMessages DEF Base, AskedOK
  <2> QED BY <2>1, <1>1 DEF Attempts, Remembered, Idle
<1>3. ASSUME NEW c \in Conversations, NEW k \in DOMAIN cache[c], cache[c][k].id = 0
      PROVE  LET e == cache[c][k]
             IN \/ e.state = "sending" /\ e.m \in unheard
                \/ e.state = "failed" /\ (Stored(e.m) => e.m \in unsure)
  <2> DEFINE e == cache[c][k]
  <2>1. e \in EntryType /\ Known(e, rows)
    <3>1. cache[c] \in Seq(EntryType) /\ Known(e, rows)
      BY DEF Base, CacheOK, Sane
    <3> QED BY <3>1, Entries
  <2>2. e.state \in {"sending", "failed"} /\ e.m \in Messages
    BY <2>1, <1>3 DEF EntryType, Known
  <2>3. e.state = "sending" => e.m \in unheard
    BY <2>2, <1>1, <1>3 DEF Attempts, Awaited
  <2>4. e.state = "failed" => Failed(e.m)
    BY DEF Failed
  <2>5. e.state = "failed" /\ Stored(e.m) => e.m \in unsure
    BY <2>2, <2>4 DEF Attempts, Truthful
  <2> HIDE DEF e
  <2> QED BY <2>2, <2>3, <2>5 DEF e
<1> QED BY <1>2, <1>3

(* What the cache, the wire and the pages on their way hold are messages D1    *)
(* has or this client has sent, each event is of a row or of one's own        *)
(* command, and a page is in order and complete to its end.                   *)
THEOREM BaseHolds == Spec => []Base
<1>1. Base /\ [Next]_vars => Base'
  BY NextBase
<1> QED BY InitBase, <1>1, PTL DEF Spec

(* No message of this client is lost without a word: once nothing is under way *)
(* D1 has it, or it is shown as failed, unless the socket lost the command or  *)
(* the answer or the entry was dropped; and what is shown as failed D1 does not *)
(* have, unless D1's own answer was lost.                                    *)
THEOREM NoticedHolds == Spec => []Noticed
<1>1. Init => Base /\ (Unmixed => Attempts)
  BY InitBase, InitAttempts
<1>2. Base /\ (Unmixed => Attempts) /\ [Next]_vars => Base' /\ (Unmixed' => Attempts')
  BY NextBase, NextAttempts
<1>3. Base /\ (Unmixed => Attempts) => Noticed
  BY QuietNoticed
<1> QED BY <1>1, <1>2, <1>3, PTL DEF Spec
-----------------------------------------------------------------------------
(***************************************************************************)
(* What a conversation shows.  Each row's last event on the wire is what it   *)
(* is, or an announcement will say; a loaded conversation is in order, right  *)
(* but for what is on its way, and whole but for messages on their way; and   *)
(* so are the pages on their way, unless an event crossed them.              *)
(***************************************************************************)
Matters(e, i, table) ==
  e.kind # "error" /\ e.id = i /\ ~(e.kind = "chat.updated" /\ table[i].gone)
Mentioned(w, i, table) == \E k \in DOMAIN w : Matters(w[k], i, table)
LastSays(w, i, table) ==
  \A k \in DOMAIN w :
    Matters(w[k], i, table) /\ (\A l \in DOMAIN w : Matters(w[l], i, table) => l <= k)
      => Agrees(w[k], table)
Announced(i) == \E a \in announces : a.id = i /\ a.ver = rows[i].ver /\ a.gone = rows[i].gone
Pending == {i \in DOMAIN rows : Announced(i) \/ Mentioned(wire, i, rows)}
LastWord == \A i \in DOMAIN rows : Announced(i) \/ LastSays(wire, i, rows)

Brought(w, i) == \E k \in DOMAIN w : w[k].kind = "chat.message" /\ w[k].id = i
Coming(i) == sends[rows[i].m].at = "read" \/ Brought(wire, i)
Due(c) == {i \in DOMAIN rows : of[rows[i].m] = c /\ rows[i].m \notin unsure /\ ~Coming(i)}

ShowsRight(c) ==
  /\ Ascending(cache[c]) /\ Len(cache[c]) <= CacheSize
  /\ c \in loaded => Right(cache[c], rows, Pending) /\ Whole(cache[c], Due(c))
FetchRight(c) ==
  fetch # None /\ fetch.conversation = c /\ fetch.read /\ ~fetch.crossed =>
    Right(fetch.page, rows, Pending) /\ Whole(fetch.page, Due(c))
OlderRight(c) ==
  older # None /\ older.conversation = c =>
    /\ Ascending(older.messages)
    /\ ~older.crossed /\ ~older.early =>
         /\ Right(older.messages, rows, Pending) /\ Whole(older.messages, Due(c))
         /\ older.read => Right(older.page, rows, Pending)
AllRight == \A c \in Conversations : ShowsRight(c) /\ FetchRight(c) /\ OlderRight(c)

LEMMA LookRow ==
  ASSUME RowsOK, NEW x, x.gone \in BOOLEAN, x.edited \in BOOLEAN, x.id \in DOMAIN rows
  PROVE  Look(x) = Look(Row(x.id)) <=> Agrees(x, rows)
<1>1. rows[x.id].gone \in BOOLEAN /\ rows[x.id].ver \in Nat
  BY RowsAre
<1> DEFINE y == Row(x.id)
<1>2. /\ y.gone = rows[x.id].gone /\ y.ver = rows[x.id].ver /\ y.edited = (rows[x.id].ver > 0)
  BY DEF Row
<1> HIDE DEF y
<1>3. y.gone \in BOOLEAN /\ y.edited \in BOOLEAN
  BY <1>1, <1>2
<1>4. Look(x) = Look(y)
      <=> /\ x.gone = y.gone
          /\ y.gone \/ (x.ver = y.ver /\ x.edited = y.edited)
  BY <1>3, LookAgrees
<1> QED BY <1>2, <1>4 DEF Agrees, y

(* A row that is what it was, or of which something is on its way, stays right. *)
LEMMA RightMoves ==
  ASSUME NEW s, NEW table, NEW next, NEW sent, NEW c, NEW to, NEW pending, NEW coming,
         Sane(s, table, sent), Within(s, c, to), Right(s, table, pending),
         \A i \in DOMAIN table : to[table[i].m] = c =>
           i \in coming \/ (i \notin pending /\ next[i] = table[i])
  PROVE  Right(s, next, coming)
<1> SUFFICES ASSUME NEW k \in Confirmed(s)
             PROVE  s[k].id \in coming \/ Agrees(s[k], next)
  BY DEF Right
<1>1. k \in DOMAIN s /\ s[k].id > 0
  BY DEF Confirmed
<1>2. Known(s[k], table) /\ to[s[k].m] = c
  BY <1>1 DEF Sane, Within
<1>3. s[k].id \in DOMAIN table /\ table[s[k].id].m = s[k].m
  BY <1>1, <1>2 DEF Known, IsRow
<1>4. s[k].id \in pending \/ Agrees(s[k], table)
  BY DEF Right
<1> QED BY <1>2, <1>3, <1>4 DEF Agrees

LEMMA WholeMoves ==
  ASSUME NEW s, NEW due, NEW less \in SUBSET due, Whole(s, due)
  PROVE  Whole(s, less)
BY DEF Whole

(* What the server does leaves what the client has right. *)
Steady(c) ==
  /\ Due(c)' \subseteq Due(c)
  /\ \A i \in DOMAIN rows : of[rows[i].m] = c =>
       i \in Pending' \/ (i \notin Pending /\ rows'[i] = rows[i])

LEMMA ServerRight ==
  ASSUME Base, InPlace, AllRight, UNCHANGED <<of, cache, loaded, fetch, older>>,
         \A c \in Conversations : Settling(c) => Steady(c)
  PROVE  AllRight'
<1> SUFFICES ASSUME NEW c \in Conversations
             PROVE  (ShowsRight(c) /\ FetchRight(c) /\ OlderRight(c))'
  BY DEF AllRight
<1> DEFINE next == rows'
<1> DEFINE coming == Pending'
<1> DEFINE less == Due(c)'
<1>1. ASSUME NEW s, NEW sent, Sane(s, rows, sent), Within(s, c, of), Settling(c)
      PROVE  /\ Right(s, rows, Pending) => Right(s, rows', Pending')
             /\ Whole(s, Due(c)) => Whole(s, Due(c)')
  <2>1. /\ less \in SUBSET Due(c)
        /\ \A i \in DOMAIN rows : of[rows[i].m] = c =>
             i \in coming \/ (i \notin Pending /\ next[i] = rows[i])
    BY <1>1 DEF Steady
  <2> HIDE DEF next, coming, less
  <2>2. Right(s, rows, Pending) => Right(s, next, coming)
    BY <1>1, <2>1, RightMoves
  <2>3. Whole(s, Due(c)) => Whole(s, less)
    BY <2>1, WholeMoves
  <2> QED BY <2>2, <2>3 DEF next, coming, less
<1>2. ShowsRight(c) /\ FetchRight(c) /\ OlderRight(c)
  BY DEF AllRight
<1>3. ShowsRight(c)'
  <2>1. c \in loaded => Settling(c)
    BY DEF Settling
  <2>2. Sane(cache[c], rows, asked) /\ Within(cache[c], c, of)
    BY DEF Base, CacheOK, InPlace
  <2> QED BY <2>1, <2>2, <1>1, <1>2 DEF ShowsRight
<1>4. FetchRight(c)'
  <2> SUFFICES ASSUME fetch # None, fetch.conversation = c, fetch.read, ~fetch.crossed
               PROVE  Right(fetch.page, rows', Pending') /\ Whole(fetch.page, Due(c)')
    BY DEF FetchRight
  <2>1. Settling(c)
    BY DEF Settling
  <2>2. Sane(fetch.page, rows, asked) /\ Within(fetch.page, c, of)
    BY DEF Base, FetchOK, PageLike
  <2> QED BY <2>1, <2>2, <1>1, <1>2 DEF FetchRight
<1>5. OlderRight(c)'
  <2> SUFFICES ASSUME older # None, older.conversation = c
               PROVE  /\ Ascending(older.messages)
                      /\ ~older.crossed /\ ~older.early =>
                           /\ Right(older.messages, rows', Pending')
                           /\ Whole(older.messages, Due(c)')
                           /\ older.read => Right(older.page, rows', Pending')
    BY DEF OlderRight
  <2>1. Settling(c)
    BY DEF Settling
  <2>2. /\ Sane(older.messages, rows, asked) /\ Within(older.messages, c, of)
        /\ Sane(older.page, rows, asked) /\ Within(older.page, c, of)
    BY DEF Base, OlderOK, PageLike, InPlace
  <2> QED BY <2>1, <2>2, <1>1, <1>2 DEF OlderRight
<1> QED BY <1>3, <1>4, <1>5
-----------------------------------------------------------------------------
(* What the wire says of a row when an event joins it, or leaves it.          *)
LEMMA AppendSays ==
  ASSUME NEW w \in Seq(EventType), NEW e \in EventType, NEW i, NEW table
  PROVE  LET u == Append(w, e)
         IN  /\ Mentioned(u, i, table) <=> Mentioned(w, i, table) \/ Matters(e, i, table)
             /\ Brought(u, i) <=> Brought(w, i) \/ (e.kind = "chat.message" /\ e.id = i)
             /\ Matters(e, i, table) /\ Agrees(e, table) => LastSays(u, i, table)
             /\ ~Matters(e, i, table) => (LastSays(u, i, table) <=> LastSays(w, i, table))
<1> DEFINE u == Append(w, e)
<1>1. /\ DOMAIN w = 1 .. Len(w) /\ Len(w) \in Nat
      /\ u \in Seq(EventType) /\ Len(u) = Len(w) + 1 /\ u[Len(w) + 1] = e
      /\ \A k \in 1 .. Len(w) : u[k] = w[k]
  BY LenProperties, AppendProperties
<1>2. DOMAIN u = 1 .. Len(w) + 1
  BY <1>1, LenProperties
<1> HIDE DEF u
<1>3. /\ \A k \in DOMAIN w : k \in DOMAIN u /\ u[k] = w[k]
      /\ \A k \in DOMAIN u : k \in DOMAIN w \/ k = Len(w) + 1
      /\ Len(w) + 1 \in DOMAIN u /\ u[Len(w) + 1] = e
      /\ \A k \in DOMAIN u : k <= Len(w) + 1
      /\ \A k \in DOMAIN w : k \in Nat /\ k < Len(w) + 1
  BY <1>1, <1>2
<1>4. Mentioned(u, i, table) <=> Mentioned(w, i, table) \/ Matters(e, i, table)
  BY <1>3 DEF Mentioned
<1>5. Brought(u, i) <=> Brought(w, i) \/ (e.kind = "chat.message" /\ e.id = i)
  BY <1>3 DEF Brought
<1>6. ASSUME Matters(e, i, table), Agrees(e, table)
      PROVE  LastSays(u, i, table)
  <2> SUFFICES ASSUME NEW k \in DOMAIN u, \A l \in DOMAIN u : Matters(u[l], i, table) => l <= k
               PROVE  u[k] = e
    BY <1>6 DEF LastSays
  <2>1. Len(w) + 1 <= k
    BY <1>3, <1>6
  <2>2. k = Len(w) + 1
    BY <2>1, <1>1, <1>2
  <2> QED BY <2>2, <1>3
<1>7. ASSUME ~Matters(e, i, table)
      PROVE  LastSays(u, i, table) <=> LastSays(w, i, table)
  <2>1. \A k \in DOMAIN u : Matters(u[k], i, table) => k \in DOMAIN w /\ u[k] = w[k]
    BY <1>3, <1>7
  <2>2. \A k \in DOMAIN w : k \in DOMAIN u /\ u[k] = w[k]
    BY <1>3
  <2> QED BY <2>1, <2>2 DEF LastSays
<1> QED BY <1>4, <1>5, <1>6, <1>7 DEF u

LEMMA TailSays ==
  ASSUME NEW w \in Seq(EventType), w # <<>>, NEW i, NEW table
  PROVE  /\ Mentioned(w, i, table) =>
              Matters(Head(w), i, table) \/ Mentioned(Tail(w), i, table)
         /\ Mentioned(Tail(w), i, table) => Mentioned(w, i, table)
         /\ Brought(w, i) => Brought(Tail(w), i)
                             \/ (Head(w).kind = "chat.message" /\ Head(w).id = i)
         /\ LastSays(w, i, table) => LastSays(Tail(w), i, table)
         /\ LastSays(w, i, table) /\ Matters(Head(w), i, table) /\ ~Mentioned(Tail(w), i, table)
              => Agrees(Head(w), table)
<1> DEFINE u == Tail(w)
<1> DEFINE e == Head(w)
<1>1. /\ e = w[1] /\ 1 \in DOMAIN w
      /\ DOMAIN w = 1 .. Len(w) /\ Len(w) \in Nat /\ DOMAIN u = 1 .. Len(w) - 1
      /\ \A k \in DOMAIN u : k + 1 \in DOMAIN w /\ u[k] = w[k + 1]
      /\ \A k \in DOMAIN w : k = 1 \/ (k - 1 \in DOMAIN u /\ u[k - 1] = w[k])
  BY Takes
<1> HIDE DEF u, e
<1>2. Mentioned(w, i, table) => Matters(e, i, table) \/ Mentioned(u, i, table)
  BY <1>1 DEF Mentioned
<1>3. Mentioned(u, i, table) => Mentioned(w, i, table)
  BY <1>1 DEF Mentioned
<1>4. Brought(w, i) => Brought(u, i) \/ (e.kind = "chat.message" /\ e.id = i)
  BY <1>1 DEF Brought
<1>5. ASSUME LastSays(w, i, table)
      PROVE  LastSays(u, i, table)
  <2> SUFFICES ASSUME NEW k \in DOMAIN u, Matters(u[k], i, table),
                      \A l \in DOMAIN u : Matters(u[l], i, table) => l <= k
               PROVE  Agrees(u[k], table)
    BY DEF LastSays
  <2>1. k + 1 \in DOMAIN w /\ Matters(w[k + 1], i, table) /\ u[k] = w[k + 1]
    BY <1>1
  <2>2. ASSUME NEW l \in DOMAIN w, Matters(w[l], i, table)
        PROVE  l <= k + 1
    <3>1. CASE l = 1
      BY <3>1, <1>1
    <3>2. CASE l - 1 \in DOMAIN u /\ u[l - 1] = w[l]
      <4>1. l - 1 <= k
        BY <3>2, <2>2
      <4> QED BY <4>1, <1>1
    <3> QED BY <3>1, <3>2, <1>1
  <2> QED BY <2>1, <2>2, <1>5 DEF LastSays
<1>6. ASSUME LastSays(w, i, table), Matters(e, i, table), ~Mentioned(u, i, table)
      PROVE  Agrees(e, table)
  <2>1. \A l \in DOMAIN w : Matters(w[l], i, table) => l = 1
    BY <1>1, <1>6 DEF Mentioned
  <2>2. \A l \in DOMAIN w : Matters(w[l], i, table) => l <= 1
    BY <2>1
  <2> QED BY <2>2, <1>1, <1>6 DEF LastSays
<1> QED BY <1>2, <1>3, <1>4, <1>5, <1>6 DEF u, e

(* Of a row that does not change, the wire says what it said.                 *)
LEMMA SaysMoves ==
  ASSUME NEW w, NEW i, NEW table, NEW next, next[i] = table[i]
  PROVE  /\ Mentioned(w, i, next) <=> Mentioned(w, i, table)
         /\ LastSays(w, i, next) <=> LastSays(w, i, table)
<1>1. \A e : Matters(e, i, next) <=> Matters(e, i, table)
  BY DEF Matters
<1>2. \A e : Matters(e, i, table) => (Agrees(e, next) <=> Agrees(e, table))
  BY DEF Matters, Agrees
<1>3. Mentioned(w, i, next) <=> Mentioned(w, i, table)
  BY <1>1 DEF Mentioned
<1>4. LastSays(w, i, next) <=> LastSays(w, i, table)
  BY <1>1, <1>2 DEF LastSays
<1> QED BY <1>3, <1>4

(* The wire says of each row what it said.                                    *)
SameSaid(w, u) == \A i, table : /\ Mentioned(u, i, table) <=> Mentioned(w, i, table)
                                /\ LastSays(u, i, table) <=> LastSays(w, i, table)
                                /\ Brought(u, i) <=> Brought(w, i)

LEMMA FailSaid ==
  ASSUME Base, NEW m \in Messages, Fail(m)
  PROVE  SameSaid(wire, wire')
<1> DEFINE e == Event("error", m, Idle)
<1>1. CASE wire' = wire
  BY <1>1 DEF SameSaid
<1>2. CASE wire' = Append(wire, e)
  <2>1. e \in EventType /\ e.kind = "error"
    BY DEF Event, Idle, EventType
  <2> HIDE DEF e
  <2>2. wire \in Seq(EventType)
    BY DEF Base, WireOK
  <2> SUFFICES ASSUME NEW i, NEW table
               PROVE  /\ Mentioned(wire', i, table) <=> Mentioned(wire, i, table)
                      /\ LastSays(wire', i, table) <=> LastSays(wire, i, table)
                      /\ Brought(wire', i) <=> Brought(wire, i)
    BY DEF SameSaid
  <2>3. ~Matters(e, i, table) /\ e.kind # "chat.message"
    BY <2>1 DEF Matters
  <2> QED BY <1>2, <2>1, <2>2, <2>3, AppendSays
<1> QED BY <1>1, <1>2 DEF Fail, Deliver

(* The server works on, but what it has to say is what it had to say.         *)
LEMMA QuietServer ==
  ASSUME Base, Base', LastWord, UNCHANGED <<of, announces>>, SameSaid(wire, wire'),
         \A i \in DOMAIN rows : i \in DOMAIN rows' /\ rows'[i] = rows[i],
         \A i \in DOMAIN rows' :
           i \in DOMAIN rows \/ rows'[i].m \in unsure' \/ sends'[rows'[i].m].at = "read",
         unsure \subseteq unsure',
         \A m \in Messages : sends[m].at = "read" => sends'[m].at = "read" \/ m \in unsure'
  PROVE  LastWord' /\ \A c \in Conversations : Steady(c)
<1>1. \A i \in DOMAIN rows : Announced(i)' <=> Announced(i)
  BY DEF Announced
<1>2. ASSUME NEW i \in DOMAIN rows
      PROVE  /\ Mentioned(wire', i, rows') <=> Mentioned(wire, i, rows)
             /\ LastSays(wire', i, rows') <=> LastSays(wire, i, rows)
  <2>1. rows'[i] = rows[i]
    OBVIOUS
  <2> DEFINE next == rows'
  <2>2. /\ Mentioned(wire, i, next) <=> Mentioned(wire, i, rows)
        /\ LastSays(wire, i, next) <=> LastSays(wire, i, rows)
    <3> HIDE DEF next
    <3> QED BY <2>1, SaysMoves DEF next
  <2> QED BY <2>2 DEF SameSaid
<1>3. LastWord'
  <2> SUFFICES ASSUME NEW i \in DOMAIN rows'
               PROVE  Announced(i)' \/ LastSays(wire', i, rows')
    BY DEF LastWord
  <2>1. CASE i \in DOMAIN rows
    BY <2>1, <1>1, <1>2 DEF LastWord
  <2>2. CASE i \notin DOMAIN rows
    <3>1. \A k \in DOMAIN wire : ~Matters(wire[k], i, rows')
      BY <2>2 DEF Base, WireOK, EventOK, IsRow, Matters
    <3>2. LastSays(wire, i, rows')
      BY <3>1 DEF LastSays
    <3> QED BY <3>2 DEF SameSaid
  <2> QED BY <2>1, <2>2
<1>4. ASSUME NEW c \in Conversations
      PROVE  Steady(c)
  <2>1. ASSUME NEW i \in DOMAIN rows
        PROVE  i \in Pending' \/ (i \notin Pending /\ rows'[i] = rows[i])
    BY <1>1, <1>2 DEF Pending
  <2>2. ASSUME NEW i \in Due(c)'
        PROVE  i \in Due(c)
    <3>1. /\ i \in DOMAIN rows' /\ of'[rows'[i].m] = c /\ rows'[i].m \notin unsure'
          /\ sends'[rows'[i].m].at # "read" /\ ~Brought(wire', i)
      BY <2>2 DEF Due, Coming
    <3>2. i \in DOMAIN rows /\ rows'[i] = rows[i] /\ rows[i].m \in Messages
      <4>1. i \in DOMAIN rows /\ rows'[i] = rows[i]
        BY <3>1
      <4> QED BY <4>1, RowsAre DEF Base
    <3>3. ~Brought(wire, i)
      BY <3>1 DEF SameSaid
    <3> QED BY <3>1, <3>2, <3>3 DEF Due, Coming
  <2> QED BY <2>1, <2>2 DEF Steady
<1> QED BY <1>3, <1>4

LEMMA OthersSendRight ==
  ASSUME Base, Base', LastWord, NEW m \in Messages, OthersSend(m)
  PROVE  LastWord' /\ \A c \in Conversations : Steady(c)
<1>1. /\ UNCHANGED <<of, rows, announces, wire, unsure>>
      /\ sends[m] = Idle /\ sends' = [sends EXCEPT ![m].at = "sent"]
  BY DEF OthersSend, socket, history
<1>2. \A n \in Messages : sends[n].at = "read" => sends'[n].at = "read"
  BY <1>1 DEF Base, SendsOK, SendType, Idle
<1>3. SameSaid(wire, wire')
  BY <1>1 DEF SameSaid
<1>4. UNCHANGED <<of, announces>>
  BY <1>1
<1> QED BY <1>1, <1>2, <1>3, <1>4, QuietServer

LEMMA RefuseRight ==
  ASSUME Base, Base', LastWord, NEW m \in Messages, Refuse(m)
  PROVE  LastWord' /\ \A c \in Conversations : Steady(c)
<1>1. /\ UNCHANGED <<of, rows, announces, unsure>> /\ Fail(m)
      /\ sends[m].at = "sent" /\ sends' = [sends EXCEPT ![m] = Idle]
  BY DEF Refuse
<1>2. \A n \in Messages : sends[n].at = "read" => sends'[n].at = "read"
  BY <1>1 DEF Base, SendsOK
<1>3. SameSaid(wire, wire')
  BY <1>1, FailSaid
<1>4. UNCHANGED <<of, announces>>
  BY <1>1
<1> QED BY <1>1, <1>2, <1>3, <1>4, QuietServer

LEMMA StoreRight ==
  ASSUME Base, Base', LastWord, NEW m \in Messages, Store(m)
  PROVE  LastWord' /\ \A c \in Conversations : Steady(c)
<1>1. /\ UNCHANGED <<of, announces, wire, unsure>> /\ rows' = Inserted(m)
      /\ sends[m].at = "sent"
      /\ sends' = [sends EXCEPT ![m] = [at |-> "read", id |-> IdOf(m, rows'),
                                        ver |-> rows'[IdOf(m, rows')].ver,
                                        gone |-> rows'[IdOf(m, rows')].gone]]
  BY DEF Store, socket, history
<1>2. \A n \in Messages : sends[n].at = "read" => sends'[n].at = "read"
  BY <1>1 DEF Base, SendsOK
<1>3. sends'[m].at = "read"
  BY <1>1 DEF Base, SendsOK
<1>4. SameSaid(wire, wire')
  BY <1>1 DEF SameSaid
<1>5. /\ \A i \in DOMAIN rows : i \in DOMAIN rows' /\ rows'[i] = rows[i]
      /\ \A i \in DOMAIN rows' : i \in DOMAIN rows \/ rows'[i].m = m
  BY <1>1, Inserts DEF Base
<1>6. UNCHANGED <<of, announces>> /\ unsure \subseteq unsure'
  BY <1>1
<1> QED BY <1>2, <1>3, <1>4, <1>5, <1>6, QuietServer

LEMMA StoreLostRight ==
  ASSUME Base, Base', LastWord, NEW m \in Messages, StoreLost(m)
  PROVE  LastWord' /\ \A c \in Conversations : Steady(c)
<1>1. /\ UNCHANGED <<of, announces>> /\ rows' = Inserted(m) /\ Fail(m)
      /\ unsure' = unsure \cup {m}
      /\ sends[m].at = "sent" /\ sends' = [sends EXCEPT ![m] = Idle]
  BY DEF StoreLost
<1>2. \A n \in Messages : sends[n].at = "read" => sends'[n].at = "read"
  BY <1>1 DEF Base, SendsOK
<1>4. SameSaid(wire, wire')
  BY <1>1, FailSaid
<1>5. /\ \A i \in DOMAIN rows : i \in DOMAIN rows' /\ rows'[i] = rows[i]
      /\ \A i \in DOMAIN rows' : i \in DOMAIN rows \/ rows'[i].m = m
  BY <1>1, Inserts DEF Base
<1>6. UNCHANGED <<of, announces>> /\ unsure \subseteq unsure' /\ m \in unsure'
  BY <1>1
<1> QED BY <1>2, <1>4, <1>5, <1>6, QuietServer

LEMMA ReconnectRight ==
  ASSUME Base, Base', LastWord, Reconnect
  PROVE  LastWord' /\ \A c \in Conversations : Steady(c)
<1>1. UNCHANGED <<of, rows, sends, announces, wire, unsure>>
  BY DEF Reconnect, server, history
<1>2. SameSaid(wire, wire')
  BY <1>1 DEF SameSaid
<1>3. UNCHANGED <<of, announces>>
  BY <1>1
<1> QED BY <1>1, <1>2, <1>3, QuietServer

LEMMA ChangeRight ==
  ASSUME Base, Base', LastWord, NEW i \in DOMAIN rows, NEW ver \in Nat, NEW gone \in BOOLEAN,
         Change(i, ver, gone)
  PROVE  LastWord' /\ \A c \in Conversations : Steady(c)
<1>1. /\ DOMAIN rows' = DOMAIN rows
      /\ \A j \in DOMAIN rows : rows'[j].m = rows[j].m /\ (j # i => rows'[j] = rows[j])
      /\ rows'[i].ver = ver /\ rows'[i].gone = gone
  BY ChangeIs DEF Base
<1>2. /\ UNCHANGED <<of, sends, wire, unsure>>
      /\ announces' = announces \cup {[id |-> i, ver |-> ver, gone |-> gone]}
  BY DEF Change, socket, history
<1>3. Announced(i)'
  <2> DEFINE a == [id |-> i, ver |-> ver, gone |-> gone]
  <2>1. a \in announces' /\ a.id = i /\ a.ver = rows'[i].ver /\ a.gone = rows'[i].gone
    BY <1>1, <1>2
  <2> HIDE DEF a
  <2> QED BY <2>1 DEF Announced
<1>4. \A j \in DOMAIN rows : j # i /\ Announced(j) => Announced(j)'
  BY <1>1, <1>2 DEF Announced
<1>5. ASSUME NEW j \in DOMAIN rows, j # i
      PROVE  /\ Mentioned(wire', j, rows') <=> Mentioned(wire, j, rows)
             /\ LastSays(wire', j, rows') <=> LastSays(wire, j, rows)
  <2>1. rows'[j] = rows[j]
    BY <1>1, <1>5
  <2> DEFINE next == rows'
  <2>2. /\ Mentioned(wire, j, next) <=> Mentioned(wire, j, rows)
        /\ LastSays(wire, j, next) <=> LastSays(wire, j, rows)
    <3> HIDE DEF next
    <3> QED BY <2>1, SaysMoves DEF next
  <2> QED BY <2>2, <1>2
<1>6. LastWord'
  BY <1>1, <1>3, <1>4, <1>5 DEF LastWord
<1>7. ASSUME NEW c \in Conversations
      PROVE  Steady(c)
  <2>1. ASSUME NEW j \in DOMAIN rows
        PROVE  j \in Pending' \/ (j \notin Pending /\ rows'[j] = rows[j])
    BY <1>1, <1>3, <1>4, <1>5 DEF Pending
  <2>2. Due(c)' \subseteq Due(c)
    BY <1>1, <1>2 DEF Due, Coming
  <2> QED BY <2>1, <2>2 DEF Steady
<1> QED BY <1>6, <1>7
(* An event is broadcast, which says how the row is, or something on its way   *)
(* after it does; one that does not arrive is of no conversation the client    *)
(* counts on.                                                               *)
LEMMA DeliverRight ==
  ASSUME Base, Base', LastWord, UNCHANGED <<of, rows, unsure, connected>>,
         NEW e \in EventType, EventOK(e, rows), e.kind # "error",
         Deliver(e, announces'), announces' \subseteq announces, excuses' = {},
         \A i \in DOMAIN rows : Announced(i) => Announced(i)' \/ Matters(e, i, rows),
         \A m \in Messages : sends[m].at = "read" =>
           sends'[m].at = "read" \/ (m = e.m /\ e.kind = "chat.message")
  PROVE  LastWord' /\ \A c \in Conversations : Settling(c) => Steady(c)
<1>1. /\ e.id \in DOMAIN rows /\ rows[e.id].m = e.m /\ e.gone \in BOOLEAN /\ e.edited \in BOOLEAN
  BY DEF EventOK, IsRow, EventType
<1>2. Misses(e.m) = {} \/ connected
  BY DEF Deliver
<1>3. ~Stale(e, announces')
  BY DEF Deliver
<1>4. Agrees(e, rows) \/ ~Matters(e, e.id, rows) \/ Announced(e.id)'
  <2>1. Agrees(e, rows) <=> Look(e) = Look(Row(e.id))
    BY <1>1, LookRow DEF Base
  <2>2. ASSUME NEW a \in announces', a.id = e.id,
               <<a.ver, a.gone>> = <<rows[e.id].ver, rows[e.id].gone>>
        PROVE  Announced(e.id)'
    <3>1. a.ver = rows[e.id].ver /\ a.gone = rows[e.id].gone
      BY <2>2
    <3> QED BY <2>2, <3>1 DEF Announced
  <2> QED BY <1>3, <2>1, <2>2 DEF Stale, Matters
<1>5. \A i : Matters(e, i, rows) => i = e.id
  BY DEF Matters
<1>6. CASE connected
  <2>1. wire' = Append(wire, e) /\ wire \in Seq(EventType)
    BY <1>6 DEF Deliver, Base, WireOK
  <2>2. ASSUME NEW i \in DOMAIN rows
        PROVE  /\ Mentioned(wire', i, rows) <=> Mentioned(wire, i, rows) \/ Matters(e, i, rows)
               /\ Brought(wire', i) <=> Brought(wire, i) \/ (e.kind = "chat.message" /\ e.id = i)
               /\ Matters(e, i, rows) /\ Agrees(e, rows) => LastSays(wire', i, rows)
               /\ ~Matters(e, i, rows) => (LastSays(wire', i, rows) <=> LastSays(wire, i, rows))
    BY <2>1, AppendSays
  <2>3. LastWord'
    <3> SUFFICES ASSUME NEW i \in DOMAIN rows
                 PROVE  Announced(i)' \/ LastSays(wire', i, rows)
      BY DEF LastWord
    <3>1. CASE Matters(e, i, rows)
      BY <3>1, <1>4, <1>5, <2>2
    <3>2. CASE ~Matters(e, i, rows)
      BY <3>2, <2>2 DEF LastWord
    <3> QED BY <3>1, <3>2
  <2>4. ASSUME NEW c \in Conversations
        PROVE  Steady(c)
    <3>1. ASSUME NEW i \in DOMAIN rows
          PROVE  i \in Pending' \/ (i \notin Pending /\ rows'[i] = rows[i])
      BY <2>2 DEF Pending
    <3>2. ASSUME NEW i \in Due(c)'
          PROVE  i \in Due(c)
      <4>1. /\ i \in DOMAIN rows /\ of[rows[i].m] = c /\ rows[i].m \notin unsure
            /\ sends'[rows[i].m].at # "read" /\ ~Brought(wire', i)
        BY <3>2 DEF Due, Coming
      <4>2. rows[i].m \in Messages
        BY <4>1, RowsAre DEF Base
      <4>3. ~Brought(wire, i) /\ ~(e.kind = "chat.message" /\ e.id = i)
        BY <4>1, <2>2
      <4>4. rows[i].m = e.m => e.id = i
        BY <1>1, <4>1 DEF Base, RowsOK
      <4> QED BY <4>1, <4>2, <4>3, <4>4 DEF Due, Coming
    <3> QED BY <3>1, <3>2 DEF Steady
  <2> QED BY <2>3, <2>4
<1>7. CASE ~connected
  <2>1. wire = <<>> /\ wire' = <<>> /\ DOMAIN wire = {}
    BY <1>7 DEF Deliver, Base, WireOK
  <2>2. \A i : LastSays(wire, i, rows) /\ ~Mentioned(wire, i, rows) /\ ~Brought(wire, i)
    BY <2>1 DEF LastSays, Mentioned, Brought
  <2>3. LastWord'
    BY <2>1, <2>2 DEF LastWord
  <2>4. ASSUME NEW c \in Conversations, Settling(c)
        PROVE  Steady(c)
    <3>1. of[e.m] # c
      BY <1>2, <1>7, <2>4 DEF Misses
    <3>2. \A i \in DOMAIN rows : of[rows[i].m] = c => i # e.id
      BY <1>1, <3>1
    <3>3. \A i \in DOMAIN rows : of[rows[i].m] = c =>
            i \in Pending' \/ (i \notin Pending /\ rows'[i] = rows[i])
      BY <3>2, <1>5, <2>2 DEF Pending
    <3>4. ASSUME NEW i \in Due(c)'
          PROVE  i \in Due(c)
      <4>1. /\ i \in DOMAIN rows /\ of[rows[i].m] = c /\ rows[i].m \notin unsure
            /\ sends'[rows[i].m].at # "read"
        BY <3>4 DEF Due, Coming
      <4>2. rows[i].m \in Messages
        BY <4>1, RowsAre DEF Base
      <4> QED BY <4>1, <4>2, <3>1, <2>2 DEF Due, Coming
    <3> QED BY <3>3, <3>4 DEF Steady
  <2> QED BY <2>3, <2>4
<1> QED BY <1>6, <1>7

LEMMA AnswerRight ==
  ASSUME Base, Base', LastWord, Truthful, NEW m \in Messages, Answer(m), excuses' = {}
  PROVE  LastWord' /\ \A c \in Conversations : Settling(c) => Steady(c)
<1>1. /\ UNCHANGED <<of, rows, announces, unsure, connected>>
      /\ sends[m].at = "read" /\ sends' = [sends EXCEPT ![m] = Idle]
      /\ IF sends[m].gone THEN Fail(m) ELSE Deliver(Event("chat.message", m, sends[m]), announces)
  BY DEF Answer
<1>2. \A n \in Messages : sends[n].at = "read" => sends'[n].at = "read" \/ n = m
  BY <1>1 DEF Base, SendsOK
<1>3. CASE sends[m].gone
  <2>1. m \in unsure /\ Fail(m)
    BY <1>1, <1>3 DEF Truthful
  <2>2. SameSaid(wire, wire')
    BY <2>1, FailSaid
  <2>3. UNCHANGED <<of, announces>>
    BY <1>1
  <2> QED BY <1>1, <1>2, <2>1, <2>2, <2>3, QuietServer
<1>4. CASE ~sends[m].gone
  <2> DEFINE e == Event("chat.message", m, sends[m])
  <2>1. sends[m] \in SendType /\ IsRow(rows, sends[m].id, m)
    BY <1>1 DEF Base, SendsOK
  <2>2. /\ e \in EventType /\ EventOK(e, rows) /\ e.kind = "chat.message" /\ e.m = m
        /\ Deliver(e, announces')
    BY <1>1, <1>4, <2>1 DEF Event, EventType, SendType, EventOK
  <2> HIDE DEF e
  <2>3. \A i \in DOMAIN rows : Announced(i) => Announced(i)'
    BY <1>1 DEF Announced
  <2>4. UNCHANGED <<of, rows, unsure, connected>> /\ announces' \subseteq announces
    BY <1>1
  <2> QED BY <1>2, <2>2, <2>3, <2>4, DeliverRight
<1> QED BY <1>3, <1>4 DEF Base, SendsOK, SendType

LEMMA AnnounceRight ==
  ASSUME Base, Base', LastWord, NEW a \in announces, AnnounceChatUpdate(a), excuses' = {}
  PROVE  LastWord' /\ \A c \in Conversations : Settling(c) => Steady(c)
<1> DEFINE e == Event(IF a.gone THEN "chat.deleted" ELSE "chat.updated", rows[a.id].m, a)
<1>1. /\ UNCHANGED <<of, rows, sends, unsure, connected>>
      /\ announces' = announces \ {a} /\ Deliver(e, announces')
  BY DEF AnnounceChatUpdate
<1>2. /\ a \in [id : Nat, ver : Nat, gone : BOOLEAN] /\ a.id \in DOMAIN rows
      /\ (a.gone => rows[a.id].gone) /\ rows[a.id].m \in Messages
  <2>1. a \in [id : Nat, ver : Nat, gone : BOOLEAN] /\ a.id \in DOMAIN rows
        /\ (a.gone => rows[a.id].gone)
    BY DEF Base, AnnouncesOK
  <2> QED BY <2>1, RowsAre DEF Base
<1>3. /\ e \in EventType /\ EventOK(e, rows) /\ e.id = a.id
      /\ e.kind = IF a.gone THEN "chat.deleted" ELSE "chat.updated"
  BY <1>2 DEF Event, EventType, EventOK, IsRow
<1> HIDE DEF e
<1>4. ASSUME NEW i \in DOMAIN rows, Announced(i)
      PROVE  Announced(i)' \/ Matters(e, i, rows)
  <2>1. PICK b \in announces : b.id = i /\ b.ver = rows[i].ver /\ b.gone = rows[i].gone
    BY <1>4 DEF Announced
  <2>2. CASE b = a
    <3>1. e.id = i /\ e.kind # "error" /\ (rows[i].gone => e.kind = "chat.deleted")
      BY <2>1, <2>2, <1>3
    <3> QED BY <3>1 DEF Matters
  <2>3. CASE b # a
    <3>1. b \in announces' /\ rows' = rows
      BY <2>3, <1>1
    <3> QED BY <2>1, <3>1 DEF Announced
  <2> QED BY <2>2, <2>3
<1>5. UNCHANGED <<of, rows, unsure, connected>> /\ announces' \subseteq announces /\ e.kind # "error"
  BY <1>1, <1>3
<1>6. \A m \in Messages : sends[m].at = "read" => sends'[m].at = "read"
  BY <1>1
<1> QED BY <1>1, <1>3, <1>4, <1>5, <1>6, DeliverRight

LEMMA LoseRight ==
  ASSUME Base, Base', LastWord, NEW lost \in SUBSET Mine, Lose(lost), excuses' = {}
  PROVE  LastWord' /\ \A c \in Conversations : Settling(c) => Steady(c)
<1>1. /\ UNCHANGED <<of, rows, announces, unsure>> /\ wire' = <<>>
      /\ lost \subseteq {m \in Mine : sends[m].at = "sent"}
      /\ sends' = [m \in Messages |-> IF m \in lost THEN Idle ELSE sends[m]]
      /\ excuses' = excuses \cup
           UNION {Misses(wire[k].m) : k \in {j \in DOMAIN wire : wire[j].kind # "error"}}
  BY DEF Lose
<1>2. \A m \in Messages : sends[m].at = "read" => sends'[m].at = "read"
  BY <1>1
<1>3. \A k \in DOMAIN wire : wire[k].kind # "error" => ~Settling(of[wire[k].m])
  <2> SUFFICES ASSUME NEW k \in DOMAIN wire, wire[k].kind # "error"
               PROVE  ~Settling(of[wire[k].m])
    OBVIOUS
  <2>1. Misses(wire[k].m) \subseteq excuses'
    BY <1>1
  <2> QED BY <2>1 DEF Misses
<1>4. DOMAIN wire' = {}
  BY <1>1
<1>5. LastWord'
  BY <1>4 DEF LastWord, LastSays
<1>6. ASSUME NEW c \in Conversations, Settling(c)
      PROVE  Steady(c)
  <2>1. ASSUME NEW i \in DOMAIN rows, of[rows[i].m] = c
        PROVE  ~Mentioned(wire, i, rows) /\ ~Brought(wire, i)
    <3>1. \A k \in DOMAIN wire : wire[k].kind # "error" => of[rows[wire[k].id].m] # c
      BY <1>3, <1>6 DEF Base, WireOK, EventOK, IsRow
    <3>2. \A k \in DOMAIN wire : wire[k].kind # "error" => wire[k].id # i
      BY <2>1, <3>1
    <3> QED BY <3>2 DEF Mentioned, Matters, Brought
  <2>2. \A i \in DOMAIN rows : Announced(i)' <=> Announced(i)
    BY <1>1 DEF Announced
  <2>3. \A i \in DOMAIN rows : of[rows[i].m] = c =>
          i \in Pending' \/ (i \notin Pending /\ rows'[i] = rows[i])
    BY <1>1, <2>1, <2>2 DEF Pending
  <2>4. ASSUME NEW i \in Due(c)'
        PROVE  i \in Due(c)
    <3>1. /\ i \in DOMAIN rows /\ of[rows[i].m] = c /\ rows[i].m \notin unsure
          /\ sends'[rows[i].m].at # "read"
      BY <1>1, <2>4 DEF Due, Coming
    <3>2. rows[i].m \in Messages
      BY <3>1, RowsAre DEF Base
    <3> QED BY <3>1, <3>2, <2>1, <1>2 DEF Due, Coming
  <2> QED BY <2>3, <2>4 DEF Steady
<1> QED BY <1>5, <1>6
-----------------------------------------------------------------------------
(* slice leaves no more than fit in a cache, leaves what fits alone, and keeps *)
(* the last that do.                                                         *)
LEMMA LastOfFits ==
  ASSUME NEW s \in Seq(EntryType)
  PROVE  /\ Len(LastOf(s)) <= CacheSize
         /\ Len(s) <= CacheSize => LastOf(s) = s
         /\ \A k \in DOMAIN s : k > Len(s) - CacheSize =>
              \E l \in DOMAIN LastOf(s) : LastOf(s)[l] = s[k]
<1> DEFINE d == IF Len(s) > CacheSize THEN Len(s) - CacheSize ELSE 0
<1> DEFINE t == SubSeq(s, d + 1, Len(s))
<1>1. CacheSize \in Nat /\ CacheSize > 0 /\ Len(s) \in Nat /\ DOMAIN s = 1 .. Len(s)
  BY SizesArePositive, LenProperties
<1>2. /\ d \in Nat /\ d <= Len(s) /\ Len(s) - d <= CacheSize
      /\ (Len(s) <= CacheSize => d = 0)
      /\ \A k \in 1 .. Len(s) : k > Len(s) - CacheSize => k - d \in 1 .. Len(s) - d
  <2>1. CASE Len(s) > CacheSize
    <3>1. d = Len(s) - CacheSize
      BY <2>1
    <3> HIDE DEF d
    <3>2. d \in Nat /\ d <= Len(s) /\ Len(s) - d = CacheSize
      BY <3>1, <2>1, <1>1
    <3>3. ASSUME NEW k \in 1 .. Len(s), k > Len(s) - CacheSize
          PROVE  k - d \in 1 .. Len(s) - d
      <4>1. k \in Int /\ k <= Len(s) /\ k > d
        BY <3>1, <3>3, <1>1
      <4> QED BY <4>1, <3>2, <1>1
    <3> QED BY <3>2, <3>3, <2>1, <1>1
  <2>2. CASE ~(Len(s) > CacheSize)
    <3>1. d = 0
      BY <2>2
    <3> HIDE DEF d
    <3> QED BY <3>1, <2>2, <1>1
  <2> QED BY <2>1, <2>2
<1>3. LastOf(s) = t
  <2>1. IF Len(s) > CacheSize THEN Len(s) - CacheSize + 1 = d + 1 ELSE 1 = d + 1
    BY <1>1
  <2> QED BY <2>1 DEF LastOf
<1> HIDE DEF d
<1>4. /\ t \in Seq(EntryType) /\ Len(t) = Len(s) - d
      /\ \A k \in 1 .. Len(s) - d : t[k] = s[k + d]
  <2>1. d + 1 \in 1 .. Len(s) + 1 /\ Len(s) \in Int /\ d + 1 \in Int
    BY <1>1, <1>2
  <2>2. \A i \in d + 1 .. Len(s) : s[i] \in EntryType
    <3>1. \A i \in d + 1 .. Len(s) : i \in 1 .. Len(s)
      BY <1>1, <1>2
    <3> QED BY <3>1, ElementOfSeq
  <2>3. /\ t \in Seq(EntryType)
        /\ Len(t) = IF d + 1 <= Len(s) THEN Len(s) - (d + 1) + 1 ELSE 0
        /\ \A k \in 1 .. Len(s) - (d + 1) + 1 : t[k] = s[(d + 1) + k - 1]
    BY <2>1, <2>2, SubSeqProperties
  <2> HIDE DEF t
  <2>4. /\ (IF d + 1 <= Len(s) THEN Len(s) - (d + 1) + 1 ELSE 0) = Len(s) - d
        /\ Len(s) - (d + 1) + 1 = Len(s) - d
        /\ \A k \in 1 .. Len(s) - d : (d + 1) + k - 1 = k + d
    <3>1. d \in Nat /\ Len(s) \in Nat /\ d <= Len(s)
      BY <1>1, <1>2
    <3> QED BY <3>1
  <2> QED BY <2>3, <2>4
<1> HIDE DEF t
<1>5. DOMAIN t = 1 .. Len(s) - d
  BY <1>4, LenProperties
<1>6. ASSUME Len(s) <= CacheSize
      PROVE  t = s
  <2>1. d = 0
    BY <1>2, <1>6
  <2>2. Len(t) = Len(s) /\ \A k \in 1 .. Len(s) : t[k] = s[k]
    BY <1>1, <1>4, <2>1
  <2> QED BY <1>4, <2>2, SeqEqual
<1>7. ASSUME NEW k \in DOMAIN s, k > Len(s) - CacheSize
      PROVE  \E l \in DOMAIN t : t[l] = s[k]
  <2>1. k - d \in 1 .. Len(s) - d
    BY <1>1, <1>2, <1>7
  <2>2. (k - d) + d = k
    BY <1>1, <1>2
  <2> QED BY <2>1, <2>2, <1>4, <1>5
<1> QED BY <1>2, <1>3, <1>4, <1>6, <1>7

(* A step of the client leaves what the server has said and will say.         *)
LEMMA Rests ==
  ASSUME UNCHANGED <<of, rows, announces, unsure, wire>>,
         \A i \in DOMAIN rows : sends'[rows[i].m].at = "read" <=> sends[rows[i].m].at = "read"
  PROVE  /\ Pending' = Pending /\ (LastWord' <=> LastWord)
         /\ \A c : Due(c)' = Due(c)
<1>1. \A i : Announced(i)' <=> Announced(i)
  BY DEF Announced
<1>2. Pending' = Pending /\ (LastWord' <=> LastWord)
  BY <1>1 DEF Pending, LastWord
<1>3. \A c : Due(c)' = Due(c)
  BY DEF Due, Coming
<1> QED BY <1>2, <1>3

(* What is right and whole of a conversation the step leaves alone stays so.   *)
LEMMA SteadyKeeps ==
  ASSUME UNCHANGED of, NEW c, Steady(c), NEW s, NEW sent, Sane(s, rows, sent), Within(s, c, of)
  PROVE  /\ Right(s, rows, Pending) => Right(s, rows', Pending')
         /\ Whole(s, Due(c)) => Whole(s, Due(c)')
<1> DEFINE next == rows'
<1> DEFINE coming == Pending'
<1> DEFINE less == Due(c)'
<1>1. /\ less \in SUBSET Due(c)
      /\ \A i \in DOMAIN rows : of[rows[i].m] = c =>
           i \in coming \/ (i \notin Pending /\ next[i] = rows[i])
  BY DEF Steady
<1> HIDE DEF next, coming, less
<1>2. Right(s, rows, Pending) => Right(s, next, coming)
  BY <1>1, RightMoves
<1>3. Whole(s, Due(c)) => Whole(s, less)
  BY <1>1, WholeMoves
<1> QED BY <1>2, <1>3 DEF next, coming, less

(* The client shows what is in order, right and whole.                        *)
LEMMA ShowsWhatIsRight ==
  ASSUME Base, InPlace, AllRight, UNCHANGED <<of, rows>>,
         NEW c \in Conversations, NEW t \in Seq(EntryType), NEW load \in SUBSET {c},
         UpdateChat(c, t, load), Ascending(t),
         c \in loaded \cup load =>
           /\ Right(t, rows, Pending') /\ Whole(t, Due(c)')
           /\ Ids(t) = {} \/ Ids(LastOf(t)) # {},
         \A d \in Conversations : d # c => Steady(d)
  PROVE  \A d \in Conversations : ShowsRight(d)'
<1>1. /\ cache'[c] = LastOf(t) /\ loaded' \subseteq loaded \cup load
      /\ \A d \in Conversations \ {c} : \/ cache'[d] = cache[d]
                                        \/ cache'[d] = <<>> /\ d \notin loaded'
  <2>1. load \in SUBSET Conversations
    OBVIOUS
  <2> QED BY <2>1, Updates DEF Base
<1>2. LastOf(t) \in Seq(EntryType) /\ \E h : Part(LastOf(t), t, h)
  BY LastOfPart
<1>3. Len(LastOf(t)) <= CacheSize
  BY LastOfFits
<1>4. Ascending(LastOf(t))
  BY <1>2, PartKeeps
<1>5. ASSUME c \in loaded'
      PROVE  Right(cache'[c], rows', Pending') /\ Whole(cache'[c], Due(c)')
  <2> DEFINE coming == Pending'
  <2> DEFINE due == Due(c)'
  <2>1. /\ Right(t, rows, coming) /\ Whole(t, due)
        /\ Ids(t) = {} \/ Ids(LastOf(t)) # {}
    BY <1>1, <1>5
  <2>2. due \in SUBSET Nat
    BY RowsAre DEF Due, Base
  <2> HIDE DEF coming, due
  <2>3. Right(LastOf(t), rows, coming)
    BY <1>2, <2>1, PartKeeps
  <2>4. Whole(LastOf(t), due)
    BY <2>1, <2>2, LastOfWhole
  <2> QED BY <1>1, <2>3, <2>4 DEF coming, due
<1>6. ShowsRight(c)'
  BY <1>1, <1>3, <1>4, <1>5 DEF ShowsRight
<1>7. ASSUME NEW d \in Conversations, d # c
      PROVE  ShowsRight(d)'
  <2>1. CASE cache'[d] = cache[d]
    <3>1. ShowsRight(d) /\ (d \in loaded' => d \in loaded)
      BY <1>1, <1>7 DEF AllRight
    <3>2. Sane(cache[d], rows, asked) /\ Within(cache[d], d, of)
      BY DEF Base, CacheOK, InPlace
    <3>3. Steady(d) /\ UNCHANGED of
      BY <1>7
    <3>4. /\ Right(cache[d], rows, Pending) => Right(cache[d], rows', Pending')
          /\ Whole(cache[d], Due(d)) => Whole(cache[d], Due(d)')
      BY <3>2, <3>3, SteadyKeeps
    <3> QED BY <2>1, <3>1, <3>4 DEF ShowsRight
  <2>2. CASE cache'[d] = <<>> /\ d \notin loaded'
    <3>1. DOMAIN <<>> = {}
      OBVIOUS
    <3>2. Ascending(<<>>)
      BY <3>1 DEF Ascending, Confirmed
    <3>3. Len(<<>>) = 0
      BY EmptySeq
    <3>4. 0 <= CacheSize
      BY SizesArePositive
    <3> QED BY <2>2, <3>2, <3>3, <3>4 DEF ShowsRight
  <2> QED BY <2>1, <2>2, <1>1, <1>7
<1> QED BY <1>6, <1>7

LEMMA SteadyAtRest ==
  ASSUME UNCHANGED <<rows>>, Pending' = Pending, NEW c, Due(c)' = Due(c)
  PROVE  Steady(c)
BY DEF Steady

(* The client opens a conversation or asks for a page.                        *)
LEMMA OpenRight ==
  ASSUME Base, LastWord, AllRight, NEW c \in Conversations, Open(c)
  PROVE  LastWord' /\ AllRight'
<1>1. /\ UNCHANGED <<of, rows, announces, unsure, wire>> /\ sends' = sends
      /\ UNCHANGED <<cache, loaded, older>> /\ (fetch' = fetch \/ fetch' = None)
  BY DEF Open, server, socket, history
<1>2. Pending' = Pending /\ (LastWord' <=> LastWord) /\ \A d : Due(d)' = Due(d)
  BY <1>1, Rests
<1> QED BY <1>1, <1>2 DEF AllRight, ShowsRight, FetchRight, OlderRight

LEMMA FetchHistoryRight ==
  ASSUME Base, LastWord, AllRight, FetchHistory
  PROVE  LastWord' /\ AllRight'
<1>1. /\ UNCHANGED <<of, rows, announces, unsure, wire>> /\ sends' = sends
      /\ UNCHANGED <<cache, loaded, older>> /\ ~fetch'.read
  BY DEF FetchHistory, server, socket, history
<1>2. Pending' = Pending /\ (LastWord' <=> LastWord) /\ \A d : Due(d)' = Due(d)
  BY <1>1, Rests
<1> QED BY <1>1, <1>2 DEF AllRight, ShowsRight, FetchRight, OlderRight

LEMMA FetchReadRight ==
  ASSUME Base, LastWord, AllRight, FetchRead
  PROVE  LastWord' /\ AllRight'
<1> DEFINE c == fetch.conversation
<1> DEFINE p == Page(c, Len(rows) + 1)
<1>1. /\ UNCHANGED <<of, rows, announces, unsure, wire>> /\ sends' = sends
      /\ UNCHANGED <<cache, loaded, older>>
      /\ fetch # None /\ fetch' = [fetch EXCEPT !.read = TRUE, !.page = p]
  BY DEF FetchRead, server, socket, history
<1>2. Pending' = Pending /\ (LastWord' <=> LastWord) /\ \A d : Due(d)' = Due(d)
  BY <1>1, Rests
<1>3. /\ Len(rows) \in Nat /\ Len(rows) + 1 \in Nat
      /\ \A i \in DOMAIN rows : i < Len(rows) + 1
  BY RowsAre DEF Base
<1>4. /\ \A k \in DOMAIN p : Agrees(p[k], rows)
      /\ Whole(p, {i \in DOMAIN rows : of[rows[i].m] = c /\ i < Len(rows) + 1})
  BY <1>3, PageIs DEF Base
<1>5. fetch'.page = p /\ fetch'.conversation = c
  <2>1. fetch \in [conversation : Conversations, read : BOOLEAN, page : Seq(EntryType),
                   crossed : BOOLEAN]
    BY <1>1 DEF Base, FetchOK
  <2> HIDE DEF p
  <2> QED BY <2>1, <1>1
<1> HIDE DEF p
<1>6. Right(p, rows, Pending)
  BY <1>4 DEF Right, Confirmed
<1>7. Whole(p, Due(c))
  BY <1>3, <1>4 DEF Whole, Due
<1> HIDE DEF c
<1>8. \A d \in Conversations : FetchRight(d)'
  BY <1>1, <1>2, <1>5, <1>6, <1>7 DEF FetchRight
<1> QED BY <1>1, <1>2, <1>8 DEF AllRight, ShowsRight, OlderRight

LEMMA LoadOlderRight ==
  ASSUME Base, LastWord, AllRight, LoadOlder
  PROVE  LastWord' /\ AllRight'
<1>1. /\ UNCHANGED <<of, rows, announces, unsure, wire>> /\ sends' = sends
      /\ UNCHANGED <<cache, loaded, fetch>>
      /\ older'.conversation = view /\ older'.messages = cache[view]
      /\ ~older'.read /\ older'.early = (view \notin loaded)
  BY DEF LoadOlder, server, socket, history
<1>2. Pending' = Pending /\ (LastWord' <=> LastWord) /\ \A d : Due(d)' = Due(d)
  BY <1>1, Rests
<1>3. ShowsRight(view) /\ view \in Conversations
  BY DEF AllRight, Base, CacheOK
<1>4. \A d \in Conversations : OlderRight(d)'
  BY <1>1, <1>2, <1>3 DEF OlderRight, ShowsRight
<1> QED BY <1>1, <1>2, <1>4 DEF AllRight, ShowsRight, FetchRight

LEMMA OlderReadRight ==
  ASSUME Base, LastWord, AllRight, OlderRead
  PROVE  LastWord' /\ AllRight'
<1> DEFINE p == Page(older.conversation, older.before)
<1>1. /\ UNCHANGED <<of, rows, announces, unsure, wire>> /\ sends' = sends
      /\ UNCHANGED <<cache, loaded, fetch>>
      /\ older # None /\ older' = [older EXCEPT !.read = TRUE, !.page = p]
  BY DEF OlderRead, server, socket, history
<1>2. Pending' = Pending /\ (LastWord' <=> LastWord) /\ \A d : Due(d)' = Due(d)
  BY <1>1, Rests
<1>3. older \in [conversation : Conversations, messages : Seq(EntryType), before : Nat,
                 read : BOOLEAN, page : Seq(EntryType), crossed : BOOLEAN, early : BOOLEAN]
  BY <1>1 DEF Base, OlderOK
<1>4. \A k \in DOMAIN p : Agrees(p[k], rows)
  <2>1. older.before \in Nat
    BY <1>3
  <2> QED BY <2>1, PageIs DEF Base
<1> HIDE DEF p
<1>5. /\ older'.page = p /\ older'.messages = older.messages
      /\ older'.conversation = older.conversation
      /\ older'.crossed = older.crossed /\ older'.early = older.early
  BY <1>1, <1>3
<1>6. Right(p, rows, Pending)
  BY <1>4 DEF Right, Confirmed
<1>7. \A d \in Conversations : OlderRight(d)'
  BY <1>1, <1>2, <1>5, <1>6 DEF AllRight, OlderRight
<1> QED BY <1>1, <1>2, <1>7 DEF AllRight, ShowsRight, FetchRight
(* The first page takes the place of what was shown, which no event crossed.   *)
LEMMA FetchDoneRight ==
  ASSUME Base, InPlace, LastWord, AllRight, FetchDone, excuses' = {}
  PROVE  LastWord' /\ AllRight'
<1>0. PICK c \in Conversations : c = fetch.conversation
  BY DEF Base, FetchOK, FetchDone
<1> DEFINE t == fetch.page
<1>1. /\ UNCHANGED <<of, rows, announces, unsure, wire>> /\ sends' = sends
      /\ fetch # None /\ fetch.read /\ UpdateChat(c, t, {c}) /\ fetch' = None /\ older' = older
      /\ ~fetch.crossed
  BY <1>0 DEF FetchDone, server, socket
<1>2. Pending' = Pending /\ (LastWord' <=> LastWord) /\ \A d : Due(d)' = Due(d)
  BY <1>1, Rests
<1>3. /\ c \in Conversations /\ t \in Seq(EntryType)
      /\ Ascending(t) /\ AllSent(t)
  BY <1>1 DEF Base, FetchOK, PageLike
<1>4. Right(t, rows, Pending') /\ Whole(t, Due(c)')
  BY <1>0, <1>1, <1>2 DEF AllRight, FetchRight
<1>5. Ids(t) = {} \/ Ids(LastOf(t)) # {}
  <2>1. CASE Len(t) = 0
    <3>1. DOMAIN t = {}
      BY <2>1, <1>3, Entries
    <3> QED BY <3>1 DEF Ids, Confirmed
  <2>2. CASE Len(t) > 0
    <3>1. /\ LastOf(t)[Len(LastOf(t))] = t[Len(t)] /\ Len(LastOf(t)) \in DOMAIN LastOf(t)
          /\ Len(t) \in DOMAIN t
      <4>1. Len(t) \in DOMAIN t
        BY <2>2, <1>3, Entries
      <4> QED BY <4>1, <2>2, <1>3, LastOfPart
    <3>2. Len(LastOf(t)) \in Confirmed(LastOf(t))
      BY <3>1, <1>3 DEF AllSent, Confirmed
    <3> QED BY <3>2 DEF Ids
  <2>3. Len(t) \in Nat
    BY <1>3, Entries
  <2> QED BY <2>1, <2>2, <2>3
<1>6. \A d \in Conversations : Steady(d)
  BY <1>1, <1>2, SteadyAtRest
<1> HIDE DEF t
<1>7. \A d \in Conversations : ShowsRight(d)'
  <2>1. {c} \in SUBSET {c} /\ UNCHANGED <<of, rows>> /\ UpdateChat(c, t, {c})
    BY <1>1
  <2> QED BY <2>1, <1>3, <1>4, <1>5, <1>6, ShowsWhatIsRight
<1>8. \A d \in Conversations : FetchRight(d)' /\ OlderRight(d)'
  BY <1>1, <1>2 DEF AllRight, FetchRight, OlderRight
<1> QED BY <1>2, <1>7, <1>8 DEF AllRight

(* An older page joins the messages it was asked for, which no event crossed. *)
LEMMA OlderDoneRight ==
  ASSUME Base, InPlace, LastWord, AllRight, OlderDone, excuses' = {}
  PROVE  LastWord' /\ AllRight'
<1>0. PICK c \in Conversations : c = view
  BY DEF Base, CacheOK
<1> DEFINE p == older.page
<1> DEFINE s == older.messages
<1> DEFINE t == p \o s
<1> DEFINE first == older.before
<1>1. /\ UNCHANGED <<of, rows, announces, unsure, wire>> /\ sends' = sends
      /\ older # None /\ older.read /\ UpdateChat(c, t, {c}) /\ fetch' = None /\ older' = None
      /\ ~older.crossed /\ ~older.early /\ cache[c] = s /\ older.conversation = c
  BY <1>0 DEF OlderDone, server, socket
<1>2. Pending' = Pending /\ (LastWord' <=> LastWord) /\ \A d : Due(d)' = Due(d)
  BY <1>1, Rests
<1>3. /\ c \in Conversations /\ p \in Seq(EntryType) /\ s \in Seq(EntryType)
      /\ Ascending(p) /\ Opens(first, s) /\ \A i \in Ids(p) : i < first
      /\ Whole(p, Before(c, first))
  BY <1>1 DEF Base, CacheOK, OlderOK, PageLike
<1>4. /\ Ascending(s) /\ Right(s, rows, Pending) /\ Whole(s, Due(c)) /\ Right(p, rows, Pending)
      /\ Len(s) <= CacheSize
  <2>1. OlderRight(c) /\ ShowsRight(c)
    BY <1>3 DEF AllRight
  <2> QED BY <2>1, <1>1 DEF OlderRight, ShowsRight
<1> HIDE DEF p, s, first
<1>5. PICK f \in Confirmed(s) : s[f].id = first /\ \A j \in Confirmed(s) : f <= j
  BY <1>3 DEF Opens
<1>6. /\ \A k \in DOMAIN s : k \in Nat /\ k > 0 /\ s[k].id \in Nat
      /\ \A k \in DOMAIN p : p[k].id \in Nat
      /\ Len(p) \in Nat /\ Len(s) \in Nat
  BY <1>3, Entries
<1>7. first \in Ids(s) /\ first \in Nat /\ \A j \in Ids(s) : j = first \/ first < j
  <2>1. f \in DOMAIN s
    BY <1>5 DEF Confirmed
  <2>2. first \in Ids(s) /\ first \in Nat
    BY <2>1, <1>5, <1>6 DEF Ids
  <2>3. ASSUME NEW k \in Confirmed(s)
        PROVE  s[k].id = first \/ first < s[k].id
    <3>1. f <= k /\ k \in DOMAIN s
      BY <1>5 DEF Confirmed
    <3>2. f = k \/ f < k
      BY <3>1, <2>1, <1>6
    <3> QED BY <3>2, <1>4, <1>5 DEF Ascending
  <2> QED BY <2>2, <2>3 DEF Ids
<1>8. \A i \in Ids(p) : i \in Nat
  BY <1>6 DEF Ids, Confirmed
<1>9. \A i \in Ids(p), j \in Ids(s) : i < j
  <2>1. \A j \in Ids(s) : j \in Nat
    BY <1>6 DEF Ids, Confirmed
  <2> QED BY <2>1, <1>3, <1>7, <1>8
<1>10. /\ t \in Seq(EntryType) /\ Ids(t) = Ids(p) \cup Ids(s) /\ Ascending(t)
       /\ Right(t, rows, Pending)
       /\ Len(t) = Len(p) + Len(s)
       /\ \A k \in DOMAIN s : k + Len(p) \in DOMAIN t /\ t[k + Len(p)] = s[k]
  BY <1>3, <1>4, <1>9, JoinKeeps
<1> HIDE DEF t
<1>11. Whole(t, Due(c))
  <2> SUFFICES ASSUME NEW i \in Due(c), Ids(t) = {} \/ \E j \in Ids(t) : j < i
               PROVE  i \in Ids(t)
    BY DEF Whole
  <2>1. i \in DOMAIN rows /\ of[rows[i].m] = c /\ i \in Nat
    BY RowsAre DEF Due, Base
  <2>2. CASE i = first
    BY <2>2, <1>7, <1>10
  <2>3. CASE first < i
    BY <2>3, <1>4, <1>7, <1>10 DEF Whole
  <2>4. CASE i < first
    <3>1. PICK j \in Ids(t) : j < i
      BY <1>7, <1>10
    <3>2. j \notin Ids(s)
      <4>1. j \in Nat => ~(j = first \/ first < j)
        BY <3>1, <2>1, <2>4, <1>7
      <4>2. j \in Ids(s) => j \in Nat
        BY <1>6 DEF Ids, Confirmed
      <4> QED BY <4>1, <4>2, <1>7
    <3>3. j \in Ids(p)
      BY <3>2, <1>10
    <3>4. i \in Before(c, first)
      BY <2>1, <2>4 DEF Before
    <3> QED BY <3>1, <3>3, <3>4, <1>3, <1>10 DEF Whole
  <2> QED BY <2>1, <2>2, <2>3, <2>4, <1>7
<1>12. Ids(LastOf(t)) # {}
  <2>1. f \in DOMAIN s /\ s[f].id > 0
    BY <1>5 DEF Confirmed
  <2>2. f + Len(p) \in DOMAIN t /\ t[f + Len(p)] = s[f]
    BY <2>1, <1>10
  <2>3. f + Len(p) > Len(t) - CacheSize
    <3>1. f \in Nat /\ f > 0 /\ CacheSize \in Nat
      BY <2>1, <1>6, SizesArePositive
    <3> QED BY <3>1, <1>4, <1>6, <1>10
  <2>4. PICK k \in DOMAIN t : k > Len(t) - CacheSize /\ t[k] = s[f]
    BY <2>2, <2>3
  <2>5. \E l \in DOMAIN LastOf(t) : LastOf(t)[l] = t[k]
    BY <2>4, <1>10, LastOfFits
  <2>6. PICK l \in DOMAIN LastOf(t) : LastOf(t)[l] = s[f]
    BY <2>4, <2>5
  <2>7. l \in Confirmed(LastOf(t))
    BY <2>1, <2>6 DEF Confirmed
  <2> QED BY <2>7 DEF Ids
<1>13. \A d \in Conversations : Steady(d)
  BY <1>1, <1>2, SteadyAtRest
<1>14. \A d \in Conversations : ShowsRight(d)'
  <2>1. {c} \in SUBSET {c} /\ UNCHANGED <<of, rows>> /\ UpdateChat(c, t, {c})
    BY <1>1
  <2>2. Right(t, rows, Pending') /\ Whole(t, Due(c)')
    BY <1>2, <1>10, <1>11
  <2> QED BY <2>1, <2>2, <1>3, <1>10, <1>12, <1>13, ShowsWhatIsRight
<1>15. \A d \in Conversations : FetchRight(d)' /\ OlderRight(d)'
  BY <1>1 DEF FetchRight, OlderRight
<1> QED BY <1>2, <1>14, <1>15 DEF AllRight

(* The optimistic entry says nothing of D1; it joins the end, and as long as   *)
(* it does not push all that D1 has out, what is shown is whole.              *)
LEMMA SendChatRight ==
  ASSUME Base, Attempts, LastWord, AllRight, NEW m \in Messages, SendChat(m), excuses' = {}
  PROVE  LastWord' /\ AllRight'
<1>0. PICK c \in Conversations : c = of[m]
  BY DEF Base, RowsOK
<1> DEFINE s == cache[c]
<1> DEFINE x == [m |-> m, id |-> 0, ver |-> 0, gone |-> FALSE, edited |-> FALSE, state |-> "sending"]
<1> DEFINE kept == Without(s, m, 0)
<1> DEFINE t == Append(kept, x)
<1>1. /\ m \in Mine /\ sends[m] = Idle /\ UpdateChat(c, t, {})
      /\ Failed(m) \/ m \notin asked
      /\ sends' = [sends EXCEPT ![m].at = "sent"]
      /\ UNCHANGED <<of, rows, announces, wire, fetch, older, unsure>>
      /\ Ids(s) = {} \/ Ids(cache'[c]) # {}
  BY <1>0 DEF SendChat, socket
<1>2. c \in Conversations /\ s \in Seq(EntryType) /\ Sane(s, rows, asked) /\ InPlace
  BY DEF Base, RowsOK, CacheOK, Attempts
<1>3. /\ kept \in Seq(EntryType) /\ \E h : Part(kept, s, h)
      /\ \A i \in DOMAIN s : s[i].m # m => \E k \in DOMAIN kept : kept[k] = s[i]
  <2> HIDE DEF kept, x, t
  <2>1. PICK u \in Seq(EntryType) : u = s
    BY <1>2
  <2>2. PICK v : v = Without(u, m, 0)
    OBVIOUS
  <2>3. v \in Seq(EntryType) /\ (\E h : Part(v, u, h)) /\ Spares(v, u, m, 0)
    BY <2>2, WithoutPart
  <2>4. v = kept
    BY <2>1, <2>2 DEF kept
  <2> QED BY <2>1, <2>3, <2>4 DEF Spares
<1>4. x \in EntryType /\ x.id = 0
  BY DEF EntryType
<1>5. /\ Ascending(s) => Ascending(kept)
      /\ Right(s, rows, Pending) => Right(kept, rows, Pending)
      /\ Ids(kept) \subseteq Ids(s)
  BY <1>3, PartKeeps
<1>6. ShowsRight(c)
  BY <1>2 DEF AllRight
<1>7. Stored(m) => m \in unsure
  <2>1. Stored(m) => m \in asked
    BY <1>1 DEF Base, AskedOK
  <2>2. Failed(m) /\ Stored(m) => m \in unsure
    BY DEF Attempts, Truthful
  <2> QED BY <2>1, <2>2, <1>1
<1> HIDE DEF x, kept, s
<1>8. /\ t \in Seq(EntryType) /\ Ids(t) = Ids(kept)
      /\ (Ascending(kept) => Ascending(t))
      /\ (Right(kept, rows, Pending) => Right(t, rows, Pending))
  <2>1. /\ t \in Seq(EntryType)
        /\ Ids(t) = Ids(kept) \cup (IF x.id > 0 THEN {x.id} ELSE {})
        /\ (x.id = 0 \/ \A k \in Confirmed(kept) : kept[k].id < x.id) /\ Ascending(kept)
             => Ascending(t)
        /\ \A table, pending :
             Right(kept, table, pending) /\ (x.id = 0 \/ x.id \in pending \/ Agrees(x, table))
               => Right(t, table, pending)
    BY <1>3, <1>4, AppendKeeps
  <2> HIDE DEF t
  <2> QED BY <2>1, <1>4
<1> HIDE DEF t
<1>9. Pending' = Pending /\ (LastWord' <=> LastWord) /\ \A d : Due(d)' = Due(d)
  <2>1. UNCHANGED <<of, rows, announces, unsure, wire>>
    BY <1>1
  <2>2. ASSUME NEW i \in DOMAIN rows
        PROVE  sends'[rows[i].m].at = "read" <=> sends[rows[i].m].at = "read"
    <3>1. rows[i].m \in Messages
      BY RowsAre DEF Base
    <3> QED BY <3>1, <1>1 DEF Base, SendsOK, SendType, Idle
  <2> QED BY <2>1, <2>2, Rests
<1>10. cache'[c] = LastOf(t)
  <2>1. {} \in SUBSET Conversations
    OBVIOUS
  <2> QED BY <2>1, <1>1, <1>2, <1>8, Updates DEF Base
<1>11. c \in loaded => Whole(t, Due(c)) /\ (Ids(t) = {} \/ Ids(LastOf(t)) # {})
  <2> SUFFICES ASSUME c \in loaded
               PROVE  Whole(t, Due(c)) /\ (Ids(t) = {} \/ Ids(LastOf(t)) # {})
    OBVIOUS
  <2>1. Whole(s, Due(c))
    BY <1>6 DEF ShowsRight, s
  <2>2. ASSUME NEW i \in Due(c), i \in Ids(s)
        PROVE  i \in Ids(t)
    <3>1. PICK k \in Confirmed(s) : s[k].id = i
      BY <2>2 DEF Ids
    <3>2. k \in DOMAIN s /\ i > 0
      BY <3>1 DEF Confirmed
    <3>3. i \in DOMAIN rows /\ rows[i].m = s[k].m /\ rows[i].m \notin unsure
      BY <3>1, <3>2, <1>2 DEF Sane, Known, IsRow, Due
    <3>4. s[k].m # m
      BY <3>3, <1>7 DEF Stored
    <3>5. PICK l \in DOMAIN kept : kept[l] = s[k]
      BY <3>2, <3>4, <1>3
    <3>6. l \in Confirmed(kept) /\ kept[l].id = i
      BY <3>1, <3>2, <3>5 DEF Confirmed
    <3> QED BY <3>6, <1>8 DEF Ids
  <2>3. CASE Ids(s) = {}
    BY <2>1, <2>2, <2>3, <1>5, <1>8 DEF Whole
  <2>4. CASE Ids(LastOf(t)) # {}
    <3>1. PICK h : Part(LastOf(t), t, h)
      BY <1>8, LastOfPart
    <3>2. Ids(LastOf(t)) \subseteq Ids(t)
      <4>1. LastOf(t) \in Seq(EntryType)
        BY <1>8, LastOfPart
      <4> QED BY <4>1, <3>1, PartKeeps
    <3>3. ASSUME NEW i \in Due(c), Ids(t) = {} \/ \E j \in Ids(t) : j < i
          PROVE  i \in Ids(t)
      <4>1. PICK j \in Ids(t) : j < i
        BY <3>2, <3>3, <2>4
      <4>2. j \in Ids(s)
        BY <1>5, <1>8
      <4> QED BY <4>1, <4>2, <2>1, <2>2 DEF Whole
    <3> QED BY <3>3, <2>4 DEF Whole
  <2> QED BY <2>3, <2>4, <1>1, <1>10
<1>12. Ascending(t) /\ (c \in loaded => Right(t, rows, Pending))
  BY <1>5, <1>6, <1>8 DEF ShowsRight, s
<1>13. \A d \in Conversations : Steady(d)
  BY <1>1, <1>9, SteadyAtRest
<1>14. \A d \in Conversations : ShowsRight(d)'
  <2> DEFINE load == {}
  <2>1. UNCHANGED <<of, rows>> /\ load \in SUBSET {c} /\ UpdateChat(c, t, load)
    BY <1>1
  <2>2. c \in loaded \cup load =>
           /\ Right(t, rows, Pending') /\ Whole(t, Due(c)')
           /\ Ids(t) = {} \/ Ids(LastOf(t)) # {}
    BY <1>9, <1>11, <1>12
  <2> HIDE DEF load
  <2> QED BY <2>1, <2>2, <1>2, <1>8, <1>12, <1>13, ShowsWhatIsRight
<1>15. \A d \in Conversations : FetchRight(d)' /\ OlderRight(d)'
  BY <1>1, <1>9 DEF AllRight, FetchRight, OlderRight
<1> QED BY <1>9, <1>14, <1>15 DEF AllRight
(* Taking an event leaves of it what is shown now.                            *)
LEMMA TakesRight ==
  ASSUME Base, LastWord, UNCHANGED <<of, rows, sends, announces, unsure>>,
         wire # <<>>, wire' = Tail(wire), NEW e \in EventType, e = Head(wire)
  PROVE  /\ LastWord' /\ EventOK(e, rows)
         /\ \A i \in Pending : i \in Pending' \/ Matters(e, i, rows)
         /\ \A i \in DOMAIN rows : Matters(e, i, rows) => i \in Pending' \/ Agrees(e, rows)
         /\ \A c \in Conversations :
              /\ \A i \in Due(c)' : i \in Due(c) \/ (e.kind = "chat.message" /\ i = e.id)
              /\ e.kind = "error" \/ c # of[e.m] => Steady(c)
<1>1. wire \in Seq(EventType) /\ EventOK(e, rows)
  BY Takes DEF Base, WireOK
<1>2. ASSUME NEW i, NEW table
      PROVE  /\ Mentioned(wire, i, table) => Matters(e, i, table) \/ Mentioned(wire', i, table)
             /\ Mentioned(wire', i, table) => Mentioned(wire, i, table)
             /\ Brought(wire, i) => Brought(wire', i) \/ (e.kind = "chat.message" /\ e.id = i)
             /\ LastSays(wire, i, table) => LastSays(wire', i, table)
             /\ LastSays(wire, i, table) /\ Matters(e, i, table) /\ ~Mentioned(wire', i, table)
                  => Agrees(e, table)
  BY <1>1, TailSays
<1>3. \A i : Announced(i)' <=> Announced(i)
  BY DEF Announced
<1>4. LastWord'
  BY <1>2, <1>3 DEF LastWord
<1>5. \A i \in Pending : i \in Pending' \/ Matters(e, i, rows)
  BY <1>2, <1>3 DEF Pending
<1>6. \A i \in DOMAIN rows : Matters(e, i, rows) => i \in Pending' \/ Agrees(e, rows)
  BY <1>2, <1>3 DEF Pending, LastWord
<1>7. ASSUME NEW c \in Conversations, NEW i \in Due(c)'
      PROVE  i \in Due(c) \/ (e.kind = "chat.message" /\ i = e.id)
  BY <1>2, <1>7 DEF Due, Coming
<1>8. ASSUME NEW c \in Conversations, e.kind = "error" \/ c # of[e.m]
      PROVE  Steady(c)
  <2>1. ASSUME NEW i \in DOMAIN rows, of[rows[i].m] = c
        PROVE  ~Matters(e, i, rows) /\ ~(e.kind = "chat.message" /\ i = e.id)
    <3>1. e.kind = "error" \/ i # e.id
      BY <1>1, <1>8, <2>1 DEF EventOK, IsRow
    <3> QED BY <3>1 DEF Matters
  <2>2. \A i \in DOMAIN rows : of[rows[i].m] = c =>
          i \in Pending' \/ (i \notin Pending /\ rows'[i] = rows[i])
    BY <2>1, <1>5
  <2>3. \A i \in Due(c)' : i \in DOMAIN rows /\ of[rows[i].m] = c
    BY DEF Due
  <2>4. Due(c)' \subseteq Due(c)
    BY <1>7, <1>8, <2>1, <2>3
  <2> QED BY <2>2, <2>4 DEF Steady
<1> QED BY <1>1, <1>4, <1>5, <1>6, <1>7, <1>8

(* A message that is not late joins the end. *)
LEMMA MessageRight ==
  ASSUME Base, NEW e \in EventType, EventOK(e, rows), e.kind = "chat.message", ~Late(e),
         NEW c \in Conversations, c = of[e.m], InPlace, ShowsRight(c), NEW coming, NEW due,
         \A i \in Pending : i \in coming \/ Matters(e, i, rows),
         e.id \in coming \/ Agrees(e, rows),
         due \subseteq Due(c) \cup {e.id}
  PROVE  /\ Ascending(Applied(e)) /\ Ids(LastOf(Applied(e))) # {}
         /\ c \in loaded => Right(Applied(e), rows, coming) /\ Whole(Applied(e), due)
<1>1. PICK s \in Seq(EntryType) : s = cache[c]
  BY DEF Base, CacheOK
<1>2. PICK x \in EntryType :
        x = [m |-> e.m, id |-> e.id, ver |-> e.ver, gone |-> FALSE, edited |-> FALSE, state |-> "sent"]
  BY DEF EventType, EntryType
<1>3. PICK kept \in Seq(EntryType) :
        /\ kept = Without(s, e.m, e.id)
        /\ \A k \in DOMAIN kept : kept[k].m # e.m /\ (kept[k].id # e.id \/ e.id = 0)
  BY WithoutPart
<1>4. PICK h : Part(kept, s, h)
  BY <1>3, WithoutPart
<1>5. \A i \in DOMAIN s : s[i].m # e.m /\ (s[i].id # e.id \/ e.id = 0)
                          => \E k \in DOMAIN kept : kept[k] = s[i]
  <2>1. Spares(kept, s, e.m, e.id)
    BY <1>3, WithoutPart
  <2> QED BY <2>1 DEF Spares
<1>6. PICK t : t = Append(kept, x)
  OBVIOUS
<1>7. Applied(e) = t
  BY <1>1, <1>2, <1>3, <1>6 DEF Applied
<1>8. /\ x.id = e.id /\ e.id \in DOMAIN rows /\ rows[e.id].m = e.m /\ e.id \in Nat /\ e.id > 0
      /\ e.gone = FALSE /\ e.edited = FALSE
      /\ x.ver = e.ver /\ x.gone = FALSE /\ x.edited = FALSE
  <2>1. e.id \in DOMAIN rows /\ rows[e.id].m = e.m /\ e.gone = FALSE /\ e.edited = FALSE
    BY DEF EventOK, IsRow
  <2>2. e.id \in Nat /\ e.id > 0
    BY <2>1, RowsAre DEF Base
  <2> QED BY <1>2, <2>1, <2>2
<1>9. /\ t \in Seq(EntryType) /\ Len(t) = Len(kept) + 1 /\ t[Len(kept) + 1] = x
      /\ Ids(t) = Ids(kept) \cup {e.id}
      /\ (\A k \in Confirmed(kept) : kept[k].id < x.id) /\ Ascending(kept) => Ascending(t)
      /\ Right(kept, rows, coming) /\ (x.id \in coming \/ Agrees(x, rows))
           => Right(t, rows, coming)
  <2>1. LET u == Append(kept, x)
        IN  /\ u \in Seq(EntryType)
            /\ Len(u) = Len(kept) + 1
            /\ u[Len(kept) + 1] = x
            /\ Ids(u) = Ids(kept) \cup (IF x.id > 0 THEN {x.id} ELSE {})
            /\ (x.id = 0 \/ \A k \in Confirmed(kept) : kept[k].id < x.id) /\ Ascending(kept)
                 => Ascending(u)
            /\ \A table, pending :
                 Right(kept, table, pending) /\ (x.id = 0 \/ x.id \in pending \/ Agrees(x, table))
                   => Right(u, table, pending)
    BY AppendKeeps
  <2> QED BY <2>1, <1>6, <1>8
<1>10. /\ \A k \in DOMAIN s : s[k] \in EntryType /\ s[k].id \in Nat /\ Known(s[k], rows)
       /\ \A k \in DOMAIN kept : h[k] \in DOMAIN s /\ kept[k] = s[h[k]]
  <2>1. Sane(s, rows, asked)
    BY <1>1 DEF Base, CacheOK
  <2>2. \A k \in DOMAIN s : s[k] \in EntryType /\ s[k].id \in Nat
    BY Entries
  <2> QED BY <2>1, <2>2, <1>4 DEF Sane, Part
<1>11. \A k \in DOMAIN s : s[k].id <= e.id
  <2>1. \A k \in DOMAIN s : ~(s[k].id > e.id)
    BY <1>1 DEF Late
  <2> QED BY <2>1, <1>8, <1>10
<1>12. \A k \in Confirmed(kept) : kept[k].id # e.id /\ kept[k].id < x.id /\ h[k] \in Confirmed(s)
  <2> SUFFICES ASSUME NEW k \in Confirmed(kept)
               PROVE  kept[k].id # e.id /\ kept[k].id < x.id /\ h[k] \in Confirmed(s)
    OBVIOUS
  <2>1. k \in DOMAIN kept /\ kept[k].id > 0
    BY DEF Confirmed
  <2>2. kept[k].id # e.id
    BY <2>1, <1>3, <1>8
  <2>3. kept[k].id \in Nat /\ kept[k].id <= e.id /\ h[k] \in DOMAIN s /\ kept[k] = s[h[k]]
    BY <2>1, <1>10, <1>11
  <2> QED BY <2>1, <2>2, <2>3, <1>8 DEF Confirmed
<1>13. Ascending(t)
  <2>1. Ascending(kept)
    BY <1>1, <1>4, PartKeeps DEF ShowsRight
  <2> QED BY <2>1, <1>9, <1>12
<1>14. Ids(LastOf(t)) # {}
  <2>1. Len(kept) \in Nat
    BY Entries
  <2>2. /\ Len(LastOf(t)) \in DOMAIN LastOf(t) /\ LastOf(t)[Len(LastOf(t))] = t[Len(t)]
    <3>1. Len(t) > 0
      BY <2>1, <1>9
    <3> QED BY <3>1, <1>9, LastOfPart
  <2>3. Len(LastOf(t)) \in Confirmed(LastOf(t))
    BY <2>2, <1>8, <1>9 DEF Confirmed
  <2> QED BY <2>3 DEF Ids
<1>15. ASSUME c \in loaded
       PROVE  Right(t, rows, coming) /\ Whole(t, due)
  <2>1. Right(s, rows, Pending) /\ Whole(s, Due(c))
    BY <1>1, <1>15 DEF ShowsRight
  <2>2. \A i \in Pending : i \in coming \/ i = e.id
    BY DEF Matters
  <2>3. Right(kept, rows, coming)
    <3> SUFFICES ASSUME NEW k \in Confirmed(kept)
                 PROVE  kept[k].id \in coming \/ Agrees(kept[k], rows)
      BY DEF Right
    <3>1. kept[k].id # e.id /\ h[k] \in Confirmed(s) /\ kept[k] = s[h[k]]
      BY <1>10, <1>12 DEF Confirmed
    <3>2. kept[k].id \in Pending \/ Agrees(kept[k], rows)
      BY <3>1, <2>1 DEF Right
    <3> QED BY <3>1, <3>2, <2>2
  <2>4. x.id \in coming \/ Agrees(x, rows)
    BY <1>8 DEF Agrees
  <2>5. Right(t, rows, coming)
    BY <2>3, <2>4, <1>9
  <2>6. \A i \in Ids(s) : i \in Nat /\ i <= e.id
    BY <1>10, <1>11 DEF Ids, Confirmed
  <2>7. ASSUME NEW i \in due, Ids(t) = {} \/ \E j \in Ids(t) : j < i
        PROVE  i \in Ids(t)
    <3>1. CASE i = e.id
      BY <3>1, <1>9
    <3>2. CASE i # e.id
      <4>1. i \in Due(c) /\ i \in DOMAIN rows /\ i \in Nat
        BY <3>2, RowsAre DEF Due, Base
      <4>2. PICK j \in Ids(t) : j < i
        BY <2>7, <1>9
      <4>3. Ids(s) = {} \/ \E l \in Ids(s) : l < i
        <5>1. CASE j \in Ids(kept)
          <6>1. Ids(kept) \subseteq Ids(s)
            BY <1>4, PartKeeps
          <6> QED BY <5>1, <6>1, <4>2
        <5>2. CASE j = e.id
          <6>1. \A l \in Ids(s) : l < i
            BY <5>2, <4>1, <4>2, <2>6, <1>8
          <6> QED BY <6>1
        <5> QED BY <5>1, <5>2, <1>9
      <4>4. i \in Ids(s)
        BY <4>1, <4>3, <2>1 DEF Whole
      <4>5. PICK k \in Confirmed(s) : s[k].id = i
        BY <4>4 DEF Ids
      <4>6. k \in DOMAIN s /\ i > 0
        BY <4>5 DEF Confirmed
      <4>7. s[k].m = rows[i].m
        BY <4>5, <4>6, <1>10 DEF Known, IsRow
      <4>8. s[k].m # e.m
        BY <4>1, <4>7, <3>2, <1>8 DEF Base, RowsOK
      <4>9. PICK l \in DOMAIN kept : kept[l] = s[k]
        BY <4>5, <4>6, <4>8, <3>2, <1>5
      <4>10. l \in Confirmed(kept) /\ kept[l].id = i
        BY <4>5, <4>6, <4>9 DEF Confirmed
      <4> QED BY <4>10, <1>9 DEF Ids
    <3> QED BY <3>1, <3>2
  <2>8. Whole(t, due)
    BY <2>7 DEF Whole
  <2> QED BY <2>5, <2>8
<1> QED BY <1>7, <1>13, <1>14, <1>15
(* An edit, a deletion or an error changes what is shown in its place.        *)
LEMMA ChangedRight ==
  ASSUME Base, NEW e \in EventType, EventOK(e, rows), e.kind # "chat.message",
         Concerns(e) => e.m \in asked,
         NEW c \in Conversations, c = of[e.m], ShowsRight(c), NEW coming, NEW due,
         \A i \in Pending : i \in coming \/ Matters(e, i, rows),
         \A i \in DOMAIN rows : Matters(e, i, rows) => i \in coming \/ Agrees(e, rows),
         due \subseteq Due(c)
  PROVE  /\ Ascending(Applied(e)) /\ (Ids(Applied(e)) = {} \/ Ids(LastOf(Applied(e))) # {})
         /\ c \in loaded => Right(Applied(e), rows, coming) /\ Whole(Applied(e), due)
<1>1. PICK s \in Seq(EntryType) : s = cache[c]
  BY DEF Base, CacheOK
<1>2. PICK t : t = [k \in DOMAIN s |-> IF Touches(e, s[k]) THEN Touched(e, s[k]) ELSE s[k]]
  OBVIOUS
<1>3. Applied(e) = t
  BY <1>1, <1>2 DEF Applied
<1>4. 0 \notin DOMAIN rows /\ Sane(s, rows, asked) /\ (e.kind = "error" => e.m \in asked)
  <2>1. 0 \notin DOMAIN rows
    BY RowsAre DEF Base
  <2>2. Sane(s, rows, asked)
    BY <1>1 DEF Base, CacheOK
  <2>3. e.kind = "error" => e.m \in asked
    BY DEF Concerns, EventOK
  <2> QED BY <2>1, <2>2, <2>3
<1>5. /\ t \in Seq(EntryType) /\ DOMAIN t = DOMAIN s
      /\ Confirmed(t) = Confirmed(s) /\ Ids(t) = Ids(s)
      /\ Ascending(s) => Ascending(t)
      /\ \A k \in DOMAIN s : /\ t[k].m = s[k].m /\ t[k].id = s[k].id
                             /\ t[k] = IF Touches(e, s[k]) THEN Touched(e, s[k]) ELSE s[k]
  BY <1>2, <1>4, Mapped
<1>6. Ascending(t) /\ (Ids(t) = {} \/ Ids(LastOf(t)) # {})
  <2>1. Ascending(s) /\ Len(s) <= CacheSize
    BY <1>1 DEF ShowsRight
  <2>2. Len(t) = Len(s)
    <3>1. DOMAIN t = 1 .. Len(t) /\ DOMAIN s = 1 .. Len(s) /\ Len(t) \in Nat /\ Len(s) \in Nat
      BY <1>5, Entries
    <3>2. \A a, b \in Nat : 1 .. a = 1 .. b => a <= b
      <4>1. ASSUME NEW a \in Nat, NEW b \in Nat, 1 .. a = 1 .. b
            PROVE  a <= b
        <5>1. a = 0 \/ a \in 1 .. a
          OBVIOUS
        <5> QED BY <4>1, <5>1
      <4> QED BY <4>1
    <3>3. Len(t) <= Len(s) /\ Len(s) <= Len(t)
      BY <3>1, <3>2, <1>5
    <3>4. Len(t) \in Nat /\ Len(s) \in Nat
      BY <3>1
    <3> QED BY <3>3, <3>4
  <2>3. LastOf(t) = t
    BY <2>1, <2>2, <1>5, LastOfFits
  <2> QED BY <2>1, <2>3, <1>5
<1>7. ASSUME c \in loaded
      PROVE  Right(t, rows, coming) /\ Whole(t, due)
  <2>1. Right(s, rows, Pending) /\ Whole(s, Due(c))
    BY <1>1, <1>7 DEF ShowsRight
  <2>2. Whole(t, due)
    <3>1. Whole(t, Due(c))
      BY <2>1, <1>5 DEF Whole
    <3> QED BY <3>1, WholeMoves
  <2>3. ASSUME NEW k \in Confirmed(s)
        PROVE  t[k].id \in coming \/ Agrees(t[k], rows)
    <3>1. /\ k \in DOMAIN s /\ s[k].id > 0 /\ t[k].id = s[k].id /\ s[k] \in EntryType
          /\ Known(s[k], rows) /\ (s[k].state = "failed" => s[k].m \in Mine \cap asked)
      <4>1. k \in DOMAIN s /\ s[k].id > 0
        BY DEF Confirmed
      <4> QED BY <4>1, <1>4, <1>5, Entries DEF Sane
    <3>2. s[k].id \in DOMAIN rows /\ (s[k].gone => rows[s[k].id].gone)
      BY <3>1 DEF Known, IsRow
    <3>3. s[k].id \in Pending \/ Agrees(s[k], rows)
      BY <2>1 DEF Right
    <3>4. s[k].id \in coming \/ Agrees(s[k], rows) \/ Matters(e, s[k].id, rows)
      BY <3>3
    <3>5. CASE ~Touches(e, s[k])
      <4>1. t[k] = s[k]
        BY <3>1, <3>5, <1>5
      <4>2. ~Matters(e, s[k].id, rows) \/ e.kind = "error"
        BY <3>5 DEF Touches, Matters
      <4> QED BY <4>1, <4>2, <3>4 DEF Matters
    <3>6. CASE Touches(e, s[k])
      <4>1. PICK y : y = Touched(e, s[k])
        OBVIOUS
      <4>2. /\ y.id = s[k].id
            /\ e.kind = "error" => y.gone = s[k].gone /\ y.ver = s[k].ver /\ y.edited = s[k].edited
            /\ e.kind = "chat.updated" => y.gone = s[k].gone /\ y.ver = e.ver /\ y.edited
            /\ e.kind = "chat.deleted" => y.gone
            /\ y \in EntryType
        BY <3>1, <3>6, <4>1, <1>4, TouchedIs
      <4>3. t[k] = y
        BY <3>1, <3>6, <4>1, <1>5
      <4>4. CASE e.kind = "error"
        <5>1. ~Matters(e, s[k].id, rows)
          BY <4>4 DEF Matters
        <5>2. Agrees(y, rows) <=> Agrees(s[k], rows)
          BY <4>2, <4>4 DEF Agrees
        <5> QED BY <5>1, <5>2, <3>1, <3>4, <4>3
      <4>5. CASE e.kind # "error" /\ Matters(e, s[k].id, rows)
        <5>1. e.id = s[k].id /\ (s[k].id \in coming \/ Agrees(e, rows))
          BY <4>5, <3>2 DEF Matters
        <5>2. CASE Agrees(e, rows) /\ e.kind = "chat.deleted"
          <6>1. rows[e.id].gone /\ y.gone /\ y.id = e.id
            BY <5>1, <5>2, <4>2 DEF Agrees, EventOK
          <6>2. y.gone = rows[y.id].gone
            <7>1. y.gone \in BOOLEAN /\ rows[y.id].gone \in BOOLEAN
              BY <4>2, <5>1, <6>1, <3>2, RowsAre DEF EntryType, Base
            <7> QED BY <7>1, <6>1
          <6> QED BY <6>1, <6>2, <4>3 DEF Agrees
        <5>3. CASE Agrees(e, rows) /\ e.kind = "chat.updated"
          <6>1. ~rows[e.id].gone
            BY <4>5, <5>1, <5>3 DEF Matters
          <6>2. e.ver = rows[e.id].ver /\ e.edited = (rows[e.id].ver > 0) /\ e.edited
            BY <6>1, <5>3 DEF Agrees, EventOK
          <6>3. y.ver = e.ver /\ y.edited /\ y.gone = s[k].gone /\ ~s[k].gone /\ y.id = e.id
            BY <6>1, <5>1, <5>3, <4>2, <3>2
          <6>4. y.edited = (rows[e.id].ver > 0) /\ y.gone = rows[e.id].gone
            <7>1. y.gone \in BOOLEAN /\ rows[e.id].gone \in BOOLEAN /\ y.edited \in BOOLEAN
              BY <4>2, <5>1, <3>2, RowsAre DEF EntryType, Base
            <7>2. rows[e.id].ver > 0
              BY <6>2
            <7> QED BY <7>1, <7>2, <6>1, <6>3
          <6> QED BY <6>2, <6>3, <6>4, <4>3 DEF Agrees
        <5>4. e.kind \in {"chat.updated", "chat.deleted"}
          BY <4>5 DEF EventType
        <5> QED BY <5>1, <5>2, <5>3, <5>4, <4>2, <4>3
      <4>6. CASE e.kind # "error" /\ ~Matters(e, s[k].id, rows)
        <5>1. e.id = s[k].id /\ e.kind = "chat.updated" /\ rows[s[k].id].gone
          BY <3>6, <4>6 DEF Touches, Matters
        <5>2. Agrees(s[k], rows) => Agrees(y, rows)
          BY <5>1, <4>2 DEF Agrees
        <5> QED BY <5>2, <3>1, <3>4, <4>3, <4>6
      <4> QED BY <4>4, <4>5, <4>6
    <3> QED BY <3>5, <3>6
  <2>4. Right(t, rows, coming)
    BY <2>3, <1>5 DEF Right
  <2> QED BY <2>2, <2>4
<1> QED BY <1>3, <1>6, <1>7

LEMMA ReceiveRight ==
  ASSUME Base, InPlace, LastWord, AllRight, Receive, excuses' = {}
  PROVE  LastWord' /\ AllRight'
<1>1. PICK e \in EventType : e = Head(wire)
  BY Takes DEF Base, WireOK, Receive
<1>2. PICK c \in Conversations : c = of[e.m]
  BY DEF Base, RowsOK, EventType
<1>3. /\ wire # <<>> /\ wire' = Tail(wire) /\ UNCHANGED <<of, rows, sends, announces, unsure>>
      /\ \/ e.kind = "error" /\ UNCHANGED <<cache, loaded, fetch, older>>
         \/ /\ ~Late(e) /\ UpdateChat(c, Applied(e), {})
            /\ fetch' = Crossed(fetch, c)
            /\ older' = IF older = None \/ older.conversation # c THEN older
                        ELSE [older EXCEPT !.crossed = TRUE]
  BY <1>1, <1>2 DEF Receive, server
<1>4. /\ LastWord' /\ EventOK(e, rows)
      /\ \A i \in Pending : i \in Pending' \/ Matters(e, i, rows)
      /\ \A i \in DOMAIN rows : Matters(e, i, rows) => i \in Pending' \/ Agrees(e, rows)
      /\ \A d \in Conversations :
           /\ \A i \in Due(d)' : i \in Due(d) \/ (e.kind = "chat.message" /\ i = e.id)
           /\ e.kind = "error" \/ d # of[e.m] => Steady(d)
  <2>1. UNCHANGED <<of, rows, sends, announces, unsure>>
    BY <1>3
  <2> QED BY <1>1, <1>3, <2>1, TakesRight
<1>5. CASE e.kind = "error" /\ UNCHANGED <<cache, loaded, fetch, older>>
  <2>1. UNCHANGED <<of, cache, loaded, fetch, older>>
    BY <1>3, <1>5
  <2>2. \A d \in Conversations : Settling(d) => Steady(d)
    BY <1>4, <1>5
  <2> QED BY <2>1, <2>2, <1>4, ServerRight
<1>6. CASE /\ ~Late(e) /\ UpdateChat(c, Applied(e), {})
           /\ fetch' = Crossed(fetch, c)
           /\ older' = IF older = None \/ older.conversation # c THEN older
                       ELSE [older EXCEPT !.crossed = TRUE]
  <2>1. Concerns(e) => e.m \in asked
    <3>1. \E k \in DOMAIN wire : wire[k] = e
      <4>1. 1 \in DOMAIN wire /\ wire[1] = e
        BY <1>1, <1>3, Takes DEF Base, WireOK
      <4> QED BY <4>1
    <3> QED BY <3>1 DEF Base, AskedOK
  <2>2. PICK t \in Seq(EntryType) : t = Applied(e)
    BY <2>1, <1>4, AppliedIs
  <2>3. ShowsRight(c)
    BY DEF AllRight
  <2> DEFINE coming == Pending'
  <2> DEFINE due == Due(c)'
  <2>4. /\ Ascending(t) /\ (Ids(t) = {} \/ Ids(LastOf(t)) # {})
        /\ c \in loaded => Right(t, rows, coming) /\ Whole(t, due)
    <3>1. /\ \A i \in Pending : i \in coming \/ Matters(e, i, rows)
          /\ \A i \in DOMAIN rows : Matters(e, i, rows) => i \in coming \/ Agrees(e, rows)
          /\ \A i \in due : i \in Due(c) \/ (e.kind = "chat.message" /\ i = e.id)
      BY <1>4
    <3> HIDE DEF coming, due
    <3>2. CASE e.kind = "chat.message"
      <4>1. e.id \in coming \/ Agrees(e, rows)
        <5>1. e.id \in DOMAIN rows /\ Matters(e, e.id, rows)
          BY <3>2, <1>4 DEF EventOK, IsRow, Matters
        <5> QED BY <5>1, <3>1
      <4>2. due \subseteq Due(c) \cup {e.id}
        BY <3>1
      <4> QED BY <3>1, <3>2, <4>1, <4>2, <1>2, <1>4, <1>6, <2>2, <2>3, MessageRight
    <3>3. CASE e.kind # "chat.message"
      <4>1. due \subseteq Due(c)
        BY <3>1, <3>3
      <4> QED BY <3>1, <3>3, <4>1, <1>2, <1>4, <2>1, <2>2, <2>3, ChangedRight
    <3> QED BY <3>2, <3>3
  <2>5. \A d \in Conversations : d # c => Steady(d)
    BY <1>2, <1>4
  <2>6. \A d \in Conversations : ShowsRight(d)'
    <3> DEFINE load == {}
    <3>1. UNCHANGED <<of, rows>> /\ load \in SUBSET {c} /\ UpdateChat(c, t, load)
      BY <1>3, <1>6, <2>2
    <3>2. c \in loaded \cup load =>
             /\ Right(t, rows, Pending') /\ Whole(t, Due(c)')
             /\ Ids(t) = {} \/ Ids(LastOf(t)) # {}
      BY <2>4
    <3> HIDE DEF load
    <3> QED BY <3>1, <3>2, <2>4, <2>5, ShowsWhatIsRight
  <2>7. ASSUME NEW d \in Conversations, d # c
        PROVE  FetchRight(d)' /\ OlderRight(d)'
    <3>1. /\ Steady(d) /\ FetchRight(d) /\ OlderRight(d) /\ UNCHANGED of /\ rows' = rows
      BY <2>5, <2>7, <1>3 DEF AllRight
    <3>2. ASSUME fetch' # None, fetch'.conversation = d, fetch'.read, ~fetch'.crossed
          PROVE  Right(fetch'.page, rows', Pending') /\ Whole(fetch'.page, Due(d)')
      <4>1. fetch' = fetch
        <5>1. CASE fetch # None /\ fetch.conversation = c
          <6>1. /\ fetch \in [conversation : Conversations, read : BOOLEAN, page : Seq(EntryType),
                              crossed : BOOLEAN]
                /\ fetch' = [fetch EXCEPT !.crossed = fetch.read]
            BY <5>1, <1>6 DEF Base, FetchOK, Crossed
          <6>2. fetch'.conversation = c
            BY <6>1, <5>1
          <6> QED BY <6>2, <3>2, <2>7
        <5>2. CASE ~(fetch # None /\ fetch.conversation = c)
          BY <5>2, <1>6 DEF Crossed
        <5> QED BY <5>1, <5>2
      <4>2. Sane(fetch.page, rows, asked) /\ Within(fetch.page, d, of)
        BY <4>1, <3>2 DEF Base, FetchOK, PageLike
      <4>3. Right(fetch.page, rows, Pending) /\ Whole(fetch.page, Due(d))
        BY <4>1, <3>1, <3>2 DEF FetchRight
      <4> QED BY <4>1, <4>2, <4>3, <3>1, SteadyKeeps
    <3>3. ASSUME older' # None, older'.conversation = d
          PROVE  /\ Ascending(older'.messages)
                 /\ ~older'.crossed /\ ~older'.early =>
                      /\ Right(older'.messages, rows', Pending') /\ Whole(older'.messages, Due(d)')
                      /\ older'.read => Right(older'.page, rows', Pending')
      <4>1. older' = older
        <5>1. CASE older # None /\ older.conversation = c
          <6>1. /\ older \in [conversation : Conversations, messages : Seq(EntryType),
                              before : Nat, read : BOOLEAN, page : Seq(EntryType),
                              crossed : BOOLEAN, early : BOOLEAN]
                /\ older' = [older EXCEPT !.crossed = TRUE]
            BY <5>1, <1>6 DEF Base, OlderOK
          <6>2. older'.conversation = c
            BY <6>1, <5>1
          <6> QED BY <6>2, <3>3, <2>7
        <5>2. CASE ~(older # None /\ older.conversation = c)
          BY <5>2, <1>6
        <5> QED BY <5>1, <5>2
      <4>2. /\ Sane(older.messages, rows, asked) /\ Within(older.messages, d, of)
            /\ Sane(older.page, rows, asked) /\ Within(older.page, d, of)
        BY <4>1, <3>3 DEF Base, OlderOK, PageLike, InPlace
      <4>3. /\ Right(older.messages, rows, Pending) => Right(older.messages, rows', Pending')
            /\ Whole(older.messages, Due(d)) => Whole(older.messages, Due(d)')
            /\ Right(older.page, rows, Pending) => Right(older.page, rows', Pending')
        BY <4>2, <3>1, SteadyKeeps
      <4> QED BY <4>1, <4>3, <3>1, <3>3 DEF OlderRight
    <3>4. FetchRight(d)'
      BY <3>2 DEF FetchRight
    <3>5. OlderRight(d)'
      BY <3>3 DEF OlderRight
    <3> QED BY <3>4, <3>5
  <2>8. FetchRight(c)'
    <3> SUFFICES ASSUME fetch' # None, fetch'.conversation = c, fetch'.read, ~fetch'.crossed
                 PROVE  FALSE
      BY DEF FetchRight
    <3>1. CASE fetch # None /\ fetch.conversation = c
      <4>1. /\ fetch \in [conversation : Conversations, read : BOOLEAN, page : Seq(EntryType),
                          crossed : BOOLEAN]
            /\ fetch' = [fetch EXCEPT !.crossed = fetch.read]
        BY <3>1, <1>6 DEF Base, FetchOK, Crossed
      <4>2. fetch'.crossed = fetch.read /\ fetch'.read = fetch.read
        BY <4>1
      <4> QED BY <4>2
    <3>2. CASE ~(fetch # None /\ fetch.conversation = c)
      BY <3>2, <1>6 DEF Crossed
    <3> QED BY <3>1, <3>2
  <2>9. OlderRight(c)'
    <3>1. CASE older # None /\ older.conversation = c
      <4>1. /\ older \in [conversation : Conversations, messages : Seq(EntryType),
                          before : Nat, read : BOOLEAN, page : Seq(EntryType),
                          crossed : BOOLEAN, early : BOOLEAN]
            /\ older' = [older EXCEPT !.crossed = TRUE]
        BY <3>1, <1>6 DEF Base, OlderOK
      <4>2. older'.crossed /\ older'.messages = older.messages
        BY <4>1
      <4>3. Ascending(older.messages)
        BY <3>1 DEF AllRight, OlderRight
      <4> QED BY <4>2, <4>3 DEF OlderRight
    <3>2. CASE ~(older # None /\ older.conversation = c)
      <4>1. older' = older
        BY <3>2, <1>6
      <4> QED BY <4>1, <3>2 DEF OlderRight
    <3> QED BY <3>1, <3>2
  <2> QED BY <1>4, <2>6, <2>7, <2>8, <2>9 DEF AllRight
<1> QED BY <1>3, <1>5, <1>6
LEMMA NextRight ==
  ASSUME Base, Base', Attempts, LastWord, AllRight, [Next]_vars, excuses' = {}
  PROVE  LastWord' /\ AllRight'
<1>0. InPlace /\ Truthful
  BY DEF Attempts
<1>1. ASSUME UNCHANGED <<of, cache, loaded, fetch, older>>,
             LastWord' /\ \A c \in Conversations : Settling(c) => Steady(c)
      PROVE  LastWord' /\ AllRight'
  <2>1. UNCHANGED <<of, cache, loaded, fetch, older>>
    BY <1>1
  <2> QED BY <2>1, <1>0, <1>1, ServerRight
<1>2. ASSUME NEW m \in Messages,
             OthersSend(m) \/ Refuse(m) \/ Store(m) \/ StoreLost(m) \/ Answer(m)
      PROVE  LastWord' /\ AllRight'
  <2>1. UNCHANGED <<of, cache, loaded, fetch, older>>
    BY <1>2 DEF OthersSend, Refuse, Store, StoreLost, Answer, client
  <2>2. LastWord' /\ \A c \in Conversations : Settling(c) => Steady(c)
    BY <1>0, <1>2, OthersSendRight, RefuseRight, StoreRight, StoreLostRight, AnswerRight
  <2> QED BY <2>1, <2>2, <1>1
<1>3. ASSUME NEW m \in Messages, SendChat(m)
      PROVE  LastWord' /\ AllRight'
  BY <1>3, SendChatRight
<1>4. ASSUME NEW i \in 1 .. Len(rows), EditMessage(i) \/ DeleteMessage(i)
      PROVE  LastWord' /\ AllRight'
  <2>1. i \in DOMAIN rows /\ rows[i].ver \in Nat /\ rows[i].ver + 1 \in Nat
    BY <1>4, RowsAre DEF Base, EditMessage, DeleteMessage
  <2>2. ASSUME NEW ver \in Nat, NEW gone \in BOOLEAN, Change(i, ver, gone)
        PROVE  LastWord' /\ AllRight'
    <3>1. UNCHANGED <<of, cache, loaded, fetch, older>>
      BY <2>2 DEF Change, client
    <3>2. LastWord' /\ \A c \in Conversations : Steady(c)
      BY <2>1, <2>2, ChangeRight
    <3> QED BY <3>1, <3>2, <1>1
  <2>3. Change(i, rows[i].ver + 1, FALSE) \/ Change(i, rows[i].ver, TRUE)
    BY <1>4 DEF EditMessage, DeleteMessage
  <2>4. FALSE \in BOOLEAN /\ TRUE \in BOOLEAN
    OBVIOUS
  <2> QED BY <2>1, <2>2, <2>3, <2>4
<1>5. ASSUME NEW a \in announces, AnnounceChatUpdate(a)
      PROVE  LastWord' /\ AllRight'
  <2>1. UNCHANGED <<of, cache, loaded, fetch, older>>
    BY <1>5 DEF AnnounceChatUpdate, client
  <2>2. LastWord' /\ \A c \in Conversations : Settling(c) => Steady(c)
    BY <1>5, AnnounceRight
  <2> QED BY <2>1, <2>2, <1>1
<1>6. ASSUME NEW lost \in SUBSET Mine, Lose(lost)
      PROVE  LastWord' /\ AllRight'
  <2>1. UNCHANGED <<of, cache, loaded, fetch, older>>
    BY <1>6 DEF Lose, client
  <2>2. LastWord' /\ \A c \in Conversations : Settling(c) => Steady(c)
    BY <1>6, LoseRight
  <2> QED BY <2>1, <2>2, <1>1
<1>7. CASE Reconnect
  <2>1. UNCHANGED <<of, cache, loaded, fetch, older>>
    BY <1>7 DEF Reconnect, server, client
  <2>2. LastWord' /\ \A c \in Conversations : Settling(c) => Steady(c)
    BY <1>7, ReconnectRight
  <2> QED BY <2>1, <2>2, <1>1
<1>8. CASE Receive
  BY <1>0, <1>8, ReceiveRight
<1>9. ASSUME NEW c \in Conversations, Open(c)
      PROVE  LastWord' /\ AllRight'
  BY <1>9, OpenRight
<1>10. CASE FetchHistory \/ FetchRead \/ LoadOlder \/ OlderRead
  BY <1>10, FetchHistoryRight, FetchReadRight, LoadOlderRight, OlderReadRight
<1>11. CASE FetchDone \/ OlderDone
  BY <1>0, <1>11, FetchDoneRight, OlderDoneRight
<1>12. CASE UNCHANGED vars
  <2>1. UNCHANGED <<of, rows, announces, unsure, wire>> /\ sends' = sends
    BY <1>12 DEF vars, server, socket, history
  <2>2. UNCHANGED <<of, cache, loaded, fetch, older>>
    BY <1>12 DEF vars, server, client
  <2>3. Pending' = Pending /\ (LastWord' <=> LastWord) /\ \A c : Due(c)' = Due(c)
    BY <2>1, Rests
  <2>4. \A c \in Conversations : Steady(c)
    BY <2>1, <2>3, SteadyAtRest
  <2> QED BY <2>2, <2>3, <2>4, <1>1
<1> QED
  BY <1>2, <1>3, <1>4, <1>5, <1>6, <1>7, <1>8, <1>9, <1>10, <1>11, <1>12 DEF Next

LEMMA InitRight ==
  ASSUME Init
  PROVE  LastWord /\ AllRight
<1>1. DOMAIN <<>> = {}
  OBVIOUS
<1>2. LastWord
  BY <1>1 DEF Init, LastWord
<1>3. ASSUME NEW c \in Conversations
      PROVE  ShowsRight(c) /\ FetchRight(c) /\ OlderRight(c)
  <2>1. cache[c] = <<>> /\ loaded = {} /\ fetch = None /\ older = None
    BY DEF Init
  <2>2. Ascending(<<>>)
    BY <1>1 DEF Ascending, Confirmed
  <2>3. Len(<<>>) = 0
    BY EmptySeq
  <2>4. 0 <= CacheSize
    BY SizesArePositive
  <2> QED BY <2>1, <2>2, <2>3, <2>4 DEF ShowsRight, FetchRight, OlderRight
<1> QED BY <1>2, <1>3 DEF AllRight

(* When nothing is under way, nothing is on its way that would put it right.   *)
LEMMA QuietShown ==
  ASSUME Base, excuses = {} => LastWord /\ AllRight
  PROVE  InOrder /\ Shown
<1> SUFFICES ASSUME Quiet, excuses = {}
             PROVE  InOrder /\ Shown
  BY DEF InOrder, Shown
<1>1. DOMAIN wire = {} /\ announces = {} /\ \A m \in Messages : sends[m].at # "read"
  <2>1. Idle.at # "read"
    BY DEF Idle
  <2> QED BY <2>1 DEF Quiet
<1>2. Pending = {}
  BY <1>1 DEF Pending, Announced, Mentioned
<1>3. \A i \in DOMAIN rows : ~Coming(i)
  BY <1>1, RowsAre DEF Base, Coming, Brought
<1>4. \A c \in Conversations : ShowsRight(c)
  BY DEF AllRight
<1>5. InOrder
  BY <1>4 DEF InOrder, ShowsRight, Ascending
<1>6. Shown
  <2> SUFFICES ASSUME NEW c \in loaded
               PROVE  /\ \A k \in Confirmed(cache[c]) :
                           Look(cache[c][k]) = Look(Row(cache[c][k].id))
                      /\ \A i \in DOMAIN rows :
                           of[rows[i].m] = c /\ (Ids(cache[c]) = {} \/ \E j \in Ids(cache[c]) : j < i)
                             => i \in Ids(cache[c]) \/ rows[i].m \in unsure
    BY DEF Shown
  <2>1. c \in Conversations /\ Right(cache[c], rows, {}) /\ Whole(cache[c], Due(c))
    BY <1>2, <1>4 DEF Base, CacheOK, ShowsRight
  <2>2. ASSUME NEW k \in Confirmed(cache[c])
        PROVE  Look(cache[c][k]) = Look(Row(cache[c][k].id))
    <3>1. PICK x : x = cache[c][k]
      OBVIOUS
    <3>2. x \in EntryType /\ Known(x, rows) /\ x.id > 0
      <4>1. cache[c] \in Seq(EntryType) /\ k \in DOMAIN cache[c] /\ Sane(cache[c], rows, asked)
        BY <2>1 DEF Confirmed, Base, CacheOK
      <4> QED BY <3>1, <4>1, Entries DEF Sane, Confirmed
    <3>3. x.id \in DOMAIN rows /\ x.gone \in BOOLEAN /\ x.edited \in BOOLEAN
      BY <3>2 DEF Known, IsRow, EntryType
    <3>4. Agrees(x, rows)
      BY <2>1, <3>1 DEF Right
    <3> QED BY <3>1, <3>3, <3>4, LookRow DEF Base
  <2>3. ASSUME NEW i \in DOMAIN rows, of[rows[i].m] = c,
               Ids(cache[c]) = {} \/ \E j \in Ids(cache[c]) : j < i
        PROVE  i \in Ids(cache[c]) \/ rows[i].m \in unsure
    BY <2>1, <2>3, <1>3 DEF Whole, Due
  <2> QED BY <2>2, <2>3
<1> QED BY <1>5, <1>6

RightUnlessExcused == excuses = {} => LastWord /\ AllRight

LEMMA NextRightUnlessExcused ==
  ASSUME Base, Base', Unmixed => Attempts, RightUnlessExcused, [Next]_vars
  PROVE  RightUnlessExcused'
<1> SUFFICES ASSUME excuses' = {}
             PROVE  LastWord' /\ AllRight'
  BY DEF RightUnlessExcused
<1>1. excuses = {}
  BY ExcusesGrow
<1>2. Attempts /\ LastWord /\ AllRight
  BY <1>1 DEF Unmixed, RightUnlessExcused
<1> QED BY <1>2, NextRight

(* The invariant of the whole: what the state is made of, that attempts are    *)
(* told the truth unless a page was put where it does not belong, and that     *)
(* what is shown is right unless something excuses it.                        *)
LEMMA RightHolds == Spec => [](Base /\ RightUnlessExcused)
<1> DEFINE Inv == Base /\ (Unmixed => Attempts) /\ RightUnlessExcused
<1>1. Init => Inv
  BY InitBase, InitAttempts, InitRight DEF RightUnlessExcused
<1>2. Inv /\ [Next]_vars => Inv'
  BY NextBase, NextAttempts, NextRightUnlessExcused
<1>3. Inv => Base /\ RightUnlessExcused
  OBVIOUS
<1> QED BY <1>1, <1>2, <1>3, PTL DEF Spec

(* Messages are shown once and in the order D1 gave them, unless two of them   *)
(* were broadcast in the other order.                                        *)
THEOREM InOrderHolds == Spec => []InOrder
<1>1. Base /\ RightUnlessExcused => InOrder
  BY QuietShown DEF RightUnlessExcused
<1> QED BY RightHolds, <1>1, PTL

(* A conversation whose history counts as loaded shows every message from the  *)
(* oldest one it shows on, each as D1 has it, unless one of the excuses says    *)
(* why not: no interleaving of edits, answers, pages, evictions and losses of  *)
(* the socket that raises none of them leaves a hole or a stale text.          *)
THEOREM ShownHolds == Spec => []Shown
<1>1. Base /\ RightUnlessExcused => Shown
  BY QuietShown DEF RightUnlessExcused
<1> QED BY RightHolds, <1>1, PTL
=============================================================================
