-------------------------- MODULE ItemTablesProofs --------------------------
(***************************************************************************)
(* What the rows of ItemTables hold, for every constant that meets its     *)
(* assumptions; SearchProofs states the properties that follow.            *)
(*                                                                         *)
(* The visits of a walk over a body say which rows an item has (IsItemRow).*)
(* A body that was filled and accepted is well formed: it has the fields   *)
(* of its prototype, each of its type (Formed).  No two parts of a type,   *)
(* and no two paths of a part, share a table (TablesAssumption), so that   *)
(* the rows of a table that name an item are those of one visit, which     *)
(* list positions put in order again: a part reads back as it was written. *)
(* DataInv is the inductive invariant: the tables hold, of a live item,    *)
(* its rows and no others, of a deleted item its files' rows, and of an    *)
(* item never made nothing.                                                *)
(*                                                                         *)
(* The second half is about what is refused.  A body fits its prototype    *)
(* exactly if, filled in, it is valid and its values are of the kinds of   *)
(* their columns (FilledFitsOuter); those are the rows that the columns of *)
(* the schema take (SchemaColumns, ItemFits).                              *)
(***************************************************************************)
EXTENDS ItemTables, FiniteSetTheorems, WellFoundedInduction, TLAPS

-----------------------------------------------------------------------------
(* Numbers, and the n-th of a set of them.                                 *)

LEMMA LeastNatural ==
  ASSUME NEW S \in SUBSET Nat, S # {}
  PROVE  \E n \in S : \A m \in S : n <= m
<1>1. PICK a \in S : TRUE
  OBVIOUS
<1> DEFINE T == {1 .. k : k \in {m \in S : m <= a}}
<1>2. IsFiniteSet(1 .. a)
  BY FS_Interval
<1>3. IsWellFoundedOn(StrictSubsetOrdering(1 .. a), FiniteSubsetsOf(1 .. a))
  BY FS_StrictSubsetOrderingWellFounded
<1>4. T \subseteq FiniteSubsetsOf(1 .. a) /\ T # {}
  <2>1. ASSUME NEW k \in S, k <= a PROVE 1 .. k \in FiniteSubsetsOf(1 .. a)
    BY <2>1, FS_Interval DEF FiniteSubsetsOf
  <2> QED BY <2>1
<1>5. PICK X \in T : \A Y \in T : ~(<<Y, X>> \in StrictSubsetOrdering(1 .. a))
  <2> HIDE DEF T
  <2> QED BY <1>3, <1>4, WFMin
<1>6. PICK n \in S : n <= a /\ X = 1 .. n
  OBVIOUS
<1>7. ASSUME NEW m \in S, m < n PROVE FALSE
  <2>1. 1 .. m \in T
    BY <1>6, <1>7
  <2>2. 1 .. m \subseteq 1 .. n /\ 1 .. m # 1 .. n /\ 1 .. n \subseteq 1 .. a
    BY <1>6, <1>7
  <2>3. <<1 .. m, 1 .. n>> \in StrictSubsetOrdering(1 .. a)
    BY <2>2 DEF StrictSubsetOrdering
  <2> QED BY <1>5, <1>6, <2>1, <2>3
<1> QED BY <1>7

\* How many of a set of numbers are not above k.
Rank(places, k) == Cardinality({m \in places : m <= k})

LEMMA RankGrows ==
  ASSUME NEW places \in SUBSET Int, IsFiniteSet(places),
         NEW k \in places, NEW l \in places, k < l
  PROVE  Rank(places, k) # Rank(places, l)
<1> DEFINE K == {m \in places : m <= k}
           L == {m \in places : m <= l}
<1>1. IsFiniteSet(L) /\ K \in SUBSET L /\ l \in L /\ l \notin K
  <2>1. L \in SUBSET places /\ l \in L /\ l \notin K
    OBVIOUS
  <2>2. ASSUME NEW m \in K PROVE m \in L
    <3>1. m \in places /\ m <= k /\ m \in Int /\ k \in Int /\ l \in Int
      OBVIOUS
    <3> QED BY <3>1
  <2> QED BY <2>1, <2>2, FS_Subset
<1>2. Cardinality(L) # Cardinality(K)
  <2> HIDE DEF K, L
  <2> QED BY <1>1, FS_Subset
<1> QED BY <1>2 DEF Rank

LEMMA RankRange ==
  ASSUME NEW places \in SUBSET Int, IsFiniteSet(places), NEW k \in places
  PROVE  Rank(places, k) \in 1 .. Cardinality(places)
<1> DEFINE K == {m \in places : m <= k}
<1>1. K \in SUBSET places /\ K # {}
  OBVIOUS
<1>2. IsFiniteSet(K) /\ Cardinality(K) \in Nat /\ Cardinality(K) # 0
      /\ Cardinality(K) <= Cardinality(places) /\ Cardinality(places) \in Nat
  <2> HIDE DEF K
  <2> QED BY <1>1, FS_Subset, FS_CardinalityType, FS_EmptySet
<1> QED BY <1>2 DEF Rank

\* Every number up to the size of the set is the rank of one of its members.
LEMMA RankHits ==
  ASSUME NEW places \in SUBSET Int, IsFiniteSet(places),
         NEW n \in 1 .. Cardinality(places)
  PROVE  \E k \in places : Rank(places, k) = n
<1> SUFFICES ASSUME \A k \in places : Rank(places, k) # n PROVE FALSE
  OBVIOUS
<1> DEFINE c == Cardinality(places)
           T == (1 .. c) \ {n}
           f == [k \in places |-> Rank(places, k)]
<1>1. c \in Nat
  BY FS_CardinalityType
<1>2. IsFiniteSet(T) /\ Cardinality(T) < c
  <2>1. IsFiniteSet(1 .. c) /\ Cardinality(1 .. c) = c
    BY <1>1, FS_Interval
  <2>2. IsFiniteSet(T) /\ Cardinality(T) = c - 1
    BY <1>1, <2>1, FS_RemoveElement
  <2> QED BY <1>1, <2>2
<1>3. f \in [places -> T]
  BY RankRange
<1>4. PICK k, l \in places : k # l /\ f[k] = f[l]
  <2> HIDE DEF f, T, c
  <2>1. Cardinality(T) < Cardinality(places)
    BY <1>2 DEF c
  <2> QED BY <1>2, <1>3, <2>1, FS_PigeonHole
<1> QED BY <1>4, RankGrows

LEMMA NthOfPlaces ==
  ASSUME NEW places \in SUBSET Int, IsFiniteSet(places)
  PROVE  /\ \A n \in 1 .. Cardinality(places) :
              Nth(places, n) \in places /\ Rank(places, Nth(places, n)) = n
         /\ \A k \in places :
              /\ Rank(places, k) \in 1 .. Cardinality(places)
              /\ Nth(places, Rank(places, k)) = k
<1>1. ASSUME NEW n \in 1 .. Cardinality(places)
      PROVE  Nth(places, n) \in places /\ Rank(places, Nth(places, n)) = n
  BY RankHits DEF Nth, Rank
<1>2. ASSUME NEW k \in places
      PROVE  /\ Rank(places, k) \in 1 .. Cardinality(places)
             /\ Nth(places, Rank(places, k)) = k
  <2>1. Rank(places, k) \in 1 .. Cardinality(places)
    BY RankRange
  <2> DEFINE l == Nth(places, Rank(places, k))
  <2>2. l \in places /\ Rank(places, l) = Rank(places, k)
    BY <1>1, <2>1
  <2>3. ~(l < k) /\ ~(k < l)
    <3> HIDE DEF l
    <3> QED BY <2>2, RankGrows
  <2>4. l \in Int /\ k \in Int
    BY <2>2
  <2>5. l = k
    <3> HIDE DEF l
    <3> QED BY <2>3, <2>4
  <2> QED BY <2>1, <2>5
<1> QED BY <1>1, <1>2

\* The positions of a list, of which none is left out.
LEMMA NthOfInterval ==
  ASSUME NEW n \in Nat
  PROVE  /\ Cardinality(0 .. n - 1) = n
         /\ \A k \in 1 .. n : Nth(0 .. n - 1, k) = k - 1
<1>1. IsFiniteSet(0 .. n - 1) /\ Cardinality(0 .. n - 1) = n
  BY FS_Interval
<1>2. ASSUME NEW k \in 1 .. n PROVE Nth(0 .. n - 1, k) = k - 1
  <2>1. {m \in 0 .. n - 1 : m <= k - 1} = 0 .. k - 1
    OBVIOUS
  <2>2. Rank(0 .. n - 1, k - 1) = k
    <3>1. Cardinality(0 .. k - 1) = k
      BY FS_Interval
    <3> QED BY <2>1, <3>1 DEF Rank
  <2>3. 0 .. n - 1 \in SUBSET Int /\ k - 1 \in 0 .. n - 1
    OBVIOUS
  <2> DEFINE places == 0 .. n - 1
  <2>4. Nth(places, Rank(places, k - 1)) = k - 1
    <3> HIDE DEF places
    <3> QED BY <1>1, <2>3, NthOfPlaces DEF places
  <2> QED BY <2>2, <2>4
<1> QED BY <1>1, <1>2

-----------------------------------------------------------------------------
(* Sequences.                                                              *)

LEMMA AlphabeticalNames ==
  ASSUME NEW names \in SUBSET ToSet(FieldNames)
  PROVE  /\ Alphabetical(names) \in Seq(names)
         /\ ToSet(Alphabetical(names)) = names
<1> DEFINE places == {k \in DOMAIN FieldNames : FieldNames[k] \in names}
           c == Cardinality(places)
<1>1. DOMAIN FieldNames = 1 .. Len(FieldNames) /\ Len(FieldNames) \in Nat
  BY FieldNamesAssumption
<1>2. places \in SUBSET Int /\ IsFiniteSet(places) /\ c \in Nat
  <2>1. places \in SUBSET (1 .. Len(FieldNames))
    BY <1>1
  <2>2. IsFiniteSet(1 .. Len(FieldNames))
    BY <1>1, FS_Interval
  <2>3. IsFiniteSet(places)
    <3> HIDE DEF places
    <3> QED BY <2>1, <2>2, FS_Subset
  <2> QED BY <2>1, <2>3, FS_CardinalityType
<1>3. \A n \in 1 .. c : Nth(places, n) \in places
  <2> HIDE DEF places
  <2> QED BY <1>2, NthOfPlaces
<1>4. \A k \in places : \E n \in 1 .. c : Nth(places, n) = k
  <2> HIDE DEF places
  <2> QED BY <1>2, NthOfPlaces
<1>5. Alphabetical(names) = [n \in 1 .. c |-> FieldNames[Nth(places, n)]]
  BY DEF Alphabetical
<1>6. Alphabetical(names) \in Seq(names)
  <2>1. \A n \in 1 .. c : FieldNames[Nth(places, n)] \in names
    BY <1>3
  <2> HIDE DEF c, places
  <2> QED BY <1>2, <1>5, <2>1
<1>7. ASSUME NEW f \in names PROVE f \in ToSet(Alphabetical(names))
  <2>1. PICK k \in DOMAIN FieldNames : FieldNames[k] = f
    BY DEF ToSet
  <2>2. PICK n \in 1 .. c : Nth(places, n) = k
    BY <1>4, <2>1
  <2> QED BY <1>5, <2>1, <2>2 DEF ToSet
<1> QED BY <1>6, <1>7 DEF ToSet

\* The sequence whose n-th element joins the first n sequences.
FlatUpTo(flat, ss, n) ==
  /\ flat = [i \in 1 .. n |-> flat[i]]
  /\ \A i \in 1 .. n :
       flat[i] = IF i = 1 THEN ss[1] ELSE flat[i - 1] \o ss[i]

LEMMA FlatExists ==
  ASSUME NEW ss, NEW last \in Nat
  PROVE  \E flat : FlatUpTo(flat, ss, last)
<1> DEFINE Fails == {n \in Nat : ~ \E flat : FlatUpTo(flat, ss, n)}
<1> SUFFICES ASSUME Fails # {} PROVE FALSE
  OBVIOUS
<1>1. PICK n \in Fails : \A m \in Fails : n <= m
  <2>1. Fails \in SUBSET Nat
    OBVIOUS
  <2> HIDE DEF Fails
  <2> QED BY <2>1, LeastNatural
<1>2. n # 0
  <2> DEFINE flat == [i \in 1 .. 0 |-> i]
  <2>1. FlatUpTo(flat, ss, 0)
    BY DEF FlatUpTo
  <2> QED BY <1>1, <2>1
<1>3. n - 1 \in Nat /\ n - 1 \notin Fails
  BY <1>1, <1>2
<1>4. PICK less : FlatUpTo(less, ss, n - 1)
  BY <1>3
<1> DEFINE flat == [i \in 1 .. n |->
                      IF i = n THEN IF n = 1 THEN ss[1] ELSE less[n - 1] \o ss[n]
                      ELSE less[i]]
<1>5. ASSUME NEW i \in 1 .. n
      PROVE  flat[i] = IF i = 1 THEN ss[1] ELSE flat[i - 1] \o ss[i]
  <2>1. CASE i = n
    <3>1. i # 1 => i - 1 \in 1 .. n /\ i - 1 # n
      BY <1>3
    <3> QED BY <2>1, <3>1
  <2>2. CASE i # n
    <3>1. i \in 1 .. n - 1 /\ flat[i] = less[i]
      BY <2>2, <1>3
    <3>2. i # 1 => i - 1 \in 1 .. n /\ i - 1 # n
      BY <1>3
    <3>3. i # 1 => flat[i - 1] = less[i - 1]
      BY <3>1, <3>2
    <3>4. less[i] = IF i = 1 THEN ss[1] ELSE less[i - 1] \o ss[i]
      BY <1>4, <3>1 DEF FlatUpTo
    <3> HIDE DEF flat
    <3> QED BY <3>1, <3>3, <3>4
  <2> QED BY <2>1, <2>2
<1>6. flat = [i \in 1 .. n |-> flat[i]]
  OBVIOUS
<1>7. FlatUpTo(flat, ss, n)
  <2> HIDE DEF flat
  <2> QED BY <1>5, <1>6 DEF FlatUpTo
<1> QED BY <1>1, <1>7

LEMMA RangeOfJoined ==
  ASSUME NEW T, NEW s \in Seq(T), NEW t \in Seq(T)
  PROVE  s \o t \in Seq(T) /\ ToSet(s \o t) = ToSet(s) \cup ToSet(t)
<1>1. s \o t \in Seq(T) /\ DOMAIN s = 1 .. Len(s) /\ DOMAIN t = 1 .. Len(t)
      /\ Len(s) \in Nat /\ Len(t) \in Nat /\ DOMAIN (s \o t) = 1 .. Len(s) + Len(t)
  OBVIOUS
<1>2. ASSUME NEW k \in 1 .. Len(s) PROVE s[k] = (s \o t)[k] /\ k \in DOMAIN (s \o t)
  BY <1>1
<1>3. ASSUME NEW k \in 1 .. Len(t)
      PROVE  t[k] = (s \o t)[Len(s) + k] /\ Len(s) + k \in DOMAIN (s \o t)
  BY <1>1
<1>4. ASSUME NEW k \in DOMAIN (s \o t)
      PROVE  (s \o t)[k] \in ToSet(s) \cup ToSet(t)
  <2>1. CASE k <= Len(s)
    BY <1>1, <2>1 DEF ToSet
  <2>2. CASE k > Len(s)
    <3>1. k - Len(s) \in 1 .. Len(t) /\ (s \o t)[k] = t[k - Len(s)]
      BY <1>1, <2>2
    <3> QED BY <1>1, <3>1 DEF ToSet
  <2> QED BY <1>1, <2>1, <2>2
<1>5. ToSet(s) \subseteq ToSet(s \o t)
  BY <1>1, <1>2 DEF ToSet
<1>6. ToSet(t) \subseteq ToSet(s \o t)
  BY <1>1, <1>3 DEF ToSet
<1>7. ToSet(s \o t) \subseteq ToSet(s) \cup ToSet(t)
  <2>1. ToSet(s \o t) = {(s \o t)[k] : k \in DOMAIN (s \o t)}
    BY DEF ToSet
  <2> QED BY <1>4, <2>1
<1> QED BY <1>1, <1>5, <1>6, <1>7

RangesUpTo(ss, n) == UNION {ToSet(ss[i]) : i \in 1 .. n}

LEMMA FlatRange ==
  ASSUME NEW T, NEW ss, NEW last \in Nat,
         \A i \in 1 .. last : ss[i] \in Seq(T),
         NEW flat, FlatUpTo(flat, ss, last), NEW n \in 1 .. last
  PROVE  /\ flat[n] \in Seq(T)
         /\ ToSet(flat[n]) = RangesUpTo(ss, n)
<1> DEFINE Right(m) == /\ flat[m] \in Seq(T)
                       /\ ToSet(flat[m]) = RangesUpTo(ss, m)
           Fails == {m \in 1 .. last : ~Right(m)}
<1> SUFFICES ASSUME Fails # {} PROVE FALSE
  OBVIOUS
<1>1. PICK m \in Fails : \A l \in Fails : m <= l
  <2>1. Fails \in SUBSET Nat
    OBVIOUS
  <2> HIDE DEF Fails
  <2> QED BY <2>1, LeastNatural
<1>2. m \in 1 .. last /\ ~Right(m) /\ \A l \in 1 .. last : l < m => Right(l)
  <2>1. m \in 1 .. last /\ ~Right(m)
    OBVIOUS
  <2>2. ASSUME NEW l \in 1 .. last, l < m PROVE Right(l)
    <3>1. l \notin Fails
      <4> HIDE DEF Fails
      <4> QED BY <1>1, <2>1, <2>2
    <3> HIDE DEF Right
    <3> QED BY <3>1
  <2> QED BY <2>1, <2>2
<1> HIDE DEF Fails
<1>3. CASE m = 1
  <2>1. flat[1] = ss[1] /\ ss[1] \in Seq(T)
    BY <1>2, <1>3 DEF FlatUpTo
  <2>2. RangesUpTo(ss, 1) = ToSet(ss[1])
    <3>1. 1 .. 1 = {1}
      OBVIOUS
    <3> QED BY <3>1 DEF RangesUpTo
  <2> QED BY <1>2, <1>3, <2>1, <2>2
<1>4. CASE m # 1
  <2>1. m - 1 \in 1 .. last /\ m - 1 < m
    BY <1>2, <1>4
  <2>2. Right(m - 1)
    <3> HIDE DEF Right
    <3> QED BY <1>2, <2>1
  <2>3. flat[m] = flat[m - 1] \o ss[m] /\ ss[m] \in Seq(T)
    BY <1>2, <1>4 DEF FlatUpTo
  <2>4. flat[m] \in Seq(T) /\ ToSet(flat[m]) = ToSet(flat[m - 1]) \cup ToSet(ss[m])
    BY <2>2, <2>3, RangeOfJoined
  <2>5. RangesUpTo(ss, m) = RangesUpTo(ss, m - 1) \cup ToSet(ss[m])
    <3>1. 1 .. m = (1 .. m - 1) \cup {m}
      BY <1>2, <2>1
    <3> QED BY <3>1 DEF RangesUpTo
  <2> QED BY <1>2, <2>2, <2>4, <2>5
<1> QED BY <1>3, <1>4

LEMMA FlattenRange ==
  ASSUME NEW T, NEW ss \in Seq(Seq(T))
  PROVE  /\ FlattenSeq(ss) \in Seq(T)
         /\ ToSet(FlattenSeq(ss)) = UNION {ToSet(ss[i]) : i \in DOMAIN ss}
<1>1. PICK last \in Nat : /\ last = Len(ss) /\ DOMAIN ss = 1 .. last
                          /\ \A i \in 1 .. last : ss[i] \in Seq(T)
  OBVIOUS
<1>2. CASE last = 0
  <2>1. ss = <<>> /\ FlattenSeq(ss) = ss
    BY <1>1, <1>2 DEF FlattenSeq
  <2>2. DOMAIN ss = {}
    BY <1>1, <1>2
  <2>3. ToSet(ss) = {} /\ UNION {ToSet(ss[i]) : i \in DOMAIN ss} = {}
    BY <2>2 DEF ToSet
  <2>4. <<>> \in Seq(T)
    OBVIOUS
  <2> QED BY <2>1, <2>3, <2>4
<1>3. CASE last # 0
  <2> DEFINE Def(f) == f = [i \in 1 .. last |->
                              IF i = 1 THEN ss[i] ELSE f[i - 1] \o ss[i]]
  <2>1. \E f : Def(f)
    <3>1. PICK f : FlatUpTo(f, ss, last)
      BY FlatExists
    <3>2. Def(f)
      BY <3>1 DEF FlatUpTo
    <3> QED BY <3>2
  <2>2. PICK flat : Def(flat) /\ flat = CHOOSE f : Def(f)
    <3> HIDE DEF Def
    <3> QED BY <2>1
  <2>3. FlatUpTo(flat, ss, last)
    <3>1. Def(flat)
      BY <2>2
    <3> QED BY <3>1 DEF FlatUpTo
  <2>4. FlattenSeq(ss) = flat[last]
    <3>1. Len(ss) = last /\ Len(ss) # 0
      BY <1>1, <1>3
    <3>2. FlattenSeq(ss) = (CHOOSE f : Def(f))[last]
      BY <3>1, Zenon DEF FlattenSeq
    <3> QED BY <2>2, <3>2
  <2>5. last \in 1 .. last
    BY <1>3
  <2>6. /\ flat[last] \in Seq(T)
        /\ ToSet(flat[last]) = RangesUpTo(ss, last)
    BY <1>1, <2>3, <2>5, FlatRange
  <2> QED BY <1>1, <2>4, <2>6 DEF RangesUpTo
<1> QED BY <1>2, <1>3

LEMMA JoinedRange ==
  ASSUME NEW T, NEW n \in Nat, NEW ss, ss = [i \in 1 .. n |-> ss[i]],
         \A i \in 1 .. n : ss[i] \in Seq(T)
  PROVE  /\ FlattenSeq(ss) \in Seq(T)
         /\ \A v : v \in ToSet(FlattenSeq(ss)) <=> \E i \in 1 .. n : v \in ToSet(ss[i])
<1>1. ss \in Seq(Seq(T)) /\ DOMAIN ss = 1 .. n
  OBVIOUS
<1>2. /\ FlattenSeq(ss) \in Seq(T)
      /\ ToSet(FlattenSeq(ss)) = UNION {ToSet(ss[i]) : i \in DOMAIN ss}
  BY <1>1, FlattenRange
<1> QED BY <1>1, <1>2

-----------------------------------------------------------------------------
(* The fields of a prototype, by their kinds, and the visits of a walk.    *)

SimpleFields(proto) == {f \in DOMAIN proto : Kind(proto[f]) \in Simple}
ListFields(proto, kind) ==
  {f \in DOMAIN proto : Kind(proto[f]) = "list" /\ Kind(Data(proto[f])[1]) = kind}
StrFields(proto)  == ListFields(proto, "str")
DictFields(proto) == ListFields(proto, "dict")

LEMMA FieldsInOrder ==
  ASSUME NEW proto, DOMAIN proto \subseteq ToSet(FieldNames)
  PROVE  /\ SimpleColumns(proto) \in Seq(SimpleFields(proto))
         /\ ToSet(SimpleColumns(proto)) = SimpleFields(proto)
         /\ StrLists(proto) \in Seq(StrFields(proto))
         /\ ToSet(StrLists(proto)) = StrFields(proto)
         /\ DictLists(proto) \in Seq(DictFields(proto))
         /\ ToSet(DictLists(proto)) = DictFields(proto)
<1>1. /\ SimpleFields(proto) \in SUBSET ToSet(FieldNames)
      /\ StrFields(proto) \in SUBSET ToSet(FieldNames)
      /\ DictFields(proto) \in SUBSET ToSet(FieldNames)
  BY DEF SimpleFields, StrFields, DictFields, ListFields
<1>2. /\ SimpleColumns(proto) = Alphabetical(SimpleFields(proto))
      /\ StrLists(proto) = Alphabetical(StrFields(proto))
      /\ DictLists(proto) = Alphabetical(DictFields(proto))
  BY DEF SimpleColumns, StrLists, DictLists, ListsOf, SimpleFields, StrFields,
         DictFields, ListFields
<1> QED BY <1>1, <1>2, AlphabeticalNames

InnerListOf(d, g) == IF g \in DOMAIN d THEN Data(d[g]) ELSE <<>>

IsInnerVisit(d, f, i, g, proto, v) ==
  \E j \in DOMAIN InnerListOf(d, g) :
    \/ v = Visit("dict in inner list", <<f, g>>, <<i, j>>, SimpleColumns(proto))
    \/ \E s \in StrFields(proto) :
         v = Visit("inner dict's str list", <<f, g, s>>, <<i, j>>, <<>>)

IsListVisit(item, f, proto, v) ==
  \/ v = Visit("dict list", <<f>>, <<>>, SimpleColumns(proto))
  \/ \E g \in DictFields(proto) :
       v = Visit("inner dict list", <<f, g>>, <<>>, SimpleColumns(Inner(proto, g)))
  \/ \E i \in DOMAIN Data(item[f]) :
       \/ v = Visit("dict in list", <<f>>, <<i>>, SimpleColumns(proto))
       \/ \E s \in StrFields(proto) :
            v = Visit("dict's str list", <<f, s>>, <<i>>, <<>>)
       \/ \E g \in DictFields(proto) :
            IsInnerVisit(DictIn(item, f, i), f, i, g, Inner(proto, g), v)

IsVisit(item, proto, v) ==
  \/ v = Visit("main dict", <<>>, <<>>, SimpleColumns(proto))
  \/ \E f \in StrFields(proto) : v = Visit("str list", <<f>>, <<>>, <<>>)
  \/ \E f \in DictFields(proto) : IsListVisit(item, f, Inner(proto, f), v)

LEMMA Prefixed ==
  ASSUME NEW T, NEW v \in T, NEW s \in Seq(T)
  PROVE  <<v>> \o s \in Seq(T) /\ \A w : w \in ToSet(<<v>> \o s) <=> w = v \/ w \in ToSet(s)
<1>1. <<v>> \in Seq(T) /\ ToSet(<<v>>) = {v}
  <2>1. <<v>> \in Seq(T) /\ DOMAIN <<v>> = {1} /\ <<v>>[1] = v
    OBVIOUS
  <2> QED BY <2>1 DEF ToSet
<1>2. PICK head : head = <<v>>
  OBVIOUS
<1>3. head \o s \in Seq(T) /\ ToSet(head \o s) = ToSet(head) \cup ToSet(s)
  <2>1. head \in Seq(T)
    BY <1>1, <1>2
  <2> QED BY <2>1, RangeOfJoined
<1> QED BY <1>1, <1>2, <1>3

\* One visit for each of some names.
EachVisited(names, visit) == FlattenSeq([k \in DOMAIN names |-> <<visit[names[k]]>>])

LEMMA NamesVisited ==
  ASSUME NEW T, NEW S, NEW names \in Seq(S), ToSet(names) = S, NEW visit \in [S -> T]
  PROVE  /\ EachVisited(names, visit) \in Seq(T)
         /\ \A v : v \in ToSet(EachVisited(names, visit)) <=> \E f \in S : v = visit[f]
<1>1. PICK n \in Nat : DOMAIN names = 1 .. n /\ \A k \in 1 .. n : names[k] \in S
  OBVIOUS
<1> DEFINE ss == [k \in DOMAIN names |-> <<visit[names[k]]>>]
<1>2. ASSUME NEW k \in 1 .. n
      PROVE  ss[k] \in Seq(T) /\ \A v : v \in ToSet(ss[k]) <=> v = visit[names[k]]
  <2>1. visit[names[k]] \in T /\ ss[k] = <<visit[names[k]]>>
    BY <1>1
  <2> DEFINE v == visit[names[k]]
  <2>2. <<v>> \in Seq(T) /\ DOMAIN <<v>> = {1} /\ <<v>>[1] = v
    BY <2>1
  <2> HIDE DEF v
  <2> QED BY <2>1, <2>2 DEF v, ToSet
<1>3. ss = [k \in 1 .. n |-> ss[k]]
  BY <1>1
<1>4. /\ FlattenSeq(ss) \in Seq(T)
      /\ \A v : v \in ToSet(FlattenSeq(ss)) <=> \E k \in 1 .. n : v \in ToSet(ss[k])
  <2> HIDE DEF ss
  <2> QED BY <1>2, <1>3, JoinedRange
<1>5. \A f \in S : \E k \in 1 .. n : names[k] = f
  BY <1>1 DEF ToSet
<1>6. \A v : v \in ToSet(FlattenSeq(ss)) <=> \E k \in 1 .. n : v = visit[names[k]]
  <2> HIDE DEF ss
  <2> QED BY <1>2, <1>4
<1> HIDE DEF ss
<1>7. \A v : v \in ToSet(FlattenSeq(ss)) <=> \E f \in S : v = visit[f]
  BY <1>1, <1>5, <1>6
<1>8. EachVisited(names, visit) = FlattenSeq(ss)
  BY DEF EachVisited, ss
<1> QED BY <1>4, <1>7, <1>8

LEMMA InnerListVisited ==
  ASSUME NEW d, NEW f, NEW i, NEW g, NEW proto, NEW T,
         DOMAIN proto \subseteq ToSet(FieldNames),
         NEW n \in Nat, DOMAIN InnerListOf(d, g) = 1 .. n,
         \A v : IsInnerVisit(d, f, i, g, proto, v) => v \in T
  PROVE  /\ InnerListVisits(d, f, i, g, proto) \in Seq(T)
         /\ \A v : v \in ToSet(InnerListVisits(d, f, i, g, proto))
                     <=> IsInnerVisit(d, f, i, g, proto, v)
<1> DEFINE Row(j) == Visit("dict in inner list", <<f, g>>, <<i, j>>, SimpleColumns(proto))
           Str1(j, s) == Visit("inner dict's str list", <<f, g, s>>, <<i, j>>, <<>>)
           names == StrLists(proto)
           js == [j \in DOMAIN InnerListOf(d, g) |-> j]
           Part(j) == <<Row(j)>> \o FlattenSeq([k \in DOMAIN names |-> <<Str1(j, names[k])>>])
           ss == [k \in DOMAIN js |-> Part(js[k])]
<1>1. InnerListVisits(d, f, i, g, proto) = FlattenSeq(ss)
  BY DEF InnerListVisits, InnerListOf, ForEach
<1>2. DOMAIN js = 1 .. n /\ \A j \in 1 .. n : js[j] = j
  OBVIOUS
<1>3. ASSUME NEW j \in 1 .. n
      PROVE  /\ Part(j) \in Seq(T)
             /\ \A v : v \in ToSet(Part(j)) <=>
                  v = Row(j) \/ \E s \in StrFields(proto) : v = Str1(j, s)
  <2>1. Row(j) \in T /\ \A s \in StrFields(proto) : Str1(j, s) \in T
    BY DEF IsInnerVisit
  <2> DEFINE visit == [s \in StrFields(proto) |-> Str1(j, s)]
             strs == EachVisited(names, visit)
  <2>2. visit \in [StrFields(proto) -> T]
    <3> HIDE DEF Str1
    <3> QED BY <2>1
  <2>3. names \in Seq(StrFields(proto)) /\ ToSet(names) = StrFields(proto)
    BY FieldsInOrder
  <2>4. /\ strs \in Seq(T)
        /\ \A v : v \in ToSet(strs) <=> \E s \in StrFields(proto) : v = visit[s]
    <3> HIDE DEF visit, names
    <3> QED BY <2>2, <2>3, NamesVisited
  <2>5. \A k \in DOMAIN names : names[k] \in StrFields(proto)
    <3> HIDE DEF names
    <3> QED BY <2>3
  <2>6. [k \in DOMAIN names |-> <<visit[names[k]]>>]
          = [k \in DOMAIN names |-> <<Str1(j, names[k])>>]
    <3> HIDE DEF names, Str1
    <3> QED BY <2>5
  <2>7. Part(j) = <<Row(j)>> \o strs
    <3> HIDE DEF names, Str1, visit, Row
    <3> QED BY <2>6 DEF EachVisited
  <2>8. \A v : v \in ToSet(strs) <=> \E s \in StrFields(proto) : v = Str1(j, s)
    <3> HIDE DEF Str1, strs
    <3> QED BY <2>4
  <2> HIDE DEF Row, strs, Str1, Part
  <2> QED BY <2>1, <2>4, <2>7, <2>8, Prefixed
<1>4. ss = [k \in 1 .. n |-> ss[k]] /\ \A k \in 1 .. n : ss[k] = Part(k)
  <2> HIDE DEF Part, js
  <2> QED BY <1>2
<1>5. /\ FlattenSeq(ss) \in Seq(T)
      /\ \A v : v \in ToSet(FlattenSeq(ss)) <=> \E j \in 1 .. n : v \in ToSet(ss[j])
  <2> HIDE DEF ss, Part
  <2>1. \A k \in 1 .. n : ss[k] \in Seq(T)
    BY <1>3, <1>4
  <2> QED BY <1>4, <2>1, JoinedRange
<1>6. \A v : v \in ToSet(FlattenSeq(ss)) <=> \E j \in 1 .. n :
               v = Row(j) \/ \E s \in StrFields(proto) : v = Str1(j, s)
  <2> HIDE DEF ss, Part, Row, Str1
  <2>1. \A v : \A j \in 1 .. n : v \in ToSet(ss[j]) <=>
                 v = Row(j) \/ \E s \in StrFields(proto) : v = Str1(j, s)
    BY <1>3, <1>4
  <2> QED BY <1>5, <2>1
<1>7. \A v : IsInnerVisit(d, f, i, g, proto, v) <=> \E j \in 1 .. n :
               v = Row(j) \/ \E s \in StrFields(proto) : v = Str1(j, s)
  BY DEF IsInnerVisit
<1> HIDE DEF ss, Row, Str1
<1> QED BY <1>1, <1>5, <1>6, <1>7

\* The visits of some names, one after the other.
EachWalked(names, parts) == FlattenSeq([k \in DOMAIN names |-> parts[names[k]]])

LEMMA NamesWalked ==
  ASSUME NEW T, NEW S, NEW names \in Seq(S), ToSet(names) = S, NEW parts \in [S -> Seq(T)]
  PROVE  /\ EachWalked(names, parts) \in Seq(T)
         /\ \A v : v \in ToSet(EachWalked(names, parts)) <=> \E f \in S : v \in ToSet(parts[f])
<1>1. PICK n \in Nat : DOMAIN names = 1 .. n /\ \A k \in 1 .. n : names[k] \in S
  OBVIOUS
<1> DEFINE ss == [k \in DOMAIN names |-> parts[names[k]]]
<1>2. \A k \in 1 .. n : ss[k] = parts[names[k]] /\ ss[k] \in Seq(T)
  BY <1>1
<1>3. ss = [k \in 1 .. n |-> ss[k]]
  BY <1>1
<1>4. /\ FlattenSeq(ss) \in Seq(T)
      /\ \A v : v \in ToSet(FlattenSeq(ss)) <=> \E k \in 1 .. n : v \in ToSet(ss[k])
  <2> HIDE DEF ss
  <2> QED BY <1>2, <1>3, JoinedRange
<1>5. \A f \in S : \E k \in 1 .. n : names[k] = f
  BY <1>1 DEF ToSet
<1>6. EachWalked(names, parts) = FlattenSeq(ss)
  BY DEF EachWalked
<1> HIDE DEF ss
<1>7. \A v : v \in ToSet(FlattenSeq(ss)) <=> \E f \in S : v \in ToSet(parts[f])
  BY <1>1, <1>2, <1>4, <1>5
<1> QED BY <1>4, <1>6, <1>7

LEMMA Positions ==
  ASSUME NEW n \in Nat
  PROVE  [i \in 1 .. n |-> i] \in Seq(1 .. n) /\ ToSet([i \in 1 .. n |-> i]) = 1 .. n
<1>1. [i \in 1 .. n |-> i] \in Seq(1 .. n)
  OBVIOUS
<1> QED BY <1>1 DEF ToSet

\* The visits of the i-th dict of a list.
DictInListVisits(item, f, i, proto) ==
  <<Visit("dict in list", <<f>>, <<i>>, SimpleColumns(proto))>>
  \o ForEach(StrLists(proto), LAMBDA s :
       <<Visit("dict's str list", <<f, s>>, <<i>>, <<>>)>>)
  \o ForEach(DictLists(proto), LAMBDA g :
       InnerListVisits(DictIn(item, f, i), f, i, g, Inner(proto, g)))

IsDictVisit(item, f, i, proto, v) ==
  \/ v = Visit("dict in list", <<f>>, <<i>>, SimpleColumns(proto))
  \/ \E s \in StrFields(proto) :
       v = Visit("dict's str list", <<f, s>>, <<i>>, <<>>)
  \/ \E g \in DictFields(proto) :
       IsInnerVisit(DictIn(item, f, i), f, i, g, Inner(proto, g), v)

LEMMA DictVisited ==
  ASSUME NEW item, NEW f, NEW i, NEW proto, NEW T,
         DOMAIN proto \subseteq ToSet(FieldNames),
         \A g \in DictFields(proto) :
           /\ DOMAIN Inner(proto, g) \subseteq ToSet(FieldNames)
           /\ \E n \in Nat : DOMAIN InnerListOf(DictIn(item, f, i), g) = 1 .. n,
         \A v : IsDictVisit(item, f, i, proto, v) => v \in T
  PROVE  /\ DictInListVisits(item, f, i, proto) \in Seq(T)
         /\ \A v : v \in ToSet(DictInListVisits(item, f, i, proto))
                     <=> IsDictVisit(item, f, i, proto, v)
<1> DEFINE S == StrFields(proto)
           D == DictFields(proto)
           row == Visit("dict in list", <<f>>, <<i>>, SimpleColumns(proto))
           str(s) == Visit("dict's str list", <<f, s>>, <<i>>, <<>>)
           inner(g) == InnerListVisits(DictIn(item, f, i), f, i, g, Inner(proto, g))
           names == StrLists(proto)
           lists == DictLists(proto)
           visit == [s \in S |-> str(s)]
           parts == [g \in D |-> inner(g)]
           IsIn(g, v) == IsInnerVisit(DictIn(item, f, i), f, i, g, Inner(proto, g), v)
<1>1. /\ names \in Seq(S) /\ ToSet(names) = S
      /\ lists \in Seq(D) /\ ToSet(lists) = D
  BY FieldsInOrder
<1>2. row \in T /\ \A s \in S : str(s) \in T
  BY DEF IsDictVisit
<1>3. ASSUME NEW g \in D
      PROVE  inner(g) \in Seq(T) /\ \A v : v \in ToSet(inner(g)) <=> IsIn(g, v)
  <2>1. \A v : IsIn(g, v) => v \in T
    BY DEF IsDictVisit
  <2>2. PICK n \in Nat : DOMAIN InnerListOf(DictIn(item, f, i), g) = 1 .. n
    OBVIOUS
  <2>3. DOMAIN Inner(proto, g) \subseteq ToSet(FieldNames)
    OBVIOUS
  <2> QED BY <2>1, <2>2, <2>3, InnerListVisited
<1>4. /\ EachVisited(names, visit) \in Seq(T)
      /\ \A v : v \in ToSet(EachVisited(names, visit)) <=> \E s \in S : v = str(s)
  <2>1. visit \in [S -> T] /\ \A s \in S : visit[s] = str(s)
    <3> HIDE DEF str, S
    <3> QED BY <1>2
  <2> HIDE DEF visit, names, S, str
  <2>2. /\ EachVisited(names, visit) \in Seq(T)
        /\ \A v : v \in ToSet(EachVisited(names, visit)) <=> \E s \in S : v = visit[s]
    BY <1>1, <2>1, NamesVisited
  <2> QED BY <2>1, <2>2
<1>5. /\ EachWalked(lists, parts) \in Seq(T)
      /\ \A v : v \in ToSet(EachWalked(lists, parts)) <=> \E g \in D : IsIn(g, v)
  <2>1. parts \in [D -> Seq(T)] /\ \A g \in D : parts[g] = inner(g)
    <3> HIDE DEF inner, D
    <3> QED BY <1>3
  <2> HIDE DEF parts, lists, D, inner, IsIn
  <2>2. /\ EachWalked(lists, parts) \in Seq(T)
        /\ \A v : v \in ToSet(EachWalked(lists, parts)) <=> \E g \in D : v \in ToSet(parts[g])
    BY <1>1, <2>1, NamesWalked
  <2> QED BY <1>3, <2>1, <2>2
<1>6. /\ EachVisited(names, visit) = FlattenSeq([k \in DOMAIN names |-> <<str(names[k])>>])
      /\ EachWalked(lists, parts) = FlattenSeq([k \in DOMAIN lists |-> inner(lists[k])])
  <2>1. \A k \in DOMAIN names : names[k] \in S
    <3> HIDE DEF names, S
    <3> QED BY <1>1
  <2>2. \A k \in DOMAIN lists : lists[k] \in D
    <3> HIDE DEF lists, D
    <3> QED BY <1>1
  <2> HIDE DEF names, lists, S, D, str, inner
  <2>3. [k \in DOMAIN names |-> <<visit[names[k]]>>] = [k \in DOMAIN names |-> <<str(names[k])>>]
    BY <2>1
  <2>4. [k \in DOMAIN lists |-> parts[lists[k]]] = [k \in DOMAIN lists |-> inner(lists[k])]
    BY <2>2
  <2> QED BY <2>3, <2>4 DEF EachVisited, EachWalked
<1>7. DictInListVisits(item, f, i, proto)
        = <<row>> \o EachVisited(names, visit) \o EachWalked(lists, parts)
  <2>1. DictInListVisits(item, f, i, proto)
          = <<row>> \o FlattenSeq([k \in DOMAIN names |-> <<str(names[k])>>])
              \o FlattenSeq([k \in DOMAIN lists |-> inner(lists[k])])
    BY DEF DictInListVisits, ForEach
  <2> HIDE DEF row, names, lists, str, inner, visit, parts
  <2> QED BY <1>6, <2>1
<1>8. PICK mid : mid = EachVisited(names, visit)
  OBVIOUS
<1>9. PICK rest : rest = EachWalked(lists, parts)
  OBVIOUS
<1>10. PICK most : most = <<row>> \o mid
  OBVIOUS
<1> HIDE DEF row, names, lists, visit, parts, S, D, str, inner, IsIn
<1>11. most \in Seq(T) /\ \A v : v \in ToSet(most) <=> v = row \/ v \in ToSet(mid)
  BY <1>2, <1>4, <1>8, <1>10, Prefixed
<1>12. most \o rest \in Seq(T) /\ ToSet(most \o rest) = ToSet(most) \cup ToSet(rest)
  BY <1>5, <1>9, <1>11, RangeOfJoined
<1>13. \A v : IsDictVisit(item, f, i, proto, v) <=>
         v = row \/ (\E s \in S : v = str(s)) \/ \E g \in D : IsIn(g, v)
  BY DEF IsDictVisit, row, S, D, str, IsIn
<1> QED BY <1>4, <1>5, <1>7, <1>8, <1>9, <1>10, <1>11, <1>12, <1>13

\* What the walk takes for granted of the list f of an item.
Walkable(item, f, proto) ==
  /\ DOMAIN proto \subseteq ToSet(FieldNames)
  /\ \E n \in Nat : DOMAIN Data(item[f]) = 1 .. n
  /\ \A g \in DictFields(proto) :
       /\ DOMAIN Inner(proto, g) \subseteq ToSet(FieldNames)
       /\ \A i \in DOMAIN Data(item[f]) :
            \E n \in Nat : DOMAIN InnerListOf(DictIn(item, f, i), g) = 1 .. n

LEMMA ListVisited ==
  ASSUME NEW item, NEW f, NEW proto, NEW T, Walkable(item, f, proto),
         \A v : IsListVisit(item, f, proto, v) => v \in T
  PROVE  /\ DictListVisits(item, f, proto) \in Seq(T)
         /\ \A v : v \in ToSet(DictListVisits(item, f, proto))
                     <=> IsListVisit(item, f, proto, v)
<1>1. PICK n \in Nat : DOMAIN Data(item[f]) = 1 .. n
  BY DEF Walkable
<1> DEFINE D == DictFields(proto)
           list == Visit("dict list", <<f>>, <<>>, SimpleColumns(proto))
           inner(g) == Visit("inner dict list", <<f, g>>, <<>>,
                             SimpleColumns(Inner(proto, g)))
           dict(i) == DictInListVisits(item, f, i, proto)
           lists == DictLists(proto)
           places == [i \in DOMAIN Data(item[f]) |-> i]
           visit == [g \in D |-> inner(g)]
           parts == [i \in 1 .. n |-> dict(i)]
           IsIn(i, v) == IsDictVisit(item, f, i, proto, v)
<1>2. /\ lists \in Seq(D) /\ ToSet(lists) = D
      /\ places \in Seq(1 .. n) /\ ToSet(places) = 1 .. n
  <2>1. DOMAIN proto \subseteq ToSet(FieldNames)
    BY DEF Walkable
  <2>2. places = [i \in 1 .. n |-> i]
    BY <1>1
  <2> QED BY <2>1, <2>2, FieldsInOrder, Positions
<1>3. /\ \A v : IsListVisit(item, f, proto, v) <=>
           v = list \/ (\E g \in D : v = inner(g)) \/ \E i \in 1 .. n : IsIn(i, v)
  BY <1>1 DEF IsListVisit, IsDictVisit
<1>4. list \in T /\ (\A g \in D : inner(g) \in T)
      /\ \A i \in 1 .. n : \A v : IsIn(i, v) => v \in T
  <2> HIDE DEF list, D, inner, IsIn
  <2> QED BY <1>3
<1>5. ASSUME NEW i \in 1 .. n
      PROVE  dict(i) \in Seq(T) /\ \A v : v \in ToSet(dict(i)) <=> IsIn(i, v)
  <2>1. \A v : IsDictVisit(item, f, i, proto, v) => v \in T
    BY <1>4
  <2>2. /\ DOMAIN proto \subseteq ToSet(FieldNames)
        /\ \A g \in D :
             /\ DOMAIN Inner(proto, g) \subseteq ToSet(FieldNames)
             /\ \E m \in Nat : DOMAIN InnerListOf(DictIn(item, f, i), g) = 1 .. m
    BY <1>1 DEF Walkable
  <2> QED BY <2>1, <2>2, DictVisited
<1>6. /\ EachVisited(lists, visit) \in Seq(T)
      /\ \A v : v \in ToSet(EachVisited(lists, visit)) <=> \E g \in D : v = inner(g)
  <2>1. visit \in [D -> T] /\ \A g \in D : visit[g] = inner(g)
    <3> HIDE DEF inner, D
    <3> QED BY <1>4
  <2> HIDE DEF visit, lists, D, inner
  <2>2. /\ EachVisited(lists, visit) \in Seq(T)
        /\ \A v : v \in ToSet(EachVisited(lists, visit)) <=> \E g \in D : v = visit[g]
    BY <1>2, <2>1, NamesVisited
  <2> QED BY <2>1, <2>2
<1>7. /\ EachWalked(places, parts) \in Seq(T)
      /\ \A v : v \in ToSet(EachWalked(places, parts)) <=> \E i \in 1 .. n : IsIn(i, v)
  <2>1. parts \in [1 .. n -> Seq(T)] /\ \A i \in 1 .. n : parts[i] = dict(i)
    <3> HIDE DEF dict
    <3> QED BY <1>5
  <2> HIDE DEF parts, places, dict, IsIn
  <2>2. /\ EachWalked(places, parts) \in Seq(T)
        /\ \A v : v \in ToSet(EachWalked(places, parts))
                    <=> \E i \in 1 .. n : v \in ToSet(parts[i])
    BY <1>2, <2>1, NamesWalked
  <2> QED BY <1>5, <2>1, <2>2
<1>8. /\ EachVisited(lists, visit) = FlattenSeq([k \in DOMAIN lists |-> <<inner(lists[k])>>])
      /\ EachWalked(places, parts) = FlattenSeq([k \in DOMAIN places |-> dict(places[k])])
  <2>1. \A k \in DOMAIN lists : lists[k] \in D
    <3> HIDE DEF lists, D
    <3> QED BY <1>2
  <2>2. \A k \in DOMAIN places : places[k] \in 1 .. n
    <3> HIDE DEF places
    <3> QED BY <1>2
  <2> HIDE DEF lists, places, D, inner, dict
  <2>3. [k \in DOMAIN lists |-> <<visit[lists[k]]>>] = [k \in DOMAIN lists |-> <<inner(lists[k])>>]
    BY <2>1
  <2>4. [k \in DOMAIN places |-> parts[places[k]]] = [k \in DOMAIN places |-> dict(places[k])]
    BY <2>2
  <2> QED BY <2>3, <2>4 DEF EachVisited, EachWalked
<1>9. DictListVisits(item, f, proto)
        = <<list>> \o EachVisited(lists, visit) \o EachWalked(places, parts)
  <2>1. DictListVisits(item, f, proto)
          = <<list>> \o FlattenSeq([k \in DOMAIN lists |-> <<inner(lists[k])>>])
              \o FlattenSeq([k \in DOMAIN places |-> dict(places[k])])
    BY DEF DictListVisits, ForEach, DictInListVisits
  <2> HIDE DEF list, lists, places, inner, dict, visit, parts
  <2> QED BY <1>8, <2>1
<1>10. PICK mid : mid = EachVisited(lists, visit)
  OBVIOUS
<1>11. PICK rest : rest = EachWalked(places, parts)
  OBVIOUS
<1>12. PICK most : most = <<list>> \o mid
  OBVIOUS
<1> HIDE DEF list, lists, places, visit, parts, D, inner, dict, IsIn
<1>13. most \in Seq(T) /\ \A v : v \in ToSet(most) <=> v = list \/ v \in ToSet(mid)
  BY <1>4, <1>6, <1>10, <1>12, Prefixed
<1>14. most \o rest \in Seq(T) /\ ToSet(most \o rest) = ToSet(most) \cup ToSet(rest)
  BY <1>7, <1>11, <1>13, RangeOfJoined
<1> QED BY <1>3, <1>6, <1>7, <1>9, <1>10, <1>11, <1>12, <1>13, <1>14

Calls ==
  {"main dict", "str list", "dict list", "inner dict list", "dict in list",
   "dict's str list", "dict in inner list", "inner dict's str list"}

AnyVisit ==
  [call : Calls, path : Seq(ToSet(FieldNames)), at : Seq(Nat),
   columns : Seq(ToSet(FieldNames))]

\* An item that can be walked: the lists that its prototype has are lists.
CanWalk(item, proto) ==
  /\ DOMAIN proto \subseteq ToSet(FieldNames)
  /\ \A f \in DictFields(proto) : Walkable(item, f, Inner(proto, f))

LEMMA VisitIsTyped ==
  ASSUME NEW call \in Calls, NEW path \in Seq(ToSet(FieldNames)), NEW at \in Seq(Nat),
         NEW columns \in Seq(ToSet(FieldNames))
  PROVE  Visit(call, path, at, columns) \in AnyVisit
BY DEF Visit, AnyVisit

LEMMA ShortSequences ==
  ASSUME NEW S
  PROVE  /\ <<>> \in Seq(S)
         /\ \A a \in S : <<a>> \in Seq(S)
         /\ \A a, b \in S : <<a, b>> \in Seq(S)
         /\ \A a, b, c \in S : <<a, b, c>> \in Seq(S)
OBVIOUS

LEMMA VisitsAreTyped ==
  ASSUME NEW item, NEW proto, CanWalk(item, proto), NEW v, IsVisit(item, proto, v)
  PROVE  v \in AnyVisit
<1> DEFINE Names == ToSet(FieldNames)
<1>1. DOMAIN proto \subseteq Names
  BY DEF CanWalk
<1>2. ASSUME NEW p, DOMAIN p \subseteq Names
      PROVE  SimpleColumns(p) \in Seq(Names)
  <2>1. SimpleFields(p) \subseteq Names
    BY <1>2 DEF SimpleFields
  <2>2. SimpleColumns(p) \in Seq(SimpleFields(p))
    BY <1>2, FieldsInOrder
  <2> HIDE DEF Names
  <2> QED BY <2>1, <2>2
<1>3. CASE v = Visit("main dict", <<>>, <<>>, SimpleColumns(proto))
  <2>1. PICK path \in Seq(Names), at \in Seq(Nat) : path = <<>> /\ at = <<>>
    BY ShortSequences
  <2> QED BY <1>1, <1>2, <1>3, <2>1, VisitIsTyped DEF Calls
<1>4. ASSUME NEW f \in StrFields(proto), v = Visit("str list", <<f>>, <<>>, <<>>)
      PROVE  v \in AnyVisit
  <2>1. f \in Names
    BY <1>1 DEF StrFields, ListFields
  <2>2. <<f>> \in Seq(Names) /\ <<>> \in Seq(Names) /\ <<>> \in Seq(Nat)
    BY <2>1, ShortSequences
  <2>3. PICK path \in Seq(Names), at \in Seq(Nat), cols \in Seq(Names) :
          path = <<f>> /\ at = <<>> /\ cols = <<>>
    BY <2>2
  <2> QED BY <1>4, <2>3, VisitIsTyped DEF Calls
<1>5. ASSUME NEW f \in DictFields(proto), IsListVisit(item, f, Inner(proto, f), v)
      PROVE  v \in AnyVisit
  <2>1. PICK p : p = Inner(proto, f)
    OBVIOUS
  <2>2. Walkable(item, f, p) /\ IsListVisit(item, f, p, v) /\ f \in Names
    BY <1>1, <1>5, <2>1 DEF CanWalk, DictFields, ListFields
  <2>3. /\ DOMAIN p \subseteq Names
        /\ SimpleColumns(p) \in Seq(Names)
    BY <1>2, <2>2 DEF Walkable
  <2>4. ASSUME NEW g \in DictFields(p)
        PROVE  /\ g \in Names
               /\ DOMAIN Inner(p, g) \subseteq Names
               /\ SimpleColumns(Inner(p, g)) \in Seq(Names)
    <3>1. g \in Names /\ DOMAIN Inner(p, g) \subseteq Names
      BY <2>2, <2>3 DEF Walkable, DictFields, ListFields
    <3> QED BY <1>2, <3>1
  <2>5. PICK at \in Seq(Nat), cols \in Seq(Names) : at = <<>> /\ cols = <<>>
    BY ShortSequences
  <2>6. CASE v = Visit("dict list", <<f>>, <<>>, SimpleColumns(p))
    <3>1. PICK path \in Seq(Names) : path = <<f>>
      BY <2>2, ShortSequences
    <3> QED BY <2>3, <2>5, <2>6, <3>1, VisitIsTyped DEF Calls
  <2>7. ASSUME NEW g \in DictFields(p),
               v = Visit("inner dict list", <<f, g>>, <<>>, SimpleColumns(Inner(p, g)))
        PROVE  v \in AnyVisit
    <3>1. PICK path \in Seq(Names) : path = <<f, g>>
      BY <2>2, <2>4, ShortSequences
    <3> QED BY <2>4, <2>5, <2>7, <3>1, VisitIsTyped DEF Calls
  <2>8. ASSUME NEW i \in DOMAIN Data(item[f]),
               v = Visit("dict in list", <<f>>, <<i>>, SimpleColumns(p))
        PROVE  v \in AnyVisit
    <3>1. i \in Nat
      BY <2>2 DEF Walkable
    <3>2. PICK path \in Seq(Names), place \in Seq(Nat) : path = <<f>> /\ place = <<i>>
      BY <2>2, <3>1, ShortSequences
    <3> QED BY <2>3, <2>8, <3>2, VisitIsTyped DEF Calls
  <2>9. ASSUME NEW i \in DOMAIN Data(item[f]), NEW s \in StrFields(p),
               v = Visit("dict's str list", <<f, s>>, <<i>>, <<>>)
        PROVE  v \in AnyVisit
    <3>1. i \in Nat /\ s \in Names
      BY <2>2, <2>3 DEF Walkable, StrFields, ListFields
    <3>2. PICK path \in Seq(Names), place \in Seq(Nat) : path = <<f, s>> /\ place = <<i>>
      BY <2>2, <3>1, ShortSequences
    <3> QED BY <2>5, <2>9, <3>2, VisitIsTyped DEF Calls
  <2>10. ASSUME NEW i \in DOMAIN Data(item[f]), NEW g \in DictFields(p),
                IsInnerVisit(DictIn(item, f, i), f, i, g, Inner(p, g), v)
         PROVE  v \in AnyVisit
    <3>1. PICK j \in DOMAIN InnerListOf(DictIn(item, f, i), g) :
            \/ v = Visit("dict in inner list", <<f, g>>, <<i, j>>, SimpleColumns(Inner(p, g)))
            \/ \E s \in StrFields(Inner(p, g)) :
                 v = Visit("inner dict's str list", <<f, g, s>>, <<i, j>>, <<>>)
      BY <2>10 DEF IsInnerVisit
    <3>2. i \in Nat /\ j \in Nat
      <4>1. PICK n \in Nat : DOMAIN Data(item[f]) = 1 .. n
        BY <2>2 DEF Walkable
      <4>2. PICK m \in Nat : DOMAIN InnerListOf(DictIn(item, f, i), g) = 1 .. m
        BY <2>2 DEF Walkable
      <4> QED BY <4>1, <4>2
    <3>3. PICK place \in Seq(Nat), path \in Seq(Names) : place = <<i, j>> /\ path = <<f, g>>
      BY <2>2, <2>4, <3>2, ShortSequences
    <3>4. CASE v = Visit("dict in inner list", <<f, g>>, <<i, j>>, SimpleColumns(Inner(p, g)))
      BY <2>4, <3>3, <3>4, VisitIsTyped DEF Calls
    <3>5. ASSUME NEW s \in StrFields(Inner(p, g)),
                 v = Visit("inner dict's str list", <<f, g, s>>, <<i, j>>, <<>>)
          PROVE  v \in AnyVisit
      <4>1. s \in Names
        BY <2>4 DEF StrFields, ListFields
      <4>2. PICK long \in Seq(Names) : long = <<f, g, s>>
        BY <2>2, <2>4, <4>1, ShortSequences
      <4> QED BY <2>5, <3>3, <3>5, <4>2, VisitIsTyped DEF Calls
    <3> QED BY <3>1, <3>4, <3>5
  <2> QED BY <2>2, <2>6, <2>7, <2>8, <2>9, <2>10 DEF IsListVisit
<1> QED BY <1>3, <1>4, <1>5 DEF IsVisit

LEMMA WalkVisits ==
  ASSUME NEW item, NEW proto, CanWalk(item, proto)
  PROVE  /\ Walk(item, proto) \in Seq(AnyVisit)
         /\ \A v : v \in ToSet(Walk(item, proto)) <=> IsVisit(item, proto, v)
<1> DEFINE T == AnyVisit
           S == StrFields(proto)
           D == DictFields(proto)
           main == Visit("main dict", <<>>, <<>>, SimpleColumns(proto))
           str(f) == Visit("str list", <<f>>, <<>>, <<>>)
           list(f) == DictListVisits(item, f, Inner(proto, f))
           names == StrLists(proto)
           lists == DictLists(proto)
           visit == [f \in S |-> str(f)]
           parts == [f \in D |-> list(f)]
           IsIn(f, v) == IsListVisit(item, f, Inner(proto, f), v)
<1>1. /\ names \in Seq(S) /\ ToSet(names) = S
      /\ lists \in Seq(D) /\ ToSet(lists) = D
  BY FieldsInOrder DEF CanWalk
<1>2. \A v : IsVisit(item, proto, v) <=>
        v = main \/ (\E f \in S : v = str(f)) \/ \E f \in D : IsIn(f, v)
  BY DEF IsVisit
<1>3. \A v : IsVisit(item, proto, v) => v \in T
  BY VisitsAreTyped
<1>4. main \in T /\ (\A f \in S : str(f) \in T)
      /\ \A f \in D : \A v : IsIn(f, v) => v \in T
  <2> HIDE DEF main, S, D, T, str, IsIn
  <2> QED BY <1>2, <1>3
<1>5. ASSUME NEW f \in D
      PROVE  list(f) \in Seq(T) /\ \A v : v \in ToSet(list(f)) <=> IsIn(f, v)
  <2>1. \A v : IsListVisit(item, f, Inner(proto, f), v) => v \in T
    BY <1>4
  <2>2. Walkable(item, f, Inner(proto, f))
    BY DEF CanWalk
  <2> HIDE DEF T
  <2> QED BY <2>1, <2>2, ListVisited
<1>6. /\ EachVisited(names, visit) \in Seq(T)
      /\ \A v : v \in ToSet(EachVisited(names, visit)) <=> \E f \in S : v = str(f)
  <2>1. visit \in [S -> T] /\ \A f \in S : visit[f] = str(f)
    <3> HIDE DEF str, S, T
    <3> QED BY <1>4
  <2> HIDE DEF visit, names, S, str, T
  <2>2. /\ EachVisited(names, visit) \in Seq(T)
        /\ \A v : v \in ToSet(EachVisited(names, visit)) <=> \E f \in S : v = visit[f]
    BY <1>1, <2>1, NamesVisited
  <2> QED BY <2>1, <2>2
<1>7. /\ EachWalked(lists, parts) \in Seq(T)
      /\ \A v : v \in ToSet(EachWalked(lists, parts)) <=> \E f \in D : IsIn(f, v)
  <2>1. parts \in [D -> Seq(T)] /\ \A f \in D : parts[f] = list(f)
    <3> HIDE DEF list, D, T
    <3> QED BY <1>5
  <2> HIDE DEF parts, lists, D, list, IsIn, T
  <2>2. /\ EachWalked(lists, parts) \in Seq(T)
        /\ \A v : v \in ToSet(EachWalked(lists, parts)) <=> \E f \in D : v \in ToSet(parts[f])
    BY <1>1, <2>1, NamesWalked
  <2> QED BY <1>5, <2>1, <2>2
<1>8. /\ EachVisited(names, visit) = FlattenSeq([k \in DOMAIN names |-> <<str(names[k])>>])
      /\ EachWalked(lists, parts) = FlattenSeq([k \in DOMAIN lists |-> list(lists[k])])
  <2>1. \A k \in DOMAIN names : names[k] \in S
    <3> HIDE DEF names, S
    <3> QED BY <1>1
  <2>2. \A k \in DOMAIN lists : lists[k] \in D
    <3> HIDE DEF lists, D
    <3> QED BY <1>1
  <2> HIDE DEF names, lists, S, D, str, list
  <2>3. [k \in DOMAIN names |-> <<visit[names[k]]>>] = [k \in DOMAIN names |-> <<str(names[k])>>]
    BY <2>1
  <2>4. [k \in DOMAIN lists |-> parts[lists[k]]] = [k \in DOMAIN lists |-> list(lists[k])]
    BY <2>2
  <2> QED BY <2>3, <2>4 DEF EachVisited, EachWalked
<1>9. Walk(item, proto)
        = <<main>> \o EachVisited(names, visit) \o EachWalked(lists, parts)
  <2>1. Walk(item, proto)
          = <<main>> \o FlattenSeq([k \in DOMAIN names |-> <<str(names[k])>>])
              \o FlattenSeq([k \in DOMAIN lists |-> list(lists[k])])
    BY DEF Walk, ForEach
  <2> HIDE DEF main, lists, names, str, list, visit, parts
  <2> QED BY <1>8, <2>1
<1>10. PICK mid : mid = EachVisited(names, visit)
  OBVIOUS
<1>11. PICK rest : rest = EachWalked(lists, parts)
  OBVIOUS
<1>12. PICK most : most = <<main>> \o mid
  OBVIOUS
<1>15. T = AnyVisit
  OBVIOUS
<1> HIDE DEF main, lists, names, visit, parts, D, S, T, str, list, IsIn
<1>13. most \in Seq(T) /\ \A v : v \in ToSet(most) <=> v = main \/ v \in ToSet(mid)
  BY <1>4, <1>6, <1>10, <1>12, Prefixed
<1>14. most \o rest \in Seq(T) /\ ToSet(most \o rest) = ToSet(most) \cup ToSet(rest)
  BY <1>7, <1>11, <1>13, RangeOfJoined
<1> QED BY <1>15, <1>2, <1>6, <1>7, <1>9, <1>10, <1>11, <1>12, <1>13, <1>14

-----------------------------------------------------------------------------
(* The rows of an item.                                                    *)

Row(table, d)          == <<table, d>>
ItemTable(main)        == TableOf(main, <<>>)
ListTable(main, f)     == TableOf(main, <<f>>)
InnerTable(main, f, g) == TableOf(main, <<f, g>>)

Own(id)      == Field("id", Str(id))
ListPos(k)   == Field("list_pos", Num(k - 1))
DictPos(i)   == Field("dict_list_pos", Num(i - 1))
ColumnsOf(proto, d) == [c \in SimpleFields(proto) |-> d[c]]

MainRow(proto, id, d)        == Merged(ColumnsOf(proto, d), Own(id))
StrRow(id, f, d, k)          == Merged(Field(f, Data(d[f])[k]), Merged(ListPos(k), Own(id)))
DictRow(proto, id, d, i)     == Merged(ColumnsOf(proto, d), Merged(ListPos(i), Own(id)))
DictStrRow(id, s, d, i, k)   ==
  Merged(Field(s, Data(d[s])[k]), Merged(ListPos(k), Merged(DictPos(i), Own(id))))
InnerRow(proto, id, d, i, j) ==
  Merged(ColumnsOf(proto, d), Merged(DictPos(i), Merged(ListPos(j), Own(id))))

\* The rows of the i-th dict of list f, and of what is in it.
IsDictRow(main, f, proto, id, d, i, r) ==
  \/ r = Row(ListTable(main, f), DictRow(proto, id, d, i))
  \/ \E s \in StrFields(proto) : \E k \in DOMAIN Data(d[s]) :
       r = Row(InnerTable(main, f, s), DictStrRow(id, s, d, i, k))
  \/ \E g \in DictFields(proto) : \E j \in DOMAIN InnerListOf(d, g) :
       r = Row(InnerTable(main, f, g), InnerRow(Inner(proto, g), id, DictIn(d, g, j), i, j))

IsItemRow(main, proto, id, item, r) ==
  \/ r = Row(ItemTable(main), MainRow(proto, id, item))
  \/ \E f \in StrFields(proto) : \E k \in DOMAIN Data(item[f]) :
       r = Row(ListTable(main, f), StrRow(id, f, item, k))
  \/ \E f \in DictFields(proto) : \E i \in DOMAIN Data(item[f]) :
       IsDictRow(main, f, Inner(proto, f), id, DictIn(item, f, i), i, r)

\* The visits, by name.
MainVisit(proto)               == Visit("main dict", <<>>, <<>>, SimpleColumns(proto))
StrListVisit(f)                == Visit("str list", <<f>>, <<>>, <<>>)
DictListVisit(f, proto)        == Visit("dict list", <<f>>, <<>>, SimpleColumns(proto))
InnerListVisit(f, g, proto)    ==
  Visit("inner dict list", <<f, g>>, <<>>, SimpleColumns(proto))
DictVisit(f, i, proto)         == Visit("dict in list", <<f>>, <<i>>, SimpleColumns(proto))
DictStrVisit(f, s, i)          == Visit("dict's str list", <<f, s>>, <<i>>, <<>>)
InnerVisit(f, g, i, j, proto)  ==
  Visit("dict in inner list", <<f, g>>, <<i, j>>, SimpleColumns(proto))
InnerStrVisit(f, g, s, i, j)   ==
  Visit("inner dict's str list", <<f, g, s>>, <<i, j>>, <<>>)

LEMMA SimpleColumnsOf ==
  ASSUME NEW proto, DOMAIN proto \subseteq ToSet(FieldNames), NEW d
  PROVE  [c \in ToSet(SimpleColumns(proto)) |-> d[c]] = ColumnsOf(proto, d)
BY FieldsInOrder DEF ColumnsOf

LEMMA Parts ==
  ASSUME NEW item, NEW v
  PROVE  /\ Len(v.at) = 0 => PartOf(item, v) = item
         /\ Len(v.at) = 1 => PartOf(item, v) = DictIn(item, v.path[1], v.at[1])
         /\ Len(v.at) = 2 =>
              PartOf(item, v) = DictIn(DictIn(item, v.path[1], v.at[1]), v.path[2], v.at[2])
BY DEF PartOf

LEMMA RowsOfMain ==
  ASSUME NEW main, NEW id, NEW item, NEW r,
         NEW proto, DOMAIN proto \subseteq ToSet(FieldNames)
  PROVE  r \in RowsAt(main, id, item, MainVisit(proto))
           <=> r = Row(ItemTable(main), MainRow(proto, id, item))
<1> DEFINE v == MainVisit(proto)
<1>1. /\ v.call = "main dict" /\ v.path = <<>> /\ v.columns = SimpleColumns(proto)
      /\ v.at = <<>> /\ Len(v.at) = 0
  BY DEF Visit, MainVisit
<1>2. PartOf(item, v) = item
  <2> HIDE DEF v
  <2> QED BY <1>1, Parts
<1>3. [c \in ToSet(v.columns) |-> PartOf(item, v)[c]] = ColumnsOf(proto, item)
  <2> HIDE DEF v
  <2> QED BY <1>1, <1>2, SimpleColumnsOf
<1>4. RowsAt(main, id, item, v)
        = {<<TableOf(main, v.path),
             Merged([c \in ToSet(v.columns) |-> PartOf(item, v)[c]], Field("id", Str(id)))>>}
  <2> HIDE DEF v
  <2> QED BY <1>1 DEF RowsAt
<1> HIDE DEF v
<1> QED BY <1>1, <1>3, <1>4 DEF MainRow, Own, v, Row, ItemTable

LEMMA RowsOfStrList ==
  ASSUME NEW main, NEW id, NEW item, NEW r,
         NEW f
  PROVE  r \in RowsAt(main, id, item, StrListVisit(f)) <=>
           \E k \in DOMAIN Data(item[f]) : r = Row(ListTable(main, f), StrRow(id, f, item, k))
<1> DEFINE v == StrListVisit(f)
<1>1. /\ v.call = "str list" /\ v.path = <<f>> /\ v.path[1] = f /\ Len(v.at) = 0
  BY DEF Visit, StrListVisit
<1>2. PartOf(item, v) = item
  <2> HIDE DEF v
  <2> QED BY <1>1, Parts
<1>3. RowsAt(main, id, item, v)
        = StrRows(TableOf(main, v.path), Field("id", Str(id)), v.path[1],
                  Data(PartOf(item, v)[v.path[1]]))
  <2> HIDE DEF v
  <2> QED BY <1>1 DEF RowsAt
<1>4. RowsAt(main, id, item, v)
        = StrRows(TableOf(main, <<f>>), Own(id), f, Data(item[f]))
  <2> HIDE DEF v
  <2> QED BY <1>1, <1>2, <1>3 DEF Own
<1> HIDE DEF v
<1> QED BY <1>4 DEF StrRows, StrRow, ListPos, v, Row, ListTable

LEMMA NoRowsOfList ==
  ASSUME NEW main, NEW id, NEW item, NEW r,
         NEW f, NEW proto
  PROVE  r \notin RowsAt(main, id, item, DictListVisit(f, proto))
BY DEF RowsAt, Visit, DictListVisit

LEMMA NoRowsOfInnerList ==
  ASSUME NEW main, NEW id, NEW item, NEW r,
         NEW f, NEW g, NEW proto
  PROVE  r \notin RowsAt(main, id, item, InnerListVisit(f, g, proto))
BY DEF RowsAt, Visit, InnerListVisit

LEMMA RowsOfDict ==
  ASSUME NEW main, NEW id, NEW item, NEW r, NEW f, NEW i, NEW d, d = DictIn(item, f, i),
         NEW proto, DOMAIN proto \subseteq ToSet(FieldNames)
  PROVE  r \in RowsAt(main, id, item, DictVisit(f, i, proto))
           <=> r = Row(ListTable(main, f), DictRow(proto, id, d, i))
<1> DEFINE v == DictVisit(f, i, proto)
<1>1. /\ v.call = "dict in list" /\ v.path = <<f>> /\ v.columns = SimpleColumns(proto)
      /\ v.at = <<i>> /\ Len(v.at) = 1 /\ v.path[1] = f /\ v.at[1] = i
  BY DEF Visit, DictVisit
<1>2. PartOf(item, v) = d
  <2> HIDE DEF v
  <2> QED BY <1>1, Parts
<1>3. [c \in ToSet(v.columns) |-> PartOf(item, v)[c]] = ColumnsOf(proto, d)
  <2> HIDE DEF v
  <2> QED BY <1>1, <1>2, SimpleColumnsOf
<1>4. RowsAt(main, id, item, v)
        = {<<TableOf(main, v.path),
             Merged([c \in ToSet(v.columns) |-> PartOf(item, v)[c]],
                    Merged(Field("list_pos", Num(v.at[1] - 1)), Field("id", Str(id))))>>}
  <2> HIDE DEF v
  <2> QED BY <1>1 DEF RowsAt
<1> HIDE DEF v
<1> QED BY <1>1, <1>3, <1>4 DEF DictRow, ListPos, Own, v, Row, ListTable

LEMMA RowsOfDictStrs ==
  ASSUME NEW main, NEW id, NEW item, NEW r, NEW f, NEW i, NEW d, d = DictIn(item, f, i),
         NEW s
  PROVE  r \in RowsAt(main, id, item, DictStrVisit(f, s, i)) <=>
           \E k \in DOMAIN Data(d[s]) : r = Row(InnerTable(main, f, s), DictStrRow(id, s, d, i, k))
<1> DEFINE v == DictStrVisit(f, s, i)
<1>1. /\ v.call = "dict's str list" /\ v.path = <<f, s>> /\ v.path[1] = f /\ v.path[2] = s
      /\ Len(v.at) = 1 /\ v.at[1] = i
  BY DEF Visit, DictStrVisit
<1>2. PartOf(item, v) = d
  <2> HIDE DEF v
  <2> QED BY <1>1, Parts
<1>3. RowsAt(main, id, item, v)
        = StrRows(TableOf(main, v.path),
                  Merged(Field("dict_list_pos", Num(v.at[1] - 1)), Field("id", Str(id))),
                  v.path[2], Data(PartOf(item, v)[v.path[2]]))
  <2> HIDE DEF v
  <2> QED BY <1>1 DEF RowsAt
<1>4. RowsAt(main, id, item, v)
        = StrRows(TableOf(main, <<f, s>>), Merged(DictPos(i), Own(id)), s, Data(d[s]))
  <2> HIDE DEF v
  <2> QED BY <1>1, <1>2, <1>3 DEF Own, DictPos
<1> HIDE DEF v
<1> QED BY <1>4 DEF StrRows, DictStrRow, ListPos, v, Row, InnerTable

LEMMA RowsOfInner ==
  ASSUME NEW main, NEW id, NEW item, NEW r, NEW f, NEW i, NEW d, d = DictIn(item, f, i),
         NEW proto, NEW g, NEW j, DOMAIN proto \subseteq ToSet(FieldNames)
  PROVE  r \in RowsAt(main, id, item, InnerVisit(f, g, i, j, proto))
           <=> r = Row(InnerTable(main, f, g), InnerRow(proto, id, DictIn(d, g, j), i, j))
<1> DEFINE v == InnerVisit(f, g, i, j, proto)
<1>1. /\ v.call = "dict in inner list" /\ v.path = <<f, g>> /\ v.columns = SimpleColumns(proto)
      /\ Len(v.at) = 2 /\ v.path[1] = f /\ v.path[2] = g /\ v.at[1] = i /\ v.at[2] = j
  BY DEF Visit, InnerVisit
<1>2. PartOf(item, v) = DictIn(d, g, j)
  <2> HIDE DEF v
  <2> QED BY <1>1, Parts
<1>3. [c \in ToSet(v.columns) |-> PartOf(item, v)[c]] = ColumnsOf(proto, DictIn(d, g, j))
  <2>1. PICK e : e = DictIn(d, g, j)
    OBVIOUS
  <2>2. [c \in ToSet(SimpleColumns(proto)) |-> e[c]] = ColumnsOf(proto, e)
    BY SimpleColumnsOf
  <2> HIDE DEF v
  <2> QED BY <1>1, <1>2, <2>1, <2>2
<1>4. RowsAt(main, id, item, v)
        = {<<TableOf(main, v.path),
             Merged([c \in ToSet(v.columns) |-> PartOf(item, v)[c]],
                    Merged(Field("dict_list_pos", Num(v.at[1] - 1)),
                           Merged(Field("list_pos", Num(v.at[2] - 1)), Field("id", Str(id)))))>>}
  <2> HIDE DEF v
  <2> QED BY <1>1 DEF RowsAt
<1> HIDE DEF v
<1> QED BY <1>1, <1>3, <1>4 DEF InnerRow, DictPos, ListPos, Own, v, Row, InnerTable

LEMMA NoRowsOfInnerStrs ==
  ASSUME NEW main, NEW id, NEW item, NEW r, NEW f, NEW i, NEW d, d = DictIn(item, f, i),
         NEW g, NEW j, NEW s
  PROVE  r \notin RowsAt(main, id, item, InnerStrVisit(f, g, s, i, j))
BY DEF RowsAt, Visit, InnerStrVisit

LEMMA InnerRows ==
  ASSUME NEW main, NEW proto, NEW id, NEW item, NEW r, NEW f, NEW i,
         NEW d, d = DictIn(item, f, i), NEW g, DOMAIN proto \subseteq ToSet(FieldNames)
  PROVE  (\E v : IsInnerVisit(d, f, i, g, proto, v) /\ r \in RowsAt(main, id, item, v)) <=>
           \E j \in DOMAIN InnerListOf(d, g) :
             r = Row(InnerTable(main, f, g), InnerRow(proto, id, DictIn(d, g, j), i, j))
<1> DEFINE In(v) == r \in RowsAt(main, id, item, v)
           Is(j) == r = Row(InnerTable(main, f, g), InnerRow(proto, id, DictIn(d, g, j), i, j))
<1>1. \A j : In(InnerVisit(f, g, i, j, proto)) <=> Is(j)
  BY RowsOfInner
<1>2. \A j, s : ~In(InnerStrVisit(f, g, s, i, j))
  BY NoRowsOfInnerStrs
<1>3. \A v : IsInnerVisit(d, f, i, g, proto, v) <=>
               \E j \in DOMAIN InnerListOf(d, g) :
                 \/ v = InnerVisit(f, g, i, j, proto)
                 \/ \E s \in StrFields(proto) : v = InnerStrVisit(f, g, s, i, j)
  BY DEF IsInnerVisit, InnerVisit, InnerStrVisit
<1> HIDE DEF In, Is
<1>4. (\E v : IsInnerVisit(d, f, i, g, proto, v) /\ In(v)) <=>
        \E j \in DOMAIN InnerListOf(d, g) : Is(j)
  BY <1>1, <1>2, <1>3
<1> QED BY <1>4 DEF In, Is

LEMMA DictRows ==
  ASSUME NEW main, NEW proto, NEW id, NEW item, NEW r, NEW f, Walkable(item, f, proto)
  PROVE  (\E v : IsListVisit(item, f, proto, v) /\ r \in RowsAt(main, id, item, v)) <=>
           \E i \in DOMAIN Data(item[f]) :
             IsDictRow(main, f, proto, id, DictIn(item, f, i), i, r)
<1> DEFINE In(v) == r \in RowsAt(main, id, item, v)
           IsIn(i, g, v) == IsInnerVisit(DictIn(item, f, i), f, i, g, Inner(proto, g), v)
           Is(i) == IsDictRow(main, f, proto, id, DictIn(item, f, i), i, r)
<1>1. DOMAIN proto \subseteq ToSet(FieldNames)
      /\ \A g \in DictFields(proto) : DOMAIN Inner(proto, g) \subseteq ToSet(FieldNames)
  BY DEF Walkable
<1>2. ~In(DictListVisit(f, proto)) /\ \A g : ~In(InnerListVisit(f, g, Inner(proto, g)))
  BY NoRowsOfList, NoRowsOfInnerList
<1>3. \A v : IsListVisit(item, f, proto, v) <=>
        \/ v = DictListVisit(f, proto)
        \/ \E g \in DictFields(proto) : v = InnerListVisit(f, g, Inner(proto, g))
        \/ \E i \in DOMAIN Data(item[f]) :
             \/ v = DictVisit(f, i, proto)
             \/ \E s \in StrFields(proto) : v = DictStrVisit(f, s, i)
             \/ \E g \in DictFields(proto) : IsIn(i, g, v)
  BY DEF IsListVisit, DictListVisit, InnerListVisit, DictVisit, DictStrVisit
<1>4. ASSUME NEW i \in DOMAIN Data(item[f])
      PROVE  Is(i) <=> \/ In(DictVisit(f, i, proto))
                       \/ \E s \in StrFields(proto) : In(DictStrVisit(f, s, i))
                       \/ \E g \in DictFields(proto) : \E v : IsIn(i, g, v) /\ In(v)
  <2>1. PICK d : d = DictIn(item, f, i)
    OBVIOUS
  <2>2. In(DictVisit(f, i, proto)) <=> r = Row(ListTable(main, f), DictRow(proto, id, d, i))
    BY <1>1, <2>1, RowsOfDict
  <2>3. \A s : In(DictStrVisit(f, s, i)) <=>
           \E k \in DOMAIN Data(d[s]) : r = Row(InnerTable(main, f, s), DictStrRow(id, s, d, i, k))
    BY <2>1, RowsOfDictStrs
  <2>4. \A g \in DictFields(proto) : (\E v : IsIn(i, g, v) /\ In(v)) <=>
           \E j \in DOMAIN InnerListOf(d, g) :
             r = Row(InnerTable(main, f, g), InnerRow(Inner(proto, g), id, DictIn(d, g, j), i, j))
    BY <1>1, <2>1, InnerRows
  <2> HIDE DEF In, IsIn
  <2> QED BY <2>1, <2>2, <2>3, <2>4 DEF IsDictRow
<1> HIDE DEF In, IsIn, Is
<1>5. (\E v : IsListVisit(item, f, proto, v) /\ In(v)) <=> \E i \in DOMAIN Data(item[f]) : Is(i)
  BY <1>2, <1>3, <1>4
<1> QED BY <1>5 DEF In, Is

LEMMA WalkerRows ==
  ASSUME NEW main, NEW proto, NEW id, NEW item, CanWalk(item, proto)
  PROVE  \A r : r \in WriteWalker(main, proto, id, item) <=> IsItemRow(main, proto, id, item, r)
<1> SUFFICES ASSUME NEW r
             PROVE  r \in WriteWalker(main, proto, id, item)
                      <=> IsItemRow(main, proto, id, item, r)
  OBVIOUS
<1> DEFINE In(v) == r \in RowsAt(main, id, item, v)
           IsIn(f, v) == IsListVisit(item, f, Inner(proto, f), v)
<1>1. r \in WriteWalker(main, proto, id, item) <=> \E v : IsVisit(item, proto, v) /\ In(v)
  <2>1. r \in WriteWalker(main, proto, id, item) <=> \E v \in ToSet(Walk(item, proto)) : In(v)
    BY DEF WriteWalker
  <2> HIDE DEF In
  <2> QED BY <2>1, WalkVisits
<1>2. \A v : IsVisit(item, proto, v) <=>
        \/ v = MainVisit(proto)
        \/ \E f \in StrFields(proto) : v = StrListVisit(f)
        \/ \E f \in DictFields(proto) : IsIn(f, v)
  BY DEF IsVisit, MainVisit, StrListVisit
<1>3. In(MainVisit(proto)) <=> r = Row(ItemTable(main), MainRow(proto, id, item))
  BY RowsOfMain DEF CanWalk
<1>4. \A f : In(StrListVisit(f)) <=>
               \E k \in DOMAIN Data(item[f]) : r = Row(ListTable(main, f), StrRow(id, f, item, k))
  BY RowsOfStrList
<1>5. \A f \in DictFields(proto) : (\E v : IsIn(f, v) /\ In(v)) <=>
        \E i \in DOMAIN Data(item[f]) :
          IsDictRow(main, f, Inner(proto, f), id, DictIn(item, f, i), i, r)
  BY DictRows DEF CanWalk
<1> HIDE DEF In, IsIn
<1> QED BY <1>1, <1>2, <1>3, <1>4, <1>5 DEF IsItemRow

-----------------------------------------------------------------------------
(* Prototypes, one layer at a time.                                        *)

Layer(proto) ==
  /\ IsFunction(proto)
  /\ DOMAIN proto \subseteq ToSet(FieldNames) \ PositionNames
  /\ \A f \in DOMAIN proto :
       f \in SimpleFields(proto) \/ f \in StrFields(proto) \/ f \in DictFields(proto)
  /\ \A f \in StrFields(proto) : f # "id" /\ proto[f] = List(<<Str("")>>)
  /\ \A f \in DictFields(proto) :
       /\ f # "id" /\ proto[f] = List(<<Dict(Inner(proto, f))>>)
       /\ "id" \notin DOMAIN Inner(proto, f)

InnermostLayer(proto) == Layer(proto) /\ DictFields(proto) = {}
InnerLayer(proto) ==
  Layer(proto) /\ \A f \in DictFields(proto) : InnermostLayer(Inner(proto, f))
Layers(proto) ==
  Layer(proto) /\ \A f \in DictFields(proto) : InnerLayer(Inner(proto, f))

\* The prototypes of bodies, which have no blobs.
Plain(proto) == \A f \in DOMAIN proto : Kind(proto[f]) # "blob"
InnerPlain(proto) ==
  Plain(proto) /\ \A f \in DictFields(proto) : Plain(Inner(proto, f))
AllPlain(proto) ==
  Plain(proto) /\ \A f \in DictFields(proto) : InnerPlain(Inner(proto, f))

LEMMA FieldsAreDisjoint ==
  ASSUME NEW proto, NEW f, f \in StrFields(proto) \/ f \in DictFields(proto)
  PROVE  /\ f \in DOMAIN proto /\ f \notin SimpleFields(proto)
         /\ ~(f \in StrFields(proto) /\ f \in DictFields(proto))
BY DEF StrFields, DictFields, ListFields, SimpleFields, Simple

LEMMA KindsOfPrototype ==
  ASSUME NEW proto, NEW f \in DOMAIN proto, NEW p, p = proto[f]
  PROVE  /\ f \in SimpleFields(proto) <=> Kind(p) \in Simple
         /\ f \in StrFields(proto) <=> Kind(p) = "list" /\ Kind(Data(p)[1]) = "str"
         /\ f \in DictFields(proto) <=> Kind(p) = "list" /\ Kind(Data(p)[1]) = "dict"
BY DEF StrFields, DictFields, ListFields, SimpleFields

LEMMA Tagged ==
  /\ \A s : Kind(Str(s)) = "str" /\ Data(Str(s)) = s
  /\ \A n : Kind(Num(n)) = "num" /\ Data(Num(n)) = n
  /\ \A s : Kind(List(s)) = "list" /\ Data(List(s)) = s
  /\ \A d : Kind(Dict(d)) = "dict" /\ Data(Dict(d)) = d
  /\ Kind(Null) = "null"
BY DEF Kind, Data, Str, Num, List, Dict, Null

LEMMA OneElement ==
  ASSUME NEW p, NEW e, p = List(<<e>>)
  PROVE  /\ Kind(p) = "list" /\ Data(p)[1] = e /\ p = List(<<Data(p)[1]>>)
         /\ DOMAIN Data(p) = 1 .. 1
BY DEF Kind, Data, List

\* A field of a prototype, as PrototypeIn has it.
FieldOf(proto, f) ==
  \/ Kind(proto[f]) \in Simple
  \/ /\ proto[f] = List(<<Data(proto[f])[1]>>) /\ f # "id"
     /\ \/ Data(proto[f])[1] = Str("")
        \/ /\ Data(proto[f])[1] = Dict(Inner(proto, f))
           /\ "id" \notin DOMAIN Inner(proto, f)

LEMMA FieldsMakeLayer ==
  ASSUME NEW proto, IsFunction(proto),
         DOMAIN proto \subseteq ToSet(FieldNames) \ PositionNames,
         \A f \in DOMAIN proto : FieldOf(proto, f)
  PROVE  Layer(proto)
<1>1. ASSUME NEW f \in DOMAIN proto
      PROVE  /\ f \in SimpleFields(proto) \/ f \in StrFields(proto) \/ f \in DictFields(proto)
             /\ f \in StrFields(proto) => f # "id" /\ proto[f] = List(<<Str("")>>)
             /\ f \in DictFields(proto) =>
                  /\ f # "id" /\ proto[f] = List(<<Dict(Inner(proto, f))>>)
                  /\ "id" \notin DOMAIN Inner(proto, f)
  <2>1. PICK p : p = proto[f]
    OBVIOUS
  <2>2. PICK e : e = Data(p)[1]
    OBVIOUS
  <2>3. CASE Kind(p) \in Simple
    <3>1. Kind(p) # "list"
      BY <2>3 DEF Simple
    <3> QED BY <2>1, <2>3, <3>1, KindsOfPrototype
  <2>4. CASE p = List(<<e>>) /\ f # "id" /\ e = Str("")
    <3>1. Kind(p) = "list" /\ Kind(e) = "str"
      BY <2>4, OneElement, Tagged
    <3> QED BY <2>1, <2>2, <2>4, <3>1, KindsOfPrototype
  <2>5. CASE p = List(<<e>>) /\ f # "id" /\ e = Dict(Inner(proto, f))
             /\ "id" \notin DOMAIN Inner(proto, f)
    <3>1. Kind(p) = "list" /\ Kind(e) = "dict"
      BY <2>5, OneElement, Tagged
    <3> QED BY <2>1, <2>2, <2>5, <3>1, KindsOfPrototype
  <2> QED BY <2>1, <2>2, <2>3, <2>4, <2>5 DEF FieldOf
<1>2. StrFields(proto) \subseteq DOMAIN proto /\ DictFields(proto) \subseteq DOMAIN proto
  BY DEF StrFields, DictFields, ListFields
<1> QED BY <1>1, <1>2 DEF Layer

LEMMA InnermostPrototypes ==
  ASSUME NEW proto, InnermostPrototype(proto)
  PROVE  InnermostLayer(proto) /\ Plain(proto)
<1>1. /\ IsFunction(proto) /\ DOMAIN proto \subseteq ToSet(FieldNames) \ PositionNames
      /\ \A f \in DOMAIN proto :
           FieldOf(proto, f) /\ (Kind(proto[f]) \notin Simple => Data(proto[f])[1] = Str(""))
  BY DEF InnermostPrototype, PrototypeIn, FieldOf, JsonSimple
<1>2. Layer(proto)
  BY <1>1, FieldsMakeLayer
<1>3. ASSUME NEW f \in DictFields(proto) PROVE FALSE
  <2>1. Kind(proto[f]) = "list" /\ Kind(Data(proto[f])[1]) = "dict" /\ f \in DOMAIN proto
    BY DEF DictFields, ListFields
  <2>2. Kind(proto[f]) \notin Simple
    BY <2>1 DEF Simple
  <2> QED BY <1>1, <2>1, <2>2, Tagged
<1>4. Plain(proto)
  <2>1. ASSUME NEW f \in DOMAIN proto
        PROVE  Kind(proto[f]) \in JsonSimple \/ proto[f] = List(<<Data(proto[f])[1]>>)
    BY DEF InnermostPrototype, PrototypeIn
  <2>2. JsonSimple = {"str", "num", "bool"}
    BY DEF JsonSimple, Simple
  <2>3. \A e : Kind(List(e)) = "list"
    BY Tagged
  <2> QED BY <2>1, <2>2, <2>3 DEF Plain
<1> QED BY <1>2, <1>3, <1>4 DEF InnermostLayer

LEMMA InnerPrototypes ==
  ASSUME NEW proto, InnerPrototype(proto)
  PROVE  InnerLayer(proto) /\ InnerPlain(proto)
<1>1. /\ IsFunction(proto) /\ DOMAIN proto \subseteq ToSet(FieldNames) \ PositionNames
      /\ \A f \in DOMAIN proto :
           /\ FieldOf(proto, f)
           /\ Kind(proto[f]) \notin Simple /\ Data(proto[f])[1] # Str("")
                => InnermostPrototype(Inner(proto, f))
  BY DEF InnerPrototype, PrototypeIn, FieldOf, JsonSimple
<1>2. Layer(proto)
  BY <1>1, FieldsMakeLayer
<1>3. ASSUME NEW f \in DictFields(proto)
      PROVE  InnermostLayer(Inner(proto, f)) /\ Plain(Inner(proto, f))
  <2>1. Kind(proto[f]) = "list" /\ Kind(Data(proto[f])[1]) = "dict" /\ f \in DOMAIN proto
    BY DEF DictFields, ListFields
  <2>2. Kind(proto[f]) \notin Simple
    BY <2>1 DEF Simple
  <2>3. Data(proto[f])[1] # Str("")
    BY <2>1, Tagged
  <2> QED BY <1>1, <2>1, <2>2, <2>3, InnermostPrototypes
<1>4. Plain(proto)
  <2>1. ASSUME NEW f \in DOMAIN proto
        PROVE  Kind(proto[f]) \in JsonSimple \/ proto[f] = List(<<Data(proto[f])[1]>>)
    BY DEF InnerPrototype, PrototypeIn
  <2>2. JsonSimple = {"str", "num", "bool"}
    BY DEF JsonSimple, Simple
  <2>3. \A e : Kind(List(e)) = "list"
    BY Tagged
  <2> QED BY <2>1, <2>2, <2>3 DEF Plain
<1> QED BY <1>2, <1>3, <1>4 DEF InnerLayer, InnerPlain

LEMMA Prototypes ==
  ASSUME NEW proto, Prototype(proto)
  PROVE  Layers(proto) /\ AllPlain(proto)
<1>1. /\ IsFunction(proto) /\ DOMAIN proto \subseteq ToSet(FieldNames) \ PositionNames
      /\ \A f \in DOMAIN proto :
           /\ FieldOf(proto, f)
           /\ Kind(proto[f]) \notin Simple /\ Data(proto[f])[1] # Str("")
                => InnerPrototype(Inner(proto, f))
  BY DEF Prototype, PrototypeIn, FieldOf, JsonSimple
<1>2. Layer(proto)
  BY <1>1, FieldsMakeLayer
<1>3. ASSUME NEW f \in DictFields(proto)
      PROVE  InnerLayer(Inner(proto, f)) /\ InnerPlain(Inner(proto, f))
  <2>1. Kind(proto[f]) = "list" /\ Kind(Data(proto[f])[1]) = "dict" /\ f \in DOMAIN proto
    BY DEF DictFields, ListFields
  <2>2. Kind(proto[f]) \notin Simple
    BY <2>1 DEF Simple
  <2>3. Data(proto[f])[1] # Str("")
    BY <2>1, Tagged
  <2> QED BY <1>1, <2>1, <2>2, <2>3, InnerPrototypes
<1>4. Plain(proto)
  <2>1. ASSUME NEW f \in DOMAIN proto
        PROVE  Kind(proto[f]) \in JsonSimple \/ proto[f] = List(<<Data(proto[f])[1]>>)
    BY DEF Prototype, PrototypeIn
  <2>2. JsonSimple = {"str", "num", "bool"}
    BY DEF JsonSimple, Simple
  <2>3. \A e : Kind(List(e)) = "list"
    BY Tagged
  <2> QED BY <2>1, <2>2, <2>3 DEF Plain
<1> QED BY <1>2, <1>3, <1>4 DEF Layers, AllPlain

LEMMA BlobPrototypes ==
  ASSUME NEW proto, BlobPrototype(proto)
  PROVE  Layers(proto)
<1>1. /\ IsFunction(proto) /\ DOMAIN proto \subseteq ToSet(FieldNames) \ PositionNames
      /\ \A f \in DOMAIN proto :
           FieldOf(proto, f) /\ (Kind(proto[f]) \notin Simple => Data(proto[f])[1] = Str(""))
  BY DEF BlobPrototype, PrototypeIn, FieldOf
<1>2. Layer(proto)
  BY <1>1, FieldsMakeLayer
<1>3. ASSUME NEW f \in DictFields(proto) PROVE FALSE
  <2>1. Kind(proto[f]) = "list" /\ Kind(Data(proto[f])[1]) = "dict" /\ f \in DOMAIN proto
    BY DEF DictFields, ListFields
  <2>2. Kind(proto[f]) \notin Simple
    BY <2>1 DEF Simple
  <2> QED BY <1>1, <2>1, <2>2, Tagged
<1> QED BY <1>2, <1>3 DEF Layers

-----------------------------------------------------------------------------
(* Items that have what their prototype says.                              *)

\* A list, whose elements are one after the other.
Listed(v) ==
  /\ v = List(Data(v))
  /\ \E n \in Nat : DOMAIN Data(v) = 1 .. n
  /\ Data(v) = [k \in DOMAIN Data(v) |-> Data(v)[k]]

Shaped(d, proto) ==
  /\ IsFunction(d) /\ DOMAIN d = DOMAIN proto
  /\ \A f \in StrFields(proto) : Listed(d[f])
  /\ \A f \in DictFields(proto) :
       /\ Listed(d[f])
       /\ \A k \in DOMAIN Data(d[f]) : Data(d[f])[k] = Dict(DictIn(d, f, k))

FormedInner(d, proto) ==
  /\ Shaped(d, proto)
  /\ \A f \in DictFields(proto) : \A k \in DOMAIN Data(d[f]) :
       Shaped(DictIn(d, f, k), Inner(proto, f))

Formed(d, proto) ==
  /\ Shaped(d, proto)
  /\ \A f \in DictFields(proto) : \A k \in DOMAIN Data(d[f]) :
       FormedInner(DictIn(d, f, k), Inner(proto, f))

LEMMA OneIsListed ==
  ASSUME NEW p, NEW e, p = List(<<e>>)
  PROVE  /\ Listed(p) /\ DOMAIN Data(p) = 1 .. 1
         /\ \A k \in DOMAIN Data(p) : Data(p)[k] = e
<1>1. Data(p) = <<e>> /\ Kind(p) = "list"
  BY DEF Data, List, Kind
<1>2. DOMAIN Data(p) = 1 .. 1 /\ 1 \in Nat /\ \A k \in 1 .. 1 : Data(p)[k] = e
  BY <1>1
<1>3. Data(p) = [k \in DOMAIN Data(p) |-> Data(p)[k]]
  BY <1>1
<1>4. p = List(Data(p))
  BY <1>1
<1> QED BY <1>2, <1>3, <1>4 DEF Listed

LEMMA LayerIsShaped ==
  ASSUME NEW proto, Layer(proto)
  PROVE  /\ Shaped(proto, proto)
         /\ \A f \in DictFields(proto) : \A k \in DOMAIN Data(proto[f]) :
              DictIn(proto, f, k) = Inner(proto, f)
<1>1. ASSUME NEW f \in StrFields(proto) PROVE Listed(proto[f])
  BY OneIsListed DEF Layer
<1>2. ASSUME NEW f \in DictFields(proto)
      PROVE  /\ Listed(proto[f])
             /\ \A k \in DOMAIN Data(proto[f]) :
                  /\ Data(proto[f])[k] = Dict(Inner(proto, f))
                  /\ DictIn(proto, f, k) = Inner(proto, f)
  <2>1. Listed(proto[f]) /\ \A k \in DOMAIN Data(proto[f]) :
                              Data(proto[f])[k] = Dict(Inner(proto, f))
    <3>1. proto[f] = List(<<Dict(Inner(proto, f))>>)
      BY DEF Layer
    <3> QED BY <3>1, OneIsListed
  <2> QED BY <2>1, Tagged DEF DictIn
<1> QED BY <1>1, <1>2 DEF Shaped, Layer

\* The server's first subitems are prototypes.
LEMMA PrototypesAreFormed ==
  ASSUME NEW proto, Layers(proto)
  PROVE  Formed(proto, proto)
<1>1. ASSUME NEW p, InnerLayer(p) PROVE FormedInner(p, p)
  <2>1. Layer(p) /\ \A f \in DictFields(p) : Layer(Inner(p, f))
    BY <1>1 DEF InnerLayer, InnermostLayer
  <2> QED BY <2>1, LayerIsShaped DEF FormedInner
<1>2. Layer(proto) /\ \A f \in DictFields(proto) : FormedInner(Inner(proto, f), Inner(proto, f))
  BY <1>1 DEF Layers
<1> QED BY <1>2, LayerIsShaped DEF Formed

LEMMA FormedCanBeWalked ==
  ASSUME NEW proto, Layers(proto), NEW item, Formed(item, proto)
  PROVE  CanWalk(item, proto)
<1>1. DOMAIN proto \subseteq ToSet(FieldNames)
  BY DEF Layers, Layer
<1>2. ASSUME NEW f \in DictFields(proto) PROVE Walkable(item, f, Inner(proto, f))
  <2>1. PICK p : p = Inner(proto, f)
    OBVIOUS
  <2>2. Layer(p) /\ \A g \in DictFields(p) : Layer(Inner(p, g))
    BY <2>1 DEF Layers, InnerLayer, InnermostLayer
  <2>3. \E n \in Nat : DOMAIN Data(item[f]) = 1 .. n
    BY DEF Formed, Shaped, Listed
  <2>4. ASSUME NEW g \in DictFields(p), NEW i \in DOMAIN Data(item[f])
        PROVE  \E n \in Nat : DOMAIN InnerListOf(DictIn(item, f, i), g) = 1 .. n
    <3>1. PICK d : d = DictIn(item, f, i)
      OBVIOUS
    <3>2. Shaped(d, p)
      BY <2>1, <3>1 DEF Formed, FormedInner
    <3>3. g \in DOMAIN d /\ \E n \in Nat : DOMAIN Data(d[g]) = 1 .. n
      BY <3>2, FieldsAreDisjoint DEF Shaped, Listed
    <3> QED BY <3>1, <3>3 DEF InnerListOf
  <2> QED BY <2>1, <2>2, <2>3, <2>4 DEF Walkable, Layer
<1> QED BY <1>1, <1>2 DEF CanWalk

JsonLayer(d) ==
  /\ IsFunction(d)
  /\ \A f \in DOMAIN d :
       /\ IsValue(d[f])
       /\ Kind(d[f]) = "list" =>
            /\ Data(d[f]) \in Seq(ToSet(Data(d[f])))
            /\ \A e \in ToSet(Data(d[f])) : IsValue(e)

ValidLayer(proto, d) ==
  /\ DOMAIN d = DOMAIN proto
  /\ \A f \in DOMAIN proto :
       Kind(proto[f]) = "list" =>
         /\ Kind(d[f]) = "list"
         /\ \A k \in DOMAIN Data(d[f]) : Kind(Data(d[f])[k]) = Kind(Data(proto[f])[1])

LEMMA ListOfJson ==
  ASSUME NEW v, IsValue(v), Kind(v) = "list", Data(v) \in Seq(ToSet(Data(v)))
  PROVE  Listed(v) /\ \A k \in DOMAIN Data(v) : Data(v)[k] \in ToSet(Data(v))
<1>0. PICK S : S = ToSet(Data(v))
  OBVIOUS
<1>1. PICK s \in Seq(S) : s = Data(v)
  BY <1>0
<1>2. Len(s) \in Nat /\ DOMAIN s = 1 .. Len(s) /\ s = [k \in DOMAIN s |-> s[k]]
  OBVIOUS
<1>3. v = List(Data(v))
  BY DEF IsValue, List
<1> QED BY <1>1, <1>2, <1>3 DEF Listed, ToSet

LEMMA ValidIsShaped ==
  ASSUME NEW proto, NEW d, JsonLayer(d), ValidLayer(proto, d)
  PROVE  Shaped(d, proto)
<1>1. ASSUME NEW f, f \in StrFields(proto) \/ f \in DictFields(proto)
      PROVE  /\ Listed(d[f])
             /\ \A k \in DOMAIN Data(d[f]) :
                  /\ IsValue(Data(d[f])[k])
                  /\ Kind(Data(d[f])[k]) = Kind(Data(proto[f])[1])
  <2>1. f \in DOMAIN proto /\ f \in DOMAIN d /\ Kind(proto[f]) = "list"
    BY <1>1 DEF StrFields, DictFields, ListFields, ValidLayer
  <2>2. PICK v : v = d[f]
    OBVIOUS
  <2>3. /\ IsValue(v) /\ Kind(v) = "list" /\ Data(v) \in Seq(ToSet(Data(v)))
        /\ \A e \in ToSet(Data(v)) : IsValue(e)
    BY <2>1, <2>2 DEF JsonLayer, ValidLayer
  <2>4. \A k \in DOMAIN Data(v) : Kind(Data(v)[k]) = Kind(Data(proto[f])[1])
    BY <2>1, <2>2 DEF ValidLayer
  <2> QED BY <2>2, <2>3, <2>4, ListOfJson
<1>2. ASSUME NEW f \in DictFields(proto), NEW k \in DOMAIN Data(d[f])
      PROVE  Data(d[f])[k] = Dict(DictIn(d, f, k))
  <2>1. Kind(Data(proto[f])[1]) = "dict"
    BY DEF DictFields, ListFields
  <2>2. IsValue(Data(d[f])[k]) /\ Kind(Data(d[f])[k]) = "dict"
    BY <1>1, <2>1
  <2> QED BY <2>2 DEF DictIn, Dict, IsValue
<1>3. IsFunction(d) /\ DOMAIN d = DOMAIN proto
  BY DEF JsonLayer, ValidLayer
<1> QED BY <1>1, <1>2, <1>3 DEF Shaped

\* What a list of dicts holds that is valid, in JSON.
LEMMA DictOfJson ==
  ASSUME NEW proto, NEW d, JsonLayer(d), ValidLayer(proto, d),
         NEW f \in DictFields(proto), NEW k \in DOMAIN Data(d[f])
  PROVE  /\ f \in DOMAIN proto /\ f \in DOMAIN d /\ Kind(proto[f]) = "list"
         /\ Kind(d[f]) = "list" /\ Data(d[f])[k] \in ToSet(Data(d[f]))
         /\ Kind(Data(d[f])[k]) = "dict"
<1>1. /\ f \in DOMAIN proto /\ Kind(proto[f]) = "list" /\ Kind(Data(proto[f])[1]) = "dict"
  BY DEF DictFields, ListFields
<1>2. f \in DOMAIN d /\ Kind(d[f]) = "list" /\ Kind(Data(d[f])[k]) = "dict"
  BY <1>1 DEF ValidLayer
<1>3. IsValue(d[f]) /\ Data(d[f]) \in Seq(ToSet(Data(d[f])))
  BY <1>2 DEF JsonLayer
<1> QED BY <1>1, <1>2, <1>3, ListOfJson

LEMMA JsonLayers ==
  ASSUME NEW d
  PROVE  /\ InnermostJsonDict(d) <=> JsonLayer(d)
         /\ InnerJsonDict(d) <=>
              /\ JsonLayer(d)
              /\ \A f \in DOMAIN d : Kind(d[f]) = "list" =>
                   \A e \in ToSet(Data(d[f])) :
                     Kind(e) = "dict" => InnermostJsonDict(Data(e))
         /\ JsonDict(d) <=>
              /\ JsonLayer(d)
              /\ \A f \in DOMAIN d : Kind(d[f]) = "list" =>
                   \A e \in ToSet(Data(d[f])) :
                     Kind(e) = "dict" => InnerJsonDict(Data(e))
<1>1. InnermostJsonDict(d) <=> JsonLayer(d)
  BY DEF InnermostJsonDict, JsonDictIn, JsonLayer
<1>2. InnerJsonDict(d) <=>
         /\ JsonLayer(d)
         /\ \A f \in DOMAIN d : Kind(d[f]) = "list" =>
              \A e \in ToSet(Data(d[f])) :
                Kind(e) = "dict" => InnermostJsonDict(Data(e))
  BY DEF InnerJsonDict, JsonDictIn, JsonLayer
<1>3. JsonDict(d) <=>
         /\ JsonLayer(d)
         /\ \A f \in DOMAIN d : Kind(d[f]) = "list" =>
              \A e \in ToSet(Data(d[f])) :
                Kind(e) = "dict" => InnerJsonDict(Data(e))
  BY DEF JsonDict, JsonDictIn, JsonLayer
<1> QED BY <1>1, <1>2, <1>3

LEMMA ValidLayers ==
  ASSUME NEW proto, NEW d
  PROVE  /\ ValidInnermost(proto, d) => ValidLayer(proto, d)
         /\ ValidInner(proto, d) =>
              /\ ValidLayer(proto, d)
              /\ \A f \in DOMAIN proto : Kind(proto[f]) = "list" =>
                   \A k \in DOMAIN Data(d[f]) :
                     Kind(Data(d[f])[k]) = "dict" =>
                       ValidInnermost(Inner(proto, f), Data(Data(d[f])[k]))
         /\ ValidDict(proto, d) =>
              /\ ValidLayer(proto, d)
              /\ \A f \in DOMAIN proto : Kind(proto[f]) = "list" =>
                   \A k \in DOMAIN Data(d[f]) :
                     Kind(Data(d[f])[k]) = "dict" =>
                       ValidInner(Inner(proto, f), Data(Data(d[f])[k]))
<1>1. ValidInnermost(proto, d) => ValidLayer(proto, d)
  BY DEF ValidInnermost, ValidIn, ValidLayer
<1>2. ValidInner(proto, d) =>
         /\ ValidLayer(proto, d)
         /\ \A f \in DOMAIN proto : Kind(proto[f]) = "list" =>
              \A k \in DOMAIN Data(d[f]) :
                Kind(Data(d[f])[k]) = "dict" =>
                  ValidInnermost(Inner(proto, f), Data(Data(d[f])[k]))
  BY DEF ValidInner, ValidIn, ValidLayer
<1>3. ValidDict(proto, d) =>
         /\ ValidLayer(proto, d)
         /\ \A f \in DOMAIN proto : Kind(proto[f]) = "list" =>
              \A k \in DOMAIN Data(d[f]) :
                Kind(Data(d[f])[k]) = "dict" =>
                  ValidInner(Inner(proto, f), Data(Data(d[f])[k]))
  BY DEF ValidDict, ValidIn, ValidLayer
<1> QED BY <1>1, <1>2, <1>3

LEMMA ValidIsFormed ==
  ASSUME NEW proto, NEW d, JsonDict(d), ValidDict(proto, d)
  PROVE  Formed(d, proto)
<1>1. ASSUME NEW p, NEW e, InnerJsonDict(e), ValidInner(p, e)
      PROVE  FormedInner(e, p)
  <2>1. JsonLayer(e) /\ ValidLayer(p, e)
    BY <1>1, JsonLayers, ValidLayers
  <2>2. ASSUME NEW f \in DictFields(p), NEW k \in DOMAIN Data(e[f])
        PROVE  Shaped(DictIn(e, f, k), Inner(p, f))
    <3>1. PICK x : x = DictIn(e, f, k)
      OBVIOUS
    <3>2. JsonLayer(x)
      BY <1>1, <2>1, <3>1, DictOfJson, JsonLayers DEF DictIn
    <3>3. ValidLayer(Inner(p, f), x)
      <4>1. ValidInnermost(Inner(p, f), x)
        BY <1>1, <2>1, <3>1, DictOfJson, ValidLayers DEF DictIn
      <4> QED BY <4>1, ValidLayers
    <3> QED BY <3>1, <3>2, <3>3, ValidIsShaped
  <2> QED BY <2>1, <2>2, ValidIsShaped DEF FormedInner
<1>2. JsonLayer(d) /\ ValidLayer(proto, d)
  BY JsonLayers, ValidLayers
<1>3. ASSUME NEW f \in DictFields(proto), NEW k \in DOMAIN Data(d[f])
      PROVE  FormedInner(DictIn(d, f, k), Inner(proto, f))
  <2>1. PICK x : x = DictIn(d, f, k)
    OBVIOUS
  <2>2. InnerJsonDict(x)
    BY <1>2, <2>1, DictOfJson, JsonLayers DEF DictIn
  <2>3. ValidInner(Inner(proto, f), x)
    BY <1>2, <2>1, DictOfJson, ValidLayers DEF DictIn
  <2> QED BY <1>1, <2>1, <2>2, <2>3
<1> QED BY <1>2, <1>3, ValidIsShaped DEF Formed

-----------------------------------------------------------------------------
(* The filler makes JSON of JSON.                                          *)

WithDefaults(proto, d) == Merged(d, [f \in DOMAIN proto |-> DefaultValue(proto, f)])

\* The elements of the lists, each filled in.
FillTable(proto, d, Fill(_, _)) ==
  [f \in DOMAIN WithDefaults(proto, d) |->
     [k \in DOMAIN Data(WithDefaults(proto, d)[f]) |->
        LET e == Data(WithDefaults(proto, d)[f])[k]
        IN IF Kind(e) = "dict" THEN Fill(Inner(proto, f), Data(e)) ELSE e]]

FilledField(proto, d, table, f) ==
  LET v == WithDefaults(proto, d)[f]
  IN IF f \notin ToSet(DictLists(proto)) THEN v
     ELSE CASE Kind(v) \in {"null", "num", "bool"} -> Crash
            [] Kind(v) = "list" -> IF Crash \in ToSet(table[f]) THEN Crash ELSE List(table[f])
            [] OTHER -> v

FilledFields(proto, d, table) ==
  [f \in DOMAIN WithDefaults(proto, d) |-> FilledField(proto, d, table, f)]

FillWith(proto, d, table) ==
  IF \E f \in DOMAIN WithDefaults(proto, d) : FilledFields(proto, d, table)[f] = Crash
  THEN Crash ELSE Dict(FilledFields(proto, d, table))

InnermostTable(proto, d) == FillTable(proto, d, LAMBDA p, e : Dict(e))
InnerTableOf(proto, d)   == FillTable(proto, d, FillInInnermost)
OuterTable(proto, d)     == FillTable(proto, d, FillInInner)

LEMMA FillsInnermost ==
  ASSUME NEW proto, NEW d
  PROVE  FillInInnermost(proto, d) = FillWith(proto, d, InnermostTable(proto, d))
<1> DEFINE filled == WithDefaults(proto, d)
           Fill(v, f) == IF Kind(v) = "dict" THEN Dict(Data(v)) ELSE v
           FillList(f) ==
             LET v == filled[f]
                 s == IF Kind(v) = "list"
                      THEN [k \in DOMAIN Data(v) |-> Fill(Data(v)[k], f)] ELSE <<>>
             IN CASE Kind(v) \in {"null", "num", "bool"} -> Crash
                  [] Kind(v) = "list" -> IF Crash \in ToSet(s) THEN Crash ELSE List(s)
                  [] OTHER -> v
           result == [f \in DOMAIN filled |->
                        IF f \in ToSet(DictLists(proto)) THEN FillList(f) ELSE filled[f]]
           table == InnermostTable(proto, d)
<1>1. FillInInnermost(proto, d)
        = IF \E f \in DOMAIN result : result[f] = Crash THEN Crash ELSE Dict(result)
  BY DEF FillInInnermost, FillIn, WithDefaults
<1>2. ASSUME NEW f \in DOMAIN filled
      PROVE  table[f] = [k \in DOMAIN Data(filled[f]) |-> Fill(Data(filled[f])[k], f)]
  BY DEF InnermostTable, FillTable
<1>3. ASSUME NEW f \in DOMAIN filled
      PROVE  (IF f \in ToSet(DictLists(proto)) THEN FillList(f) ELSE filled[f])
               = FilledField(proto, d, table, f)
  <2> HIDE DEF table, Fill
  <2> QED BY <1>2 DEF FilledField
<1>4. result = FilledFields(proto, d, table)
  <2> HIDE DEF table, FillList
  <2> QED BY <1>3 DEF FilledFields
<1>5. DOMAIN result = DOMAIN WithDefaults(proto, d)
  OBVIOUS
<1> HIDE DEF result, table
<1> QED BY <1>1, <1>4, <1>5 DEF FillWith, table

LEMMA FillsInner ==
  ASSUME NEW proto, NEW d
  PROVE  FillInInner(proto, d) = FillWith(proto, d, InnerTableOf(proto, d))
<1> DEFINE filled == WithDefaults(proto, d)
           Fill(v, f) == IF Kind(v) = "dict" THEN FillInInnermost(Inner(proto, f), Data(v)) ELSE v
           FillList(f) ==
             LET v == filled[f]
                 s == IF Kind(v) = "list"
                      THEN [k \in DOMAIN Data(v) |-> Fill(Data(v)[k], f)] ELSE <<>>
             IN CASE Kind(v) \in {"null", "num", "bool"} -> Crash
                  [] Kind(v) = "list" -> IF Crash \in ToSet(s) THEN Crash ELSE List(s)
                  [] OTHER -> v
           result == [f \in DOMAIN filled |->
                        IF f \in ToSet(DictLists(proto)) THEN FillList(f) ELSE filled[f]]
           table == InnerTableOf(proto, d)
<1>1. FillInInner(proto, d)
        = IF \E f \in DOMAIN result : result[f] = Crash THEN Crash ELSE Dict(result)
  BY DEF FillInInner, FillIn, WithDefaults
<1>2. ASSUME NEW f \in DOMAIN filled
      PROVE  table[f] = [k \in DOMAIN Data(filled[f]) |-> Fill(Data(filled[f])[k], f)]
  BY DEF InnerTableOf, FillTable
<1>3. ASSUME NEW f \in DOMAIN filled
      PROVE  (IF f \in ToSet(DictLists(proto)) THEN FillList(f) ELSE filled[f])
               = FilledField(proto, d, table, f)
  <2> HIDE DEF table, Fill
  <2> QED BY <1>2 DEF FilledField
<1>4. result = FilledFields(proto, d, table)
  <2> HIDE DEF table, FillList
  <2> QED BY <1>3 DEF FilledFields
<1>5. DOMAIN result = DOMAIN WithDefaults(proto, d)
  OBVIOUS
<1> HIDE DEF result, table
<1> QED BY <1>1, <1>4, <1>5 DEF FillWith, table

LEMMA FillsOuter ==
  ASSUME NEW proto, NEW d
  PROVE  FillInDictFields(proto, d) = FillWith(proto, d, OuterTable(proto, d))
<1> DEFINE filled == WithDefaults(proto, d)
           Fill(v, f) == IF Kind(v) = "dict" THEN FillInInner(Inner(proto, f), Data(v)) ELSE v
           FillList(f) ==
             LET v == filled[f]
                 s == IF Kind(v) = "list"
                      THEN [k \in DOMAIN Data(v) |-> Fill(Data(v)[k], f)] ELSE <<>>
             IN CASE Kind(v) \in {"null", "num", "bool"} -> Crash
                  [] Kind(v) = "list" -> IF Crash \in ToSet(s) THEN Crash ELSE List(s)
                  [] OTHER -> v
           result == [f \in DOMAIN filled |->
                        IF f \in ToSet(DictLists(proto)) THEN FillList(f) ELSE filled[f]]
           table == OuterTable(proto, d)
<1>1. FillInDictFields(proto, d)
        = IF \E f \in DOMAIN result : result[f] = Crash THEN Crash ELSE Dict(result)
  BY DEF FillInDictFields, FillIn, WithDefaults
<1>2. ASSUME NEW f \in DOMAIN filled
      PROVE  table[f] = [k \in DOMAIN Data(filled[f]) |-> Fill(Data(filled[f])[k], f)]
  BY DEF OuterTable, FillTable
<1>3. ASSUME NEW f \in DOMAIN filled
      PROVE  (IF f \in ToSet(DictLists(proto)) THEN FillList(f) ELSE filled[f])
               = FilledField(proto, d, table, f)
  <2> HIDE DEF table, Fill
  <2> QED BY <1>2 DEF FilledField
<1>4. result = FilledFields(proto, d, table)
  <2> HIDE DEF table, FillList
  <2> QED BY <1>3 DEF FilledFields
<1>5. DOMAIN result = DOMAIN WithDefaults(proto, d)
  OBVIOUS
<1> HIDE DEF result, table
<1> QED BY <1>1, <1>4, <1>5 DEF FillWith, table

JsonTable(proto, d, table) ==
  \A f \in DictFields(proto) : Kind(WithDefaults(proto, d)[f]) = "list" =>
    /\ DOMAIN table[f] = DOMAIN Data(WithDefaults(proto, d)[f])
    /\ table[f] = [k \in DOMAIN table[f] |-> table[f][k]]
    /\ \A k \in DOMAIN table[f] : table[f][k] = Crash \/ IsValue(table[f][k])

\* x is d with its lists of dicts, and those of the prototype, as in the table.
IsFilled(proto, d, table, x) ==
  /\ x = Dict(Data(x)) /\ JsonLayer(Data(x))
  /\ DOMAIN Data(x) = DOMAIN d \cup DOMAIN proto
  /\ \A f \in DOMAIN d : f \notin DictFields(proto) => Data(x)[f] = d[f]
  /\ \A f \in DOMAIN Data(x) :
       Kind(Data(x)[f]) = "list" => \A e \in ToSet(Data(Data(x)[f])) :
         /\ f \in DOMAIN d /\ Kind(d[f]) = "list"
         /\ \/ e \in ToSet(Data(d[f]))
            \/ /\ f \in DictFields(proto) /\ e # Crash
               /\ \E k \in DOMAIN Data(d[f]) : e = table[f][k]

\* What FillWith makes of JSON, given a table of JSON.
LEMMA FilledWith ==
  ASSUME NEW proto, DOMAIN proto \subseteq ToSet(FieldNames), NEW d, JsonLayer(d), NEW table,
         JsonTable(proto, d, table),
         NEW x, x = FillWith(proto, d, table), x # Crash
  PROVE  IsFilled(proto, d, table, x)
<1> DEFINE filled == WithDefaults(proto, d)
           result == FilledFields(proto, d, table)
<1>1. x = Dict(result) /\ (\A f \in DOMAIN filled : result[f] # Crash) /\ Data(x) = result
  BY Tagged DEF FillWith
<1>2. DOMAIN filled = DOMAIN d \cup DOMAIN proto /\ DOMAIN result = DOMAIN filled
      /\ IsFunction(result)
  BY DEF WithDefaults, Merged, FilledFields, IsFunction
<1>3. \A f \in DOMAIN filled : result[f] = FilledField(proto, d, table, f)
  BY DEF FilledFields
<1>4. ToSet(DictLists(proto)) = DictFields(proto)
  BY FieldsInOrder
<1>5. ASSUME NEW f \in DOMAIN filled
      PROVE  (f \in DOMAIN d /\ filled[f] = d[f]) \/ filled[f] \in {Null, List(<<>>)}
  <2>1. CASE f \in DOMAIN d
    BY <2>1 DEF WithDefaults, Merged
  <2>2. CASE f \notin DOMAIN d
    <3>1. filled[f] = DefaultValue(proto, f)
      BY <2>2 DEF WithDefaults, Merged
    <3>2. Kind(proto[f]) # "blob"
      <4>1. ASSUME Kind(proto[f]) = "blob" PROVE FALSE
        <5>1. filled[f] = Crash
          BY <3>1, <4>1 DEF DefaultValue
        <5>2. f \notin DictFields(proto)
          BY <4>1 DEF DictFields, ListFields
        <5>3. result[f] = filled[f]
          BY <1>3, <1>4, <5>2 DEF FilledField
        <5> QED BY <1>1, <5>1, <5>3
      <4> QED BY <4>1
    <3> QED BY <3>1, <3>2 DEF DefaultValue
  <2> QED BY <2>1, <2>2
<1>6. IsValue(Null) /\ Kind(Null) # "list"
  BY DEF IsValue, JsonKinds, Null, Kind, Data
<1>7. /\ IsValue(List(<<>>)) /\ Kind(List(<<>>)) = "list" /\ Data(List(<<>>)) = <<>>
      /\ ToSet(<<>>) = {} /\ <<>> \in Seq(ToSet(<<>>)) /\ DOMAIN <<>> = {}
  BY DEF IsValue, JsonKinds, List, Kind, Data, ToSet
<1> HIDE DEF filled, result
<1>8. ASSUME NEW f \in DOMAIN filled
      PROVE  \/ result[f] = filled[f]
             \/ /\ f \in DictFields(proto) /\ Kind(filled[f]) = "list"
                /\ result[f] = List(table[f]) /\ Crash \notin ToSet(table[f])
  BY <1>1, <1>3, <1>4 DEF FilledField, filled
<1>9. ASSUME NEW f \in DOMAIN filled, Kind(filled[f]) = "list"
      PROVE  Data(filled[f]) \in Seq(ToSet(Data(filled[f])))
  BY <1>5, <1>6, <1>7, <1>9 DEF JsonLayer
<1>10. ASSUME NEW f \in DOMAIN filled, f \in DictFields(proto), Kind(filled[f]) = "list",
              Crash \notin ToSet(table[f])
       PROVE  /\ table[f] \in Seq(ToSet(table[f])) /\ \A e \in ToSet(table[f]) : IsValue(e)
              /\ \A e \in ToSet(table[f]) : \E k \in DOMAIN Data(filled[f]) : e = table[f][k]
  <2>1. PICK t : t = table[f]
    OBVIOUS
  <2>2. PICK S : S = ToSet(Data(filled[f]))
    OBVIOUS
  <2>3. PICK s \in Seq(S) : s = Data(filled[f])
    BY <1>9, <1>10, <2>2
  <2>4. /\ DOMAIN t = DOMAIN s /\ t = [k \in DOMAIN s |-> t[k]]
        /\ \A k \in DOMAIN s : t[k] = Crash \/ IsValue(t[k])
    <3>1. f \in DictFields(proto) /\ filled[f] = WithDefaults(proto, d)[f]
      BY <1>10 DEF filled
    <3> QED BY <1>10, <2>1, <2>3, <3>1 DEF JsonTable
  <2>5. DOMAIN s = 1 .. Len(s) /\ Len(s) \in Nat
    OBVIOUS
  <2>6. \A k \in DOMAIN s : t[k] \in ToSet(t)
    BY <2>4 DEF ToSet
  <2>7. t \in Seq(ToSet(t))
    BY <2>4, <2>5, <2>6
  <2> QED BY <1>10, <2>1, <2>3, <2>4, <2>7 DEF ToSet
<1>11. ASSUME NEW f \in DOMAIN filled
       PROVE  /\ IsValue(result[f])
              /\ Kind(result[f]) = "list" =>
                   /\ Data(result[f]) \in Seq(ToSet(Data(result[f])))
                   /\ \A e \in ToSet(Data(result[f])) : IsValue(e)
                   /\ \A e \in ToSet(Data(result[f])) :
                        /\ f \in DOMAIN d /\ Kind(d[f]) = "list"
                        /\ \/ e \in ToSet(Data(d[f]))
                           \/ /\ f \in DictFields(proto) /\ e # Crash
                                /\ \E k \in DOMAIN Data(d[f]) : e = table[f][k]
  <2>1. CASE f \in DOMAIN d /\ filled[f] = d[f] /\ result[f] = filled[f]
    BY <2>1 DEF JsonLayer
  <2>2. CASE filled[f] \in {Null, List(<<>>)} /\ result[f] = filled[f]
    BY <1>6, <1>7, <2>2
  <2>3. CASE /\ f \in DictFields(proto) /\ Kind(filled[f]) = "list"
             /\ result[f] = List(table[f]) /\ Crash \notin ToSet(table[f])
    <3>1. PICK t : t = table[f]
      OBVIOUS
    <3>2. Kind(result[f]) = "list" /\ Data(result[f]) = t /\ IsValue(result[f])
      BY <2>3, <3>1 DEF List, Kind, Data, IsValue, JsonKinds
    <3>3. /\ t \in Seq(ToSet(t)) /\ \A e \in ToSet(t) : IsValue(e)
          /\ \A e \in ToSet(t) : \E k \in DOMAIN Data(filled[f]) : e = t[k]
      BY <1>10, <2>3, <3>1
    <3>4. CASE f \in DOMAIN d /\ filled[f] = d[f]
      BY <2>3, <3>1, <3>2, <3>3, <3>4
    <3>5. CASE filled[f] \in {Null, List(<<>>)}
      <4>1. DOMAIN Data(filled[f]) = {}
        BY <1>6, <1>7, <2>3, <3>5
      <4>2. ToSet(t) = {}
        BY <3>3, <4>1
      <4> QED BY <3>2, <3>3, <4>2
    <3> QED BY <1>5, <3>4, <3>5
  <2> QED BY <1>5, <1>8, <2>1, <2>2, <2>3
<1>12. ASSUME NEW f \in DOMAIN d, f \notin DictFields(proto) PROVE result[f] = d[f]
  <2>1. f \in DOMAIN filled /\ filled[f] = d[f]
    BY <1>2 DEF filled, WithDefaults, Merged
  <2> QED BY <1>8, <1>12, <2>1
<1>13. JsonLayer(result)
  BY <1>2, <1>11 DEF JsonLayer
<1> QED BY <1>1, <1>2, <1>11, <1>12, <1>13 DEF IsFilled

LEMMA DefaultsOfJson ==
  ASSUME NEW proto, NEW d, JsonLayer(d), NEW f, f \in DOMAIN proto,
         NEW v, v = WithDefaults(proto, d)[f], Kind(v) = "list", NEW k \in DOMAIN Data(v)
  PROVE  /\ f \in DOMAIN d /\ v = d[f] /\ Data(v)[k] \in ToSet(Data(d[f]))
         /\ IsValue(Data(v)[k])
<1>1. v = IF f \in DOMAIN d THEN d[f] ELSE DefaultValue(proto, f)
  BY DEF WithDefaults, Merged
<1>2. CASE f \notin DOMAIN d
  <2>1. v = List(<<>>) \/ v = Null \/ v = Crash
    BY <1>1, <1>2 DEF DefaultValue
  <2>2. Kind(Crash) # "list"
    BY DEF Crash, Kind
  <2>3. v = List(<<>>)
    BY <2>1, <2>2, Tagged
  <2> QED BY <2>3, Tagged
<1>3. CASE f \in DOMAIN d
  <2>1. v = d[f] /\ IsValue(v) /\ Data(v) \in Seq(ToSet(Data(v)))
        /\ \A e \in ToSet(Data(v)) : IsValue(e)
    BY <1>1, <1>3 DEF JsonLayer
  <2> QED BY <1>3, <2>1, ListOfJson
<1> QED BY <1>2, <1>3

LEMMA FilledInnermost ==
  ASSUME NEW proto, DOMAIN proto \subseteq ToSet(FieldNames), NEW d, JsonLayer(d),
         NEW x, x = FillInInnermost(proto, d), x # Crash
  PROVE  x = Dict(Data(x)) /\ JsonLayer(Data(x))
<1>1. PICK table : table = InnermostTable(proto, d)
  OBVIOUS
<1>2. x = FillWith(proto, d, table)
  BY <1>1, FillsInnermost
<1>3. ASSUME NEW f \in DictFields(proto), NEW v, v = WithDefaults(proto, d)[f], Kind(v) = "list"
      PROVE  /\ DOMAIN table[f] = DOMAIN Data(v)
             /\ table[f] = [k \in DOMAIN table[f] |-> table[f][k]]
             /\ \A k \in DOMAIN table[f] : table[f][k] = Crash \/ IsValue(table[f][k])
  <2>1. f \in DOMAIN proto
    BY DEF DictFields, ListFields
  <2>2. f \in DOMAIN WithDefaults(proto, d)
    BY <2>1 DEF WithDefaults, Merged
  <2>3. table[f] = [k \in DOMAIN Data(v) |->
                      IF Kind(Data(v)[k]) = "dict" THEN Dict(Data(Data(v)[k])) ELSE Data(v)[k]]
    BY <1>1, <1>3, <2>2 DEF InnermostTable, FillTable
  <2>4. ASSUME NEW k \in DOMAIN Data(v) PROVE IsValue(table[f][k])
    <3>1. IsValue(Data(v)[k])
      BY <1>3, <2>1, DefaultsOfJson
    <3>2. PICK e : e = Data(v)[k]
      OBVIOUS
    <3>3. IsValue(Dict(Data(e)))
      BY DEF IsValue, JsonKinds, Dict, Kind, Data
    <3>4. table[f][k] = IF Kind(e) = "dict" THEN Dict(Data(e)) ELSE e
      BY <2>3, <3>2
    <3> QED BY <3>1, <3>2, <3>3, <3>4
  <2> QED BY <2>3, <2>4
<1>4. JsonTable(proto, d, table)
  BY <1>3 DEF JsonTable
<1>5. IsFilled(proto, d, table, x)
  BY <1>2, <1>4, FilledWith
<1> QED BY <1>5 DEF IsFilled

LEMMA FilledInner ==
  ASSUME NEW proto, DOMAIN proto \subseteq ToSet(FieldNames),
         \A f \in DictFields(proto) : DOMAIN Inner(proto, f) \subseteq ToSet(FieldNames),
         NEW d, InnerJsonDict(d), NEW x, x = FillInInner(proto, d), x # Crash
  PROVE  x = Dict(Data(x)) /\ InnerJsonDict(Data(x))
<1>1. PICK table : table = InnerTableOf(proto, d)
  OBVIOUS
<1>2. x = FillWith(proto, d, table)
  BY <1>1, FillsInner
<1>3. JsonLayer(d)
  BY JsonLayers
<1>4. ASSUME NEW f \in DictFields(proto), NEW v, v = WithDefaults(proto, d)[f], Kind(v) = "list"
      PROVE  /\ DOMAIN table[f] = DOMAIN Data(v)
             /\ table[f] = [k \in DOMAIN table[f] |-> table[f][k]]
             /\ \A k \in DOMAIN table[f] :
                  \/ table[f][k] = Crash
                  \/ /\ IsValue(table[f][k])
                     /\ Kind(table[f][k]) = "dict" => InnermostJsonDict(Data(table[f][k]))
  <2>1. f \in DOMAIN proto
    BY DEF DictFields, ListFields
  <2>2. f \in DOMAIN WithDefaults(proto, d)
    BY <2>1 DEF WithDefaults, Merged
  <2>3. table[f] = [k \in DOMAIN Data(v) |->
                      IF Kind(Data(v)[k]) = "dict"
                      THEN FillInInnermost(Inner(proto, f), Data(Data(v)[k])) ELSE Data(v)[k]]
    BY <1>1, <1>4, <2>2 DEF InnerTableOf, FillTable
  <2>4. ASSUME NEW k \in DOMAIN Data(v), table[f][k] # Crash
        PROVE  /\ IsValue(table[f][k])
               /\ Kind(table[f][k]) = "dict" => InnermostJsonDict(Data(table[f][k]))
    <3>1. IsValue(Data(v)[k]) /\ f \in DOMAIN d /\ v = d[f] /\ Data(v)[k] \in ToSet(Data(d[f]))
      BY <1>3, <1>4, <2>1, DefaultsOfJson
    <3>2. CASE Kind(Data(v)[k]) = "dict"
      <4>1. InnermostJsonDict(Data(Data(v)[k]))
        BY <1>4, <3>1, <3>2, JsonLayers
      <4>2. PICK y : y = table[f][k]
        OBVIOUS
      <4>3. y = FillInInnermost(Inner(proto, f), Data(Data(v)[k])) /\ y # Crash
        BY <2>3, <2>4, <3>2, <4>2
      <4>4. y = Dict(Data(y)) /\ JsonLayer(Data(y))
        BY <4>1, <4>3, FilledInnermost, JsonLayers
      <4>5. \A e : IsValue(Dict(e))
        BY DEF IsValue, JsonKinds, Dict, Kind, Data
      <4>6. InnermostJsonDict(Data(y)) /\ IsValue(y)
        BY <4>4, <4>5, JsonLayers
      <4> QED BY <4>2, <4>6
    <3>3. CASE Kind(Data(v)[k]) # "dict"
      BY <2>3, <3>1, <3>3
    <3> QED BY <3>2, <3>3
  <2> QED BY <2>3, <2>4
<1>5. /\ x = Dict(Data(x)) /\ JsonLayer(Data(x))
      /\ \A f \in DOMAIN Data(x) :
           Kind(Data(x)[f]) = "list" => \A e \in ToSet(Data(Data(x)[f])) :
             /\ f \in DOMAIN d /\ Kind(d[f]) = "list"
             /\ \/ e \in ToSet(Data(d[f]))
                \/ /\ f \in DictFields(proto) /\ e # Crash
                   /\ \E k \in DOMAIN Data(d[f]) : e = table[f][k]
  <2>1. JsonTable(proto, d, table)
    BY <1>4 DEF JsonTable
  <2>2. IsFilled(proto, d, table, x)
    BY <1>2, <1>3, <2>1, FilledWith
  <2> QED BY <2>2 DEF IsFilled
<1>6. ASSUME NEW f \in DOMAIN Data(x), Kind(Data(x)[f]) = "list",
             NEW e \in ToSet(Data(Data(x)[f])), Kind(e) = "dict"
      PROVE  InnermostJsonDict(Data(e))
  <2>1. f \in DOMAIN d /\ Kind(d[f]) = "list"
    BY <1>5, <1>6
  <2>2. CASE e \in ToSet(Data(d[f]))
    BY <1>6, <2>1, <2>2, JsonLayers
  <2>3. CASE f \in DictFields(proto) /\ e # Crash /\ \E k \in DOMAIN Data(d[f]) : e = table[f][k]
    <3>1. PICK k \in DOMAIN Data(d[f]) : e = table[f][k]
      BY <2>3
    <3>2. f \in DOMAIN proto /\ WithDefaults(proto, d)[f] = d[f]
      BY <2>1, <2>3 DEF DictFields, ListFields, WithDefaults, Merged
    <3> QED BY <1>4, <1>6, <2>1, <2>3, <3>1, <3>2
  <2> QED BY <1>5, <1>6, <2>2, <2>3
<1> QED BY <1>5, <1>6, JsonLayers

LEMMA FilledOuter ==
  ASSUME NEW proto, Layers(proto), NEW d, JsonDict(d),
         NEW x, x = FillInDictFields(proto, d), x # Crash
  PROVE  /\ x = Dict(Data(x)) /\ JsonDict(Data(x))
         /\ DOMAIN Data(x) = DOMAIN d \cup DOMAIN proto
         /\ \A f \in DOMAIN d : f \notin DictFields(proto) => Data(x)[f] = d[f]
<1>1. PICK table : table = OuterTable(proto, d)
  OBVIOUS
<1>2. x = FillWith(proto, d, table)
  BY <1>1, FillsOuter
<1>3. JsonLayer(d)
  BY JsonLayers
<1>4. ASSUME NEW f \in DictFields(proto), NEW v, v = WithDefaults(proto, d)[f], Kind(v) = "list"
      PROVE  /\ DOMAIN table[f] = DOMAIN Data(v)
             /\ table[f] = [k \in DOMAIN table[f] |-> table[f][k]]
             /\ \A k \in DOMAIN table[f] :
                  \/ table[f][k] = Crash
                  \/ /\ IsValue(table[f][k])
                     /\ Kind(table[f][k]) = "dict" => InnerJsonDict(Data(table[f][k]))
  <2>1. f \in DOMAIN proto
    BY DEF DictFields, ListFields
  <2>2. f \in DOMAIN WithDefaults(proto, d)
    BY <2>1 DEF WithDefaults, Merged
  <2>3. table[f] = [k \in DOMAIN Data(v) |->
                      IF Kind(Data(v)[k]) = "dict"
                      THEN FillInInner(Inner(proto, f), Data(Data(v)[k])) ELSE Data(v)[k]]
    BY <1>1, <1>4, <2>2 DEF OuterTable, FillTable
  <2>4. ASSUME NEW k \in DOMAIN Data(v), table[f][k] # Crash
        PROVE  /\ IsValue(table[f][k])
               /\ Kind(table[f][k]) = "dict" => InnerJsonDict(Data(table[f][k]))
    <3>1. IsValue(Data(v)[k]) /\ f \in DOMAIN d /\ v = d[f] /\ Data(v)[k] \in ToSet(Data(d[f]))
      BY <1>3, <1>4, <2>1, DefaultsOfJson
    <3>2. CASE Kind(Data(v)[k]) = "dict"
      <4>1. InnerJsonDict(Data(Data(v)[k]))
        BY <1>4, <3>1, <3>2, JsonLayers
      <4>2. PICK y : y = table[f][k]
        OBVIOUS
      <4>3. y = FillInInner(Inner(proto, f), Data(Data(v)[k])) /\ y # Crash
        BY <2>3, <2>4, <3>2, <4>2
      <4>4. y = Dict(Data(y)) /\ InnerJsonDict(Data(y))
        <5>1. PICK p : p = Inner(proto, f)
          OBVIOUS
        <5>2. /\ DOMAIN p \subseteq ToSet(FieldNames)
              /\ \A g \in DictFields(p) : DOMAIN Inner(p, g) \subseteq ToSet(FieldNames)
          BY <5>1 DEF Layers, InnerLayer, InnermostLayer, Layer
        <5> QED BY <4>1, <4>3, <5>1, <5>2, FilledInner
      <4>5. \A e : IsValue(Dict(e))
        BY DEF IsValue, JsonKinds, Dict, Kind, Data
      <4>6. InnerJsonDict(Data(y)) /\ IsValue(y)
        BY <4>4, <4>5, JsonLayers
      <4> QED BY <4>2, <4>6
    <3>3. CASE Kind(Data(v)[k]) # "dict"
      BY <2>3, <3>1, <3>3
    <3> QED BY <3>2, <3>3
  <2> QED BY <2>3, <2>4
<1>5. /\ x = Dict(Data(x)) /\ JsonLayer(Data(x))
      /\ DOMAIN Data(x) = DOMAIN d \cup DOMAIN proto
      /\ \A f \in DOMAIN d : f \notin DictFields(proto) => Data(x)[f] = d[f]
      /\ \A f \in DOMAIN Data(x) :
           Kind(Data(x)[f]) = "list" => \A e \in ToSet(Data(Data(x)[f])) :
             /\ f \in DOMAIN d /\ Kind(d[f]) = "list"
             /\ \/ e \in ToSet(Data(d[f]))
                \/ /\ f \in DictFields(proto) /\ e # Crash
                   /\ \E k \in DOMAIN Data(d[f]) : e = table[f][k]
  <2>1. JsonTable(proto, d, table)
    BY <1>4 DEF JsonTable
  <2>2. IsFilled(proto, d, table, x)
    BY <1>2, <1>3, <2>1, FilledWith DEF Layers, Layer
  <2> QED BY <2>2 DEF IsFilled
<1>6. ASSUME NEW f \in DOMAIN Data(x), Kind(Data(x)[f]) = "list",
             NEW e \in ToSet(Data(Data(x)[f])), Kind(e) = "dict"
      PROVE  InnerJsonDict(Data(e))
  <2>1. f \in DOMAIN d /\ Kind(d[f]) = "list"
    BY <1>5, <1>6
  <2>2. CASE e \in ToSet(Data(d[f]))
    BY <1>6, <2>1, <2>2, JsonLayers
  <2>3. CASE f \in DictFields(proto) /\ e # Crash /\ \E k \in DOMAIN Data(d[f]) : e = table[f][k]
    <3>1. PICK k \in DOMAIN Data(d[f]) : e = table[f][k]
      BY <2>3
    <3>2. f \in DOMAIN proto /\ WithDefaults(proto, d)[f] = d[f]
      BY <2>1, <2>3 DEF DictFields, ListFields, WithDefaults, Merged
    <3> QED BY <1>4, <1>6, <2>1, <2>3, <3>1, <3>2
  <2> QED BY <1>5, <1>6, <2>2, <2>3
<1> QED BY <1>5, <1>6, JsonLayers

-----------------------------------------------------------------------------
(* Reading lists from their rows.                                          *)

LEMMA RowsInOrder ==
  ASSUME NEW n \in Nat, NEW row, NEW found,
         \A r : r \in found <=> \E k \in 1 .. n : r = row[k],
         \A k \in 1 .. n : row[k]["list_pos"] = Num(k - 1)
  PROVE  DOMAIN InOrder(found) = 1 .. n /\ \A k \in 1 .. n : InOrder(found)[k] = row[k]
<1> DEFINE places == {Data(r["list_pos"]) : r \in found}
<1>1. \A k \in 1 .. n : Data(row[k]["list_pos"]) = k - 1
  BY Tagged
<1>2. places = 0 .. n - 1
  <2>1. ASSUME NEW k \in 0 .. n - 1 PROVE k \in places
    <3>1. k + 1 \in 1 .. n /\ (k + 1) - 1 = k
      OBVIOUS
    <3>2. row[k + 1] \in found /\ Data(row[k + 1]["list_pos"]) = k
      BY <1>1, <3>1
    <3> QED BY <3>2
  <2>2. ASSUME NEW r \in found PROVE Data(r["list_pos"]) \in 0 .. n - 1
    <3>1. PICK k \in 1 .. n : r = row[k]
      OBVIOUS
    <3> QED BY <1>1, <3>1
  <2> QED BY <2>1, <2>2
<1>4. InOrder(found) = [k \in 1 .. Cardinality(places) |->
                          CHOOSE r \in found : Data(r["list_pos"]) = Nth(places, k)]
  BY DEF InOrder
<1> HIDE DEF places
<1>3. Cardinality(places) = n /\ \A k \in 1 .. n : Nth(places, k) = k - 1
  BY <1>2, NthOfInterval
<1>5. ASSUME NEW k \in 1 .. n
      PROVE  InOrder(found)[k] = CHOOSE r \in found : Data(r["list_pos"]) = k - 1
  <2>1. InOrder(found)[k] = CHOOSE r \in found : Data(r["list_pos"]) = Nth(places, k)
    BY <1>3, <1>4
  <2> QED BY <1>3, <2>1
<1>6. ASSUME NEW k \in 1 .. n
      PROVE  (CHOOSE r \in found : Data(r["list_pos"]) = k - 1) = row[k]
  <2>1. row[k] \in found /\ Data(row[k]["list_pos"]) = k - 1
    BY <1>1
  <2>2. ASSUME NEW r \in found, Data(r["list_pos"]) = k - 1 PROVE r = row[k]
    <3>1. PICK m \in 1 .. n : r = row[m]
      OBVIOUS
    <3>2. m - 1 = k - 1
      BY <1>1, <2>2, <3>1
    <3> QED BY <3>1, <3>2
  <2> QED BY <2>1, <2>2
<1> QED BY <1>3, <1>4, <1>5, <1>6

LEMMA StringsRead ==
  ASSUME NEW v, Listed(v), NEW row, NEW found, NEW column,
         \A r : r \in found <=> \E k \in DOMAIN Data(v) : r = row[k],
         \A k \in DOMAIN Data(v) :
           row[k]["list_pos"] = Num(k - 1) /\ row[k][column] = Data(v)[k]
  PROVE  StrList(found, column) = v
<1>1. PICK n \in Nat : DOMAIN Data(v) = 1 .. n
  BY DEF Listed
<1>2. /\ \A r : r \in found <=> \E k \in 1 .. n : r = row[k]
      /\ \A k \in 1 .. n : row[k]["list_pos"] = Num(k - 1)
  BY <1>1
<1>3. PICK sorted : sorted = InOrder(found)
  OBVIOUS
<1>7. DOMAIN sorted = 1 .. n /\ \A k \in 1 .. n : sorted[k] = row[k]
  BY <1>2, <1>3, RowsInOrder
<1>4. StrList(found, column) = List([k \in DOMAIN sorted |-> sorted[k][column]])
  BY <1>3 DEF StrList
<1>5. DOMAIN sorted = 1 .. n /\ \A k \in 1 .. n : sorted[k][column] = Data(v)[k]
  BY <1>1, <1>7
<1>6. [k \in DOMAIN sorted |-> sorted[k][column]] = [k \in 1 .. n |-> Data(v)[k]]
  BY <1>5
<1> QED BY <1>1, <1>4, <1>6 DEF Listed

LEMMA MainCells ==
  ASSUME NEW proto, NEW id, NEW d
  PROVE  /\ \A c \in SimpleFields(proto) : MainRow(proto, id, d)[c] = d[c]
         /\ "id" \notin SimpleFields(proto) => MainRow(proto, id, d)["id"] = Str(id)
<1>1. DOMAIN ColumnsOf(proto, d) = SimpleFields(proto)
      /\ \A c \in SimpleFields(proto) : ColumnsOf(proto, d)[c] = d[c]
  BY DEF ColumnsOf
<1>2. DOMAIN Own(id) = {"id"} /\ Own(id)["id"] = Str(id)
  BY DEF Own, Field
<1>3. PICK a : a = ColumnsOf(proto, d)
  OBVIOUS
<1>4. PICK b : b = Own(id)
  OBVIOUS
<1>5. MainRow(proto, id, d) = Merged(a, b)
  BY <1>3, <1>4 DEF MainRow
<1> QED BY <1>1, <1>2, <1>3, <1>4, <1>5 DEF Merged

LEMMA Positioned ==
  ASSUME NEW id, NEW k, NEW own, own = Own(id)
  PROVE  /\ DOMAIN own = {"id"} /\ own["id"] = Str(id)
         /\ DOMAIN ListPos(k) = {"list_pos"} /\ ListPos(k)["list_pos"] = Num(k - 1)
         /\ DOMAIN DictPos(k) = {"dict_list_pos"} /\ DictPos(k)["dict_list_pos"] = Num(k - 1)
BY DEF Own, ListPos, DictPos, Field

LEMMA StrCells ==
  ASSUME NEW id, NEW f, f \notin {"id"} \cup PositionNames, NEW d, NEW k
  PROVE  /\ StrRow(id, f, d, k)[f] = Data(d[f])[k]
         /\ StrRow(id, f, d, k)["list_pos"] = Num(k - 1)
         /\ StrRow(id, f, d, k)["id"] = Str(id)
<1>1. PICK own : own = Own(id)
  OBVIOUS
<1>2. PICK pos : pos = ListPos(k)
  OBVIOUS
<1>3. PICK e : e = Data(d[f])[k]
  OBVIOUS
<1>4. PICK new : new = Field(f, e)
  OBVIOUS
<1>5. PICK old : old = Merged(pos, own)
  OBVIOUS
<1>6. DOMAIN old = {"list_pos", "id"} /\ old["list_pos"] = Num(k - 1) /\ old["id"] = Str(id)
  BY <1>1, <1>2, <1>5, Positioned DEF Merged
<1>7. DOMAIN new = {f} /\ new[f] = e
  BY <1>4 DEF Field
<1>8. StrRow(id, f, d, k) = Merged(new, old)
  BY <1>1, <1>2, <1>3, <1>4, <1>5 DEF StrRow
<1>9. f # "id" /\ f # "list_pos"
  BY DEF PositionNames
<1> QED BY <1>3, <1>6, <1>7, <1>8, <1>9 DEF Merged

LEMMA ColumnsAreSimple ==
  ASSUME NEW proto, NEW d, NEW columns, columns = ColumnsOf(proto, d)
  PROVE  /\ DOMAIN columns = SimpleFields(proto)
         /\ \A c \in SimpleFields(proto) : columns[c] = d[c]
         /\ SimpleFields(proto) \subseteq DOMAIN proto
BY DEF ColumnsOf, SimpleFields

LEMMA DictCells ==
  ASSUME NEW proto, DOMAIN proto \cap ({"id"} \cup PositionNames) = {}, NEW id, NEW d, NEW i
  PROVE  /\ \A c \in SimpleFields(proto) : DictRow(proto, id, d, i)[c] = d[c]
         /\ DictRow(proto, id, d, i)["list_pos"] = Num(i - 1)
         /\ DictRow(proto, id, d, i)["id"] = Str(id)
<1>1. PICK own : own = Own(id)
  OBVIOUS
<1>2. PICK pos : pos = ListPos(i)
  OBVIOUS
<1>3. PICK new : new = ColumnsOf(proto, d)
  OBVIOUS
<1>4. PICK old : old = Merged(pos, own)
  OBVIOUS
<1>5. DOMAIN old = {"list_pos", "id"} /\ old["list_pos"] = Num(i - 1) /\ old["id"] = Str(id)
  BY <1>1, <1>2, <1>4, Positioned DEF Merged
<1>6. /\ DOMAIN new = SimpleFields(proto) /\ \A c \in SimpleFields(proto) : new[c] = d[c]
      /\ "id" \notin DOMAIN new /\ "list_pos" \notin DOMAIN new
  BY <1>3, ColumnsAreSimple DEF PositionNames
<1>7. DictRow(proto, id, d, i) = Merged(new, old)
  BY <1>1, <1>2, <1>3, <1>4 DEF DictRow
<1> QED BY <1>5, <1>6, <1>7 DEF Merged

LEMMA DictStrCells ==
  ASSUME NEW id, NEW s, s \notin {"id"} \cup PositionNames, NEW d, NEW i, NEW k
  PROVE  /\ DictStrRow(id, s, d, i, k)[s] = Data(d[s])[k]
         /\ DictStrRow(id, s, d, i, k)["list_pos"] = Num(k - 1)
         /\ DictStrRow(id, s, d, i, k)["dict_list_pos"] = Num(i - 1)
         /\ DictStrRow(id, s, d, i, k)["id"] = Str(id)
<1>1. PICK own : own = Own(id)
  OBVIOUS
<1>2. PICK dict : dict = DictPos(i)
  OBVIOUS
<1>3. PICK pos : pos = ListPos(k)
  OBVIOUS
<1>4. PICK e : e = Data(d[s])[k]
  OBVIOUS
<1>5. PICK new : new = Field(s, e)
  OBVIOUS
<1>6. PICK old : old = Merged(dict, own)
  OBVIOUS
<1>7. PICK more : more = Merged(pos, old)
  OBVIOUS
<1>8. DOMAIN old = {"dict_list_pos", "id"} /\ old["dict_list_pos"] = Num(i - 1)
      /\ old["id"] = Str(id)
  BY <1>1, <1>2, <1>6, Positioned DEF Merged
<1>9. DOMAIN pos = {"list_pos"} /\ pos["list_pos"] = Num(k - 1)
  BY <1>3, Positioned
<1>10. DOMAIN more = {"list_pos", "dict_list_pos", "id"} /\ more["list_pos"] = Num(k - 1)
       /\ more["dict_list_pos"] = Num(i - 1) /\ more["id"] = Str(id)
  BY <1>7, <1>8, <1>9 DEF Merged
<1>11. DOMAIN new = {s} /\ new[s] = e
  BY <1>5 DEF Field
<1>12. DictStrRow(id, s, d, i, k) = Merged(new, more)
  BY <1>1, <1>2, <1>3, <1>4, <1>5, <1>6, <1>7 DEF DictStrRow
<1>13. s \notin {"id", "list_pos", "dict_list_pos"}
  BY DEF PositionNames
<1> QED BY <1>4, <1>10, <1>11, <1>12, <1>13 DEF Merged

LEMMA InnerCells ==
  ASSUME NEW proto, DOMAIN proto \cap ({"id"} \cup PositionNames) = {},
         NEW id, NEW d, NEW i, NEW j
  PROVE  /\ \A c \in SimpleFields(proto) : InnerRow(proto, id, d, i, j)[c] = d[c]
         /\ InnerRow(proto, id, d, i, j)["list_pos"] = Num(j - 1)
         /\ InnerRow(proto, id, d, i, j)["dict_list_pos"] = Num(i - 1)
         /\ InnerRow(proto, id, d, i, j)["id"] = Str(id)
<1>1. PICK own : own = Own(id)
  OBVIOUS
<1>2. PICK dict : dict = DictPos(i)
  OBVIOUS
<1>3. PICK pos : pos = ListPos(j)
  OBVIOUS
<1>4. PICK new : new = ColumnsOf(proto, d)
  OBVIOUS
<1>5. PICK old : old = Merged(pos, own)
  OBVIOUS
<1>6. PICK more : more = Merged(dict, old)
  OBVIOUS
<1>7. DOMAIN old = {"list_pos", "id"} /\ old["list_pos"] = Num(j - 1)
      /\ old["id"] = Str(id)
  BY <1>1, <1>3, <1>5, Positioned DEF Merged
<1>8. DOMAIN dict = {"dict_list_pos"} /\ dict["dict_list_pos"] = Num(i - 1)
  BY <1>2, Positioned
<1>9. DOMAIN more = {"list_pos", "dict_list_pos", "id"} /\ more["list_pos"] = Num(j - 1)
      /\ more["dict_list_pos"] = Num(i - 1) /\ more["id"] = Str(id)
  BY <1>6, <1>7, <1>8 DEF Merged
<1>10. /\ DOMAIN new = SimpleFields(proto) /\ \A c \in SimpleFields(proto) : new[c] = d[c]
       /\ DOMAIN new \cap {"id", "list_pos", "dict_list_pos"} = {}
  BY <1>4, ColumnsAreSimple DEF PositionNames
<1>11. InnerRow(proto, id, d, i, j) = Merged(new, more)
  BY <1>1, <1>2, <1>3, <1>4, <1>5, <1>6 DEF InnerRow
<1> QED BY <1>9, <1>10, <1>11 DEF Merged

-----------------------------------------------------------------------------
(* The tables that rows of an item are in.                                 *)

Lists(proto) == StrFields(proto) \cup DictFields(proto)

NoPath        == <<>>
OnePath(f)    == <<f>>
TwoPath(f, g) == <<f, g>>

LEMMA PathsDiffer ==
  /\ \A f : OnePath(f) # NoPath /\ \A h : OnePath(f) = OnePath(h) => f = h
  /\ \A f, g : TwoPath(f, g) # NoPath /\ \A h : TwoPath(f, g) # OnePath(h)
  /\ \A f, g, h, k : TwoPath(f, g) = TwoPath(h, k) => f = h /\ g = k
BY DEF NoPath, OnePath, TwoPath

LEMMA TablesOfPaths ==
  ASSUME NEW main
  PROVE  /\ ItemTable(main) = TableOf(main, NoPath)
         /\ \A f : ListTable(main, f) = TableOf(main, OnePath(f))
         /\ \A f, g : InnerTable(main, f, g) = TableOf(main, TwoPath(f, g))
BY DEF ItemTable, ListTable, InnerTable, NoPath, OnePath, TwoPath

DeletedCalls ==
  {"main dict", "str list", "dict list", "dict's str list", "inner dict list"}

LEMMA CallsThatDelete ==
  /\ "main dict" \in DeletedCalls /\ "str list" \in DeletedCalls
  /\ "dict list" \in DeletedCalls /\ "inner dict list" \in DeletedCalls
  /\ "dict's str list" \in DeletedCalls
  /\ "dict in list" \notin DeletedCalls /\ "dict in inner list" \notin DeletedCalls
  /\ "inner dict's str list" \notin DeletedCalls
BY DEF DeletedCalls

LEMMA PathsOfVisits ==
  ASSUME NEW proto, NEW f, NEW g, NEW i
  PROVE  /\ MainVisit(proto).call \in DeletedCalls /\ MainVisit(proto).path = NoPath
         /\ StrListVisit(f).call \in DeletedCalls /\ StrListVisit(f).path = OnePath(f)
         /\ DictListVisit(f, proto).call \in DeletedCalls
         /\ DictListVisit(f, proto).path = OnePath(f)
         /\ InnerListVisit(f, g, proto).call \in DeletedCalls
         /\ InnerListVisit(f, g, proto).path = TwoPath(f, g)
         /\ DictVisit(f, i, proto).call \notin DeletedCalls
         /\ DictStrVisit(f, g, i).call \in DeletedCalls
         /\ DictStrVisit(f, g, i).path = TwoPath(f, g)
<1>1. /\ MainVisit(proto).call = "main dict" /\ MainVisit(proto).path = NoPath
      /\ StrListVisit(f).call = "str list" /\ StrListVisit(f).path = OnePath(f)
      /\ DictListVisit(f, proto).call = "dict list" /\ DictListVisit(f, proto).path = OnePath(f)
      /\ InnerListVisit(f, g, proto).call = "inner dict list"
      /\ InnerListVisit(f, g, proto).path = TwoPath(f, g)
      /\ DictVisit(f, i, proto).call = "dict in list"
  BY DEF Visit, MainVisit, StrListVisit, DictListVisit, InnerListVisit, DictVisit,
         NoPath, OnePath, TwoPath
<1>2. DictStrVisit(f, g, i).call = "dict's str list" /\ DictStrVisit(f, g, i).path = <<f, g>>
  BY DEF Visit, DictStrVisit
<1> QED BY <1>1, <1>2, CallsThatDelete, Zenon DEF TwoPath

LEMMA InnerVisitsAreNotDeleted ==
  ASSUME NEW d, NEW f, NEW i, NEW g, NEW proto, NEW v, IsInnerVisit(d, f, i, g, proto, v)
  PROVE  v.call \notin DeletedCalls
<1>2. PICK j \in DOMAIN InnerListOf(d, g) :
        \/ v = InnerVisit(f, g, i, j, proto)
        \/ \E s \in StrFields(proto) : v = InnerStrVisit(f, g, s, i, j)
  BY DEF IsInnerVisit, InnerVisit, InnerStrVisit
<1>3. InnerVisit(f, g, i, j, proto).call \notin DeletedCalls
  <2>1. InnerVisit(f, g, i, j, proto).call = "dict in inner list"
    BY DEF InnerVisit, Visit
  <2> QED BY <2>1, CallsThatDelete, Zenon
<1>4. ASSUME NEW s PROVE InnerStrVisit(f, g, s, i, j).call \notin DeletedCalls
  <2>1. InnerStrVisit(f, g, s, i, j).call = "inner dict's str list"
    BY DEF InnerStrVisit, Visit
  <2> QED BY <2>1, CallsThatDelete, Zenon
<1> QED BY <1>2, <1>3, <1>4

LEMMA ListVisitsNamed ==
  ASSUME NEW item, NEW f, NEW proto, NEW v
  PROVE  IsListVisit(item, f, proto, v) <=>
           \/ v = DictListVisit(f, proto)
           \/ \E g \in DictFields(proto) : v = InnerListVisit(f, g, Inner(proto, g))
           \/ \E i \in DOMAIN Data(item[f]) :
                \/ v = DictVisit(f, i, proto)
                \/ \E s \in StrFields(proto) : v = DictStrVisit(f, s, i)
                \/ \E g \in DictFields(proto) :
                     IsInnerVisit(DictIn(item, f, i), f, i, g, Inner(proto, g), v)
BY DEF IsListVisit, DictListVisit, InnerListVisit, DictVisit, DictStrVisit

\* The paths of visits to which tables are deleted.
IsRowPath(proto, p) ==
  \/ p = NoPath
  \/ \E f \in Lists(proto) : p = OnePath(f)
  \/ \E f \in DictFields(proto) : \E g \in Lists(Inner(proto, f)) : p = TwoPath(f, g)

LEMMA RowPaths ==
  ASSUME NEW proto, Layers(proto)
  PROVE  \A p : IsRowPath(proto, p) <=>
           \E v \in ToSet(Walk(proto, proto)) : v.call \in DeletedCalls /\ v.path = p
<1>1. CanWalk(proto, proto)
  BY PrototypesAreFormed, FormedCanBeWalked
<1>2. \A v : v \in ToSet(Walk(proto, proto)) <=> IsVisit(proto, proto, v)
  BY <1>1, WalkVisits
<1>3. \A v : IsVisit(proto, proto, v) <=>
        \/ v = MainVisit(proto)
        \/ \E f \in StrFields(proto) : v = StrListVisit(f)
        \/ \E f \in DictFields(proto) : IsListVisit(proto, f, Inner(proto, f), v)
  BY DEF IsVisit, MainVisit, StrListVisit
<1>4. \A f : \A v : IsListVisit(proto, f, Inner(proto, f), v) <=>
        \/ v = DictListVisit(f, Inner(proto, f))
        \/ \E g \in DictFields(Inner(proto, f)) :
             v = InnerListVisit(f, g, Inner(Inner(proto, f), g))
        \/ \E i \in DOMAIN Data(proto[f]) :
             \/ v = DictVisit(f, i, Inner(proto, f))
             \/ \E s \in StrFields(Inner(proto, f)) : v = DictStrVisit(f, s, i)
             \/ \E g \in DictFields(Inner(proto, f)) :
                  IsInnerVisit(DictIn(proto, f, i), f, i, g, Inner(Inner(proto, f), g), v)
  BY ListVisitsNamed
<1>5. ASSUME NEW f \in DictFields(proto) PROVE 1 \in DOMAIN Data(proto[f])
  <2>1. proto[f] = List(<<Dict(Inner(proto, f))>>)
    BY DEF Layers, Layer
  <2>2. DOMAIN Data(proto[f]) = 1 .. 1
    BY <2>1, OneIsListed
  <2> QED BY <2>2
<1> SUFFICES ASSUME NEW p
             PROVE  IsRowPath(proto, p) <=>
                      \E v : IsVisit(proto, proto, v) /\ v.call \in DeletedCalls /\ v.path = p
  BY <1>2
<1>7. ASSUME IsRowPath(proto, p)
      PROVE  \E v : IsVisit(proto, proto, v) /\ v.call \in DeletedCalls /\ v.path = p
  <2>1. CASE p = NoPath
    <3>1. IsVisit(proto, proto, MainVisit(proto))
      BY <1>3
    <3> QED BY <2>1, <3>1, PathsOfVisits
  <2>2. ASSUME NEW f \in StrFields(proto), p = OnePath(f)
        PROVE  \E v : IsVisit(proto, proto, v) /\ v.call \in DeletedCalls /\ v.path = p
    <3>1. IsVisit(proto, proto, StrListVisit(f))
      BY <1>3
    <3> QED BY <2>2, <3>1, PathsOfVisits
  <2>3. ASSUME NEW f \in DictFields(proto), p = OnePath(f)
        PROVE  \E v : IsVisit(proto, proto, v) /\ v.call \in DeletedCalls /\ v.path = p
    <3>1. IsVisit(proto, proto, DictListVisit(f, Inner(proto, f)))
      BY <1>3, <1>4
    <3> QED BY <2>3, <3>1, PathsOfVisits
  <2>4. ASSUME NEW f \in DictFields(proto), NEW g \in StrFields(Inner(proto, f)),
               p = TwoPath(f, g)
        PROVE  \E v : IsVisit(proto, proto, v) /\ v.call \in DeletedCalls /\ v.path = p
    <3>1. IsVisit(proto, proto, DictStrVisit(f, g, 1))
      BY <1>3, <1>4, <1>5
    <3> QED BY <2>4, <3>1, PathsOfVisits
  <2>5. ASSUME NEW f \in DictFields(proto), NEW g \in DictFields(Inner(proto, f)),
               p = TwoPath(f, g)
        PROVE  \E v : IsVisit(proto, proto, v) /\ v.call \in DeletedCalls /\ v.path = p
    <3>1. IsVisit(proto, proto, InnerListVisit(f, g, Inner(Inner(proto, f), g)))
      BY <1>3, <1>4
    <3> QED BY <2>5, <3>1, PathsOfVisits
  <2> QED BY <1>7, <2>1, <2>2, <2>3, <2>4, <2>5 DEF IsRowPath, Lists
<1>8. ASSUME NEW v, IsVisit(proto, proto, v), v.call \in DeletedCalls, v.path = p
      PROVE  IsRowPath(proto, p)
  <2>1. CASE v = MainVisit(proto)
    BY <1>8, <2>1, PathsOfVisits DEF IsRowPath
  <2>2. ASSUME NEW f \in StrFields(proto), v = StrListVisit(f) PROVE IsRowPath(proto, p)
    BY <1>8, <2>2, PathsOfVisits DEF IsRowPath, Lists
  <2>3. ASSUME NEW f \in DictFields(proto), IsListVisit(proto, f, Inner(proto, f), v)
        PROVE  IsRowPath(proto, p)
    <3>1. CASE v = DictListVisit(f, Inner(proto, f))
      BY <1>8, <3>1, PathsOfVisits DEF IsRowPath, Lists
    <3>2. ASSUME NEW g \in DictFields(Inner(proto, f)),
                 v = InnerListVisit(f, g, Inner(Inner(proto, f), g))
          PROVE  IsRowPath(proto, p)
      <4>1. p = TwoPath(f, g) /\ g \in Lists(Inner(proto, f))
        BY <1>8, <3>2, PathsOfVisits DEF Lists
      <4> QED BY <4>1 DEF IsRowPath
    <3>3. ASSUME NEW i, v = DictVisit(f, i, Inner(proto, f)) PROVE IsRowPath(proto, p)
      BY <1>8, <3>3, PathsOfVisits
    <3>4. ASSUME NEW i, NEW s \in StrFields(Inner(proto, f)), v = DictStrVisit(f, s, i)
          PROVE  IsRowPath(proto, p)
      <4>1. p = TwoPath(f, s) /\ s \in Lists(Inner(proto, f))
        BY <1>8, <3>4, PathsOfVisits DEF Lists
      <4> QED BY <4>1 DEF IsRowPath
    <3>5. ASSUME NEW i, NEW g, IsInnerVisit(DictIn(proto, f, i), f, i, g, Inner(Inner(proto, f), g), v)
          PROVE  IsRowPath(proto, p)
      BY <1>8, <3>5, InnerVisitsAreNotDeleted
    <3> QED BY <1>4, <2>3, <3>1, <3>2, <3>3, <3>4, <3>5
  <2> QED BY <1>3, <1>8, <2>1, <2>2, <2>3
<1> QED BY <1>7, <1>8

IsRowTable(main, proto, t) == \E p : IsRowPath(proto, p) /\ t = TableOf(main, p)

LEMMA RowTables ==
  ASSUME NEW main, NEW proto, Layers(proto)
  PROVE  /\ \A t : t \in DeletedTables(main, proto) <=> IsRowTable(main, proto, t)
         /\ \A t : IsRowTable(main, proto, t) => t \in Tables(main, proto)
         /\ \A p : IsRowPath(proto, p) => p \in PathsOf(proto)
<1>1. \A p : IsRowPath(proto, p) <=>
           \E v \in ToSet(Walk(proto, proto)) : v.call \in DeletedCalls /\ v.path = p
  BY RowPaths
<1>2. \A t : t \in DeletedTables(main, proto) <=>
        \E v \in ToSet(Walk(proto, proto)) : v.call \in DeletedCalls /\ t = TableOf(main, v.path)
  BY DEF DeletedTables, VisitsOf, DeletedCalls
<1>3. \A p : p \in PathsOf(proto) <=> \E v \in ToSet(Walk(proto, proto)) : v.path = p
  BY DEF PathsOf
<1>4. \A t : t \in Tables(main, proto) <=> \E p \in PathsOf(proto) : t = TableOf(main, p)
  BY DEF Tables
<1> QED BY <1>1, <1>2, <1>3, <1>4 DEF IsRowTable

\* Each part of an item has a table of its own.
LEMMA TablesApart ==
  ASSUME NEW main, NEW proto, Layers(proto), OwnTables(main, proto),
         NEW p, IsRowPath(proto, p), NEW q, IsRowPath(proto, q),
         TableOf(main, p) = TableOf(main, q)
  PROVE  p = q
BY RowTables DEF OwnTables

LEMMA RowsInTables ==
  ASSUME NEW main, NEW proto, Layers(proto), NEW id, NEW item,
         NEW r, IsItemRow(main, proto, id, item, r)
  PROVE  r = Row(r[1], r[2]) /\ r[1] \in DeletedTables(main, proto)
<1>1. \A t, d : Row(t, d)[1] = t /\ Row(t, d)[2] = d
  BY DEF Row
<1>2. \A t : t \in DeletedTables(main, proto) <=> IsRowTable(main, proto, t)
  BY RowTables
<1>3. ASSUME NEW d, r = Row(ItemTable(main), d)
      PROVE  r = Row(r[1], r[2]) /\ r[1] \in DeletedTables(main, proto)
  <2>1. IsRowPath(proto, NoPath)
    BY DEF IsRowPath
  <2> QED BY <1>1, <1>2, <1>3, <2>1, TablesOfPaths DEF IsRowTable
<1>4. ASSUME NEW f \in Lists(proto), NEW d, r = Row(ListTable(main, f), d)
      PROVE  r = Row(r[1], r[2]) /\ r[1] \in DeletedTables(main, proto)
  <2>1. IsRowPath(proto, OnePath(f))
    BY DEF IsRowPath
  <2> QED BY <1>1, <1>2, <1>4, <2>1, TablesOfPaths DEF IsRowTable
<1>5. ASSUME NEW f \in DictFields(proto), NEW g \in Lists(Inner(proto, f)), NEW d,
             r = Row(InnerTable(main, f, g), d)
      PROVE  r = Row(r[1], r[2]) /\ r[1] \in DeletedTables(main, proto)
  <2>1. IsRowPath(proto, TwoPath(f, g))
    BY DEF IsRowPath
  <2> QED BY <1>1, <1>2, <1>5, <2>1, TablesOfPaths DEF IsRowTable
<1> QED BY <1>3, <1>4, <1>5 DEF IsItemRow, IsDictRow, Lists

-----------------------------------------------------------------------------
(* What a GET reads of an item is what was written of it.                  *)

\* An item is kept: the rows it has in its tables are those that were made
\* of it.
Keeps(db, main, proto, id, item) ==
  \A r : r[1] \in DeletedTables(main, proto) =>
    (r \in db /\ r[2]["id"] = Str(id) <=> IsItemRow(main, proto, id, item, r))

\* The id of an item is the one it is kept under.
HasId(proto, id, item) ==
  "id" \in DOMAIN proto => "id" \in SimpleFields(proto) /\ item["id"] = Str(id)

LEMMA EmptyPath ==
  ASSUME NEW T, NEW main \in Seq(T)
  PROVE  ItemTable(main) = main
<1>1. ASSUME NEW ss \in Seq(Seq(STRING)), Len(ss) = 0 PROVE FlattenSeq(ss) = <<>>
  <2>1. FlattenSeq(ss) = ss
    BY <1>1 DEF FlattenSeq
  <2> QED BY <1>1, <2>1
<1>2. [i \in DOMAIN <<>> |-> Words[<<>>[i]]] = <<>>
  <2>1. ASSUME NEW e, e = [i \in 1 .. 0 |-> e[i]] PROVE e = <<>>
    <3>1. e \in [1 .. 0 -> STRING]
      BY <2>1
    <3>2. e \in Seq(STRING) /\ Len(e) = 0
      BY <3>1
    <3> QED BY <3>2
  <2>2. DOMAIN <<>> = 1 .. 0
    OBVIOUS
  <2> DEFINE e == [i \in DOMAIN <<>> |-> Words[<<>>[i]]]
  <2>3. DOMAIN e = 1 .. 0 /\ e = [i \in DOMAIN e |-> e[i]]
    BY <2>2
  <2> HIDE DEF e
  <2>4. e = <<>>
    BY <2>1, <2>3
  <2> QED BY <2>4 DEF e
<1>3. ForEach(<<>>, LAMBDA f : Words[f]) = FlattenSeq([i \in DOMAIN <<>> |-> Words[<<>>[i]]])
  BY DEF ForEach
<1>4. FlattenSeq(<<>>) = <<>>
  <2>1. PICK ss : ss = <<>>
    OBVIOUS
  <2>2. ss \in Seq(Seq(STRING)) /\ Len(ss) = 0
    BY <2>1
  <2> QED BY <1>1, <2>1, <2>2
<1>5. ItemTable(main) = main \o <<>>
  BY <1>2, <1>3, <1>4 DEF ItemTable, TableOf
<1> QED BY <1>5

\* A layer has no column of the names that the walker adds.
LEMMA LayerNames ==
  ASSUME NEW proto, Layer(proto)
  PROVE  /\ \A f \in Lists(proto) : f \notin {"id"} \cup PositionNames
         /\ \A f \in DictFields(proto) : "id" \notin DOMAIN Inner(proto, f)
BY DEF Layer, Lists, StrFields, DictFields, ListFields

\* The tables of all rows of an item.
LEMMA TableOfRow ==
  ASSUME NEW main, NEW proto, NEW id, NEW item, NEW r
  PROVE  IsItemRow(main, proto, id, item, r) <=>
           \/ r = Row(TableOf(main, NoPath), MainRow(proto, id, item))
           \/ \E f \in StrFields(proto) : \E k \in DOMAIN Data(item[f]) :
                r = Row(TableOf(main, OnePath(f)), StrRow(id, f, item, k))
           \/ \E f \in DictFields(proto) : \E i \in DOMAIN Data(item[f]) :
                \/ r = Row(TableOf(main, OnePath(f)),
                           DictRow(Inner(proto, f), id, DictIn(item, f, i), i))
                \/ \E s \in StrFields(Inner(proto, f)) :
                     \E k \in DOMAIN Data(DictIn(item, f, i)[s]) :
                       r = Row(TableOf(main, TwoPath(f, s)),
                               DictStrRow(id, s, DictIn(item, f, i), i, k))
                \/ \E g \in DictFields(Inner(proto, f)) :
                     \E j \in DOMAIN InnerListOf(DictIn(item, f, i), g) :
                       r = Row(TableOf(main, TwoPath(f, g)),
                               InnerRow(Inner(Inner(proto, f), g), id,
                                        DictIn(DictIn(item, f, i), g, j), i, j))
<1>1. /\ ItemTable(main) = TableOf(main, NoPath)
      /\ \A f : ListTable(main, f) = TableOf(main, OnePath(f))
      /\ \A f, g : InnerTable(main, f, g) = TableOf(main, TwoPath(f, g))
  BY TablesOfPaths
<1> QED BY <1>1 DEF IsItemRow, IsDictRow

LEMMA FoundRows ==
  ASSUME NEW main, NEW proto, Layers(proto), NEW id, NEW item,
         NEW db, Keeps(db, main, proto, id, item), NEW p, IsRowPath(proto, p)
  PROVE  \A c : c \in Found(db, TableOf(main, p), id) <=>
           \E r : IsItemRow(main, proto, id, item, r) /\ r[1] = TableOf(main, p) /\ c = r[2]
<1>1. TableOf(main, p) \in DeletedTables(main, proto)
  BY RowTables DEF IsRowTable
<1>2. \A r : r \in RowsIn(db, TableOf(main, p), id) <=>
        r \in db /\ r[1] = TableOf(main, p) /\ r[2]["id"] = Str(id)
  BY DEF RowsIn
<1>3. \A r : r \in RowsIn(db, TableOf(main, p), id) <=>
        IsItemRow(main, proto, id, item, r) /\ r[1] = TableOf(main, p)
  BY <1>1, <1>2 DEF Keeps
<1>4. \A c : c \in Found(db, TableOf(main, p), id) <=>
        \E r : r \in RowsIn(db, TableOf(main, p), id) /\ c = r[2]
  BY DEF Found
<1> QED BY <1>3, <1>4

\* The rows of an item at a path.
PathRow(proto, id, item, p, c) ==
  \/ p = NoPath /\ c = MainRow(proto, id, item)
  \/ \E f \in StrFields(proto) : \E k \in DOMAIN Data(item[f]) :
       p = OnePath(f) /\ c = StrRow(id, f, item, k)
  \/ \E f \in DictFields(proto) : \E i \in DOMAIN Data(item[f]) :
       \/ p = OnePath(f) /\ c = DictRow(Inner(proto, f), id, DictIn(item, f, i), i)
       \/ \E s \in StrFields(Inner(proto, f)) :
            \E k \in DOMAIN Data(DictIn(item, f, i)[s]) :
              p = TwoPath(f, s) /\ c = DictStrRow(id, s, DictIn(item, f, i), i, k)
       \/ \E g \in DictFields(Inner(proto, f)) :
            \E j \in DOMAIN InnerListOf(DictIn(item, f, i), g) :
              /\ p = TwoPath(f, g)
              /\ c = InnerRow(Inner(Inner(proto, f), g), id,
                              DictIn(DictIn(item, f, i), g, j), i, j)

LEMMA RowsOfPath ==
  ASSUME NEW main, NEW proto, Layers(proto), OwnTables(main, proto), NEW id, NEW item,
         NEW p, IsRowPath(proto, p), NEW r, IsItemRow(main, proto, id, item, r),
         r[1] = TableOf(main, p)
  PROVE  PathRow(proto, id, item, p, r[2])
<1>1. ASSUME NEW q, IsRowPath(proto, q), NEW d, r = Row(TableOf(main, q), d)
      PROVE  p = q /\ r[2] = d
  <2>1. r[1] = TableOf(main, q) /\ r[2] = d
    BY <1>1 DEF Row
  <2> QED BY <1>1, <2>1, TablesApart
<1>2. /\ IsRowPath(proto, NoPath)
      /\ \A f \in StrFields(proto) : IsRowPath(proto, OnePath(f))
      /\ \A f \in DictFields(proto) :
           /\ IsRowPath(proto, OnePath(f))
           /\ \A g \in StrFields(Inner(proto, f)) : IsRowPath(proto, TwoPath(f, g))
           /\ \A g \in DictFields(Inner(proto, f)) : IsRowPath(proto, TwoPath(f, g))
  BY DEF IsRowPath, Lists
<1>3. CASE r = Row(TableOf(main, NoPath), MainRow(proto, id, item))
  BY <1>1, <1>2, <1>3 DEF PathRow
<1>4. ASSUME NEW f \in StrFields(proto), NEW k \in DOMAIN Data(item[f]),
             r = Row(TableOf(main, OnePath(f)), StrRow(id, f, item, k))
      PROVE  p = OnePath(f) /\ r[2] = StrRow(id, f, item, k)
  BY <1>1, <1>2, <1>4
<1>5. ASSUME NEW f \in DictFields(proto), NEW i \in DOMAIN Data(item[f])
      PROVE  /\ \A d : r = Row(TableOf(main, OnePath(f)), d) => p = OnePath(f) /\ r[2] = d
             /\ \A s \in StrFields(Inner(proto, f)) :
                  \A d : r = Row(TableOf(main, TwoPath(f, s)), d) => p = TwoPath(f, s) /\ r[2] = d
             /\ \A g \in DictFields(Inner(proto, f)) :
                  \A d : r = Row(TableOf(main, TwoPath(f, g)), d) => p = TwoPath(f, g) /\ r[2] = d
  BY <1>1, <1>2
<1> QED BY <1>3, <1>4, <1>5, TableOfRow DEF PathRow

LEMMA MainFound ==
  ASSUME NEW main, NEW proto, Layers(proto), OwnTables(main, proto), NEW id, NEW item,
         NEW db, Keeps(db, main, proto, id, item)
  PROVE  \A c : c \in Found(db, ItemTable(main), id) <=> c = MainRow(proto, id, item)
<1>1. IsRowPath(proto, NoPath) /\ ItemTable(main) = TableOf(main, NoPath)
  BY TablesOfPaths DEF IsRowPath
<1>2. ASSUME NEW r, IsItemRow(main, proto, id, item, r), r[1] = TableOf(main, NoPath)
      PROVE  r[2] = MainRow(proto, id, item)
  <2>1. PathRow(proto, id, item, NoPath, r[2])
    BY <1>1, <1>2, RowsOfPath
  <2> QED BY <2>1, PathsDiffer DEF PathRow
<1>3. PICK r : r = Row(TableOf(main, NoPath), MainRow(proto, id, item))
  OBVIOUS
<1>4. r[1] = TableOf(main, NoPath) /\ r[2] = MainRow(proto, id, item)
      /\ IsItemRow(main, proto, id, item, r)
  BY <1>3, TableOfRow DEF Row
<1> QED BY <1>1, <1>2, <1>4, FoundRows

LEMMA StrListFound ==
  ASSUME NEW main, NEW proto, Layers(proto), OwnTables(main, proto), NEW id, NEW item,
         NEW db, Keeps(db, main, proto, id, item), NEW f \in StrFields(proto)
  PROVE  \A c : c \in Found(db, ListTable(main, f), id) <=>
           \E k \in DOMAIN Data(item[f]) : c = StrRow(id, f, item, k)
<1>1. IsRowPath(proto, OnePath(f)) /\ ListTable(main, f) = TableOf(main, OnePath(f))
  BY TablesOfPaths DEF IsRowPath, Lists
<1>2. ASSUME NEW r, IsItemRow(main, proto, id, item, r), r[1] = TableOf(main, OnePath(f))
      PROVE  \E k \in DOMAIN Data(item[f]) : r[2] = StrRow(id, f, item, k)
  <2>1. \A h \in DictFields(proto) : OnePath(h) # OnePath(f)
    BY FieldsAreDisjoint, PathsDiffer
  <2>2. NoPath # OnePath(f) /\ \A h, g : TwoPath(h, g) # OnePath(f)
    BY PathsDiffer
  <2>3. PICK h \in StrFields(proto) : \E k \in DOMAIN Data(item[h]) :
          OnePath(f) = OnePath(h) /\ r[2] = StrRow(id, h, item, k)
    <3>1. PathRow(proto, id, item, OnePath(f), r[2])
      BY <1>1, <1>2, RowsOfPath
    <3> QED BY <2>1, <2>2, <3>1 DEF PathRow
  <2>4. h = f
    BY <2>3, PathsDiffer
  <2> QED BY <2>3, <2>4
<1>3. ASSUME NEW k \in DOMAIN Data(item[f])
      PROVE  \E r : /\ IsItemRow(main, proto, id, item, r) /\ r[1] = TableOf(main, OnePath(f))
                    /\ StrRow(id, f, item, k) = r[2]
  <2>1. PICK r : r = Row(TableOf(main, OnePath(f)), StrRow(id, f, item, k))
    OBVIOUS
  <2>2. r[1] = TableOf(main, OnePath(f)) /\ r[2] = StrRow(id, f, item, k)
        /\ IsItemRow(main, proto, id, item, r)
    BY <2>1, TableOfRow DEF Row
  <2> QED BY <2>2
<1> QED BY <1>1, <1>2, <1>3, FoundRows

LEMMA DictListFound ==
  ASSUME NEW main, NEW proto, Layers(proto), OwnTables(main, proto), NEW id, NEW item,
         NEW db, Keeps(db, main, proto, id, item), NEW f \in DictFields(proto)
  PROVE  \A c : c \in Found(db, ListTable(main, f), id) <=>
           \E i \in DOMAIN Data(item[f]) :
             c = DictRow(Inner(proto, f), id, DictIn(item, f, i), i)
<1>1. IsRowPath(proto, OnePath(f)) /\ ListTable(main, f) = TableOf(main, OnePath(f))
  BY TablesOfPaths DEF IsRowPath, Lists
<1>2. ASSUME NEW r, IsItemRow(main, proto, id, item, r), r[1] = TableOf(main, OnePath(f))
      PROVE  \E i \in DOMAIN Data(item[f]) :
               r[2] = DictRow(Inner(proto, f), id, DictIn(item, f, i), i)
  <2>1. \A h \in StrFields(proto) : OnePath(h) # OnePath(f)
    BY FieldsAreDisjoint, PathsDiffer
  <2>2. NoPath # OnePath(f) /\ \A h, g : TwoPath(h, g) # OnePath(f)
    BY PathsDiffer
  <2>3. PICK h \in DictFields(proto) : \E i \in DOMAIN Data(item[h]) :
          /\ OnePath(f) = OnePath(h)
          /\ r[2] = DictRow(Inner(proto, h), id, DictIn(item, h, i), i)
    <3>1. PathRow(proto, id, item, OnePath(f), r[2])
      BY <1>1, <1>2, RowsOfPath
    <3> QED BY <2>1, <2>2, <3>1 DEF PathRow
  <2>4. h = f
    BY <2>3, PathsDiffer
  <2> QED BY <2>3, <2>4
<1>3. ASSUME NEW i \in DOMAIN Data(item[f])
      PROVE  \E r : /\ IsItemRow(main, proto, id, item, r) /\ r[1] = TableOf(main, OnePath(f))
                    /\ DictRow(Inner(proto, f), id, DictIn(item, f, i), i) = r[2]
  <2>1. PICK r : r = Row(TableOf(main, OnePath(f)),
                         DictRow(Inner(proto, f), id, DictIn(item, f, i), i))
    OBVIOUS
  <2>2. r[1] = TableOf(main, OnePath(f))
        /\ r[2] = DictRow(Inner(proto, f), id, DictIn(item, f, i), i)
    BY <2>1 DEF Row
  <2>3. IsItemRow(main, proto, id, item, r)
    BY <2>1, TableOfRow
  <2> QED BY <2>2, <2>3
<1> QED BY <1>1, <1>2, <1>3, FoundRows

LEMMA DictStrsFound ==
  ASSUME NEW main, NEW proto, Layers(proto), OwnTables(main, proto), NEW id, NEW item,
         NEW db, Keeps(db, main, proto, id, item), NEW f \in DictFields(proto),
         NEW s \in StrFields(Inner(proto, f))
  PROVE  \A c : c \in Found(db, InnerTable(main, f, s), id) <=>
           \E i \in DOMAIN Data(item[f]) : \E k \in DOMAIN Data(DictIn(item, f, i)[s]) :
             c = DictStrRow(id, s, DictIn(item, f, i), i, k)
<1>1. IsRowPath(proto, TwoPath(f, s)) /\ InnerTable(main, f, s) = TableOf(main, TwoPath(f, s))
  BY TablesOfPaths DEF IsRowPath, Lists
<1>2. ASSUME NEW r, IsItemRow(main, proto, id, item, r), r[1] = TableOf(main, TwoPath(f, s))
      PROVE  \E i \in DOMAIN Data(item[f]) : \E k \in DOMAIN Data(DictIn(item, f, i)[s]) :
               r[2] = DictStrRow(id, s, DictIn(item, f, i), i, k)
  <2>1. ASSUME NEW h \in DictFields(proto), NEW g \in DictFields(Inner(proto, h))
        PROVE  TwoPath(h, g) # TwoPath(f, s)
    BY FieldsAreDisjoint, PathsDiffer
  <2>2. NoPath # TwoPath(f, s) /\ \A h : OnePath(h) # TwoPath(f, s)
    BY PathsDiffer
  <2>3. PICK h \in DictFields(proto) : \E i \in DOMAIN Data(item[h]) :
          \E t \in StrFields(Inner(proto, h)) : \E k \in DOMAIN Data(DictIn(item, h, i)[t]) :
            /\ TwoPath(f, s) = TwoPath(h, t)
            /\ r[2] = DictStrRow(id, t, DictIn(item, h, i), i, k)
    <3>1. PathRow(proto, id, item, TwoPath(f, s), r[2])
      BY <1>1, <1>2, RowsOfPath
    <3> QED BY <2>1, <2>2, <3>1 DEF PathRow
  <2>4. h = f /\ \A t : TwoPath(f, s) = TwoPath(h, t) => t = s
    BY <2>3, PathsDiffer
  <2> QED BY <2>3, <2>4
<1>3. ASSUME NEW i \in DOMAIN Data(item[f]), NEW k \in DOMAIN Data(DictIn(item, f, i)[s])
      PROVE  \E r : /\ IsItemRow(main, proto, id, item, r)
                    /\ r[1] = TableOf(main, TwoPath(f, s))
                    /\ DictStrRow(id, s, DictIn(item, f, i), i, k) = r[2]
  <2>1. PICK r : r = Row(TableOf(main, TwoPath(f, s)),
                         DictStrRow(id, s, DictIn(item, f, i), i, k))
    OBVIOUS
  <2>2. r[1] = TableOf(main, TwoPath(f, s)) /\ r[2] = DictStrRow(id, s, DictIn(item, f, i), i, k)
    BY <2>1 DEF Row
  <2>3. IsItemRow(main, proto, id, item, r)
    BY <2>1, TableOfRow
  <2> QED BY <2>2, <2>3
<1> QED BY <1>1, <1>2, <1>3, FoundRows

LEMMA InnersFound ==
  ASSUME NEW main, NEW proto, Layers(proto), OwnTables(main, proto), NEW id, NEW item,
         NEW db, Keeps(db, main, proto, id, item), NEW f \in DictFields(proto),
         NEW g \in DictFields(Inner(proto, f))
  PROVE  \A c : c \in Found(db, InnerTable(main, f, g), id) <=>
           \E i \in DOMAIN Data(item[f]) : \E j \in DOMAIN InnerListOf(DictIn(item, f, i), g) :
             c = InnerRow(Inner(Inner(proto, f), g), id, DictIn(DictIn(item, f, i), g, j), i, j)
<1>1. IsRowPath(proto, TwoPath(f, g)) /\ InnerTable(main, f, g) = TableOf(main, TwoPath(f, g))
  BY TablesOfPaths DEF IsRowPath, Lists
<1>2. ASSUME NEW r, IsItemRow(main, proto, id, item, r), r[1] = TableOf(main, TwoPath(f, g))
      PROVE  \E i \in DOMAIN Data(item[f]) :
               \E j \in DOMAIN InnerListOf(DictIn(item, f, i), g) :
                 r[2] = InnerRow(Inner(Inner(proto, f), g), id,
                                 DictIn(DictIn(item, f, i), g, j), i, j)
  <2>1. ASSUME NEW h \in DictFields(proto), NEW s \in StrFields(Inner(proto, h))
        PROVE  TwoPath(h, s) # TwoPath(f, g)
    BY FieldsAreDisjoint, PathsDiffer
  <2>2. NoPath # TwoPath(f, g) /\ \A h : OnePath(h) # TwoPath(f, g)
    BY PathsDiffer
  <2>3. PICK h \in DictFields(proto) : \E i \in DOMAIN Data(item[h]) :
          \E t \in DictFields(Inner(proto, h)) :
            \E j \in DOMAIN InnerListOf(DictIn(item, h, i), t) :
              /\ TwoPath(f, g) = TwoPath(h, t)
              /\ r[2] = InnerRow(Inner(Inner(proto, h), t), id,
                                 DictIn(DictIn(item, h, i), t, j), i, j)
    <3>1. PathRow(proto, id, item, TwoPath(f, g), r[2])
      BY <1>1, <1>2, RowsOfPath
    <3> QED BY <2>1, <2>2, <3>1 DEF PathRow
  <2>4. h = f /\ \A t : TwoPath(f, g) = TwoPath(h, t) => t = g
    BY <2>3, PathsDiffer
  <2> QED BY <2>3, <2>4
<1>3. ASSUME NEW i \in DOMAIN Data(item[f]),
             NEW j \in DOMAIN InnerListOf(DictIn(item, f, i), g),
             NEW c, c = InnerRow(Inner(Inner(proto, f), g), id,
                                 DictIn(DictIn(item, f, i), g, j), i, j)
      PROVE  \E r : /\ IsItemRow(main, proto, id, item, r)
                    /\ r[1] = TableOf(main, TwoPath(f, g)) /\ c = r[2]
  <2>1. PICK r : r = Row(TableOf(main, TwoPath(f, g)), c)
    OBVIOUS
  <2>2. r[1] = TableOf(main, TwoPath(f, g)) /\ r[2] = c
    BY <2>1 DEF Row
  <2>3. IsItemRow(main, proto, id, item, r)
    BY <1>3, <2>1, TableOfRow
  <2> QED BY <2>2, <2>3
<1> QED BY <1>1, <1>2, <1>3, FoundRows

\* A function in three parts.
Agrees(a, d)   == \A f \in DOMAIN a : a[f] = d[f]
OnFields(d, S) == [f \in S |-> d[f]]

LEMMA ThreeParts ==
  ASSUME NEW d, NEW a, NEW b, NEW c, Agrees(a, d), Agrees(b, d), Agrees(c, d)
  PROVE  Merged(a, Merged(b, c)) = OnFields(d, DOMAIN a \cup DOMAIN b \cup DOMAIN c)
<1>1. PICK e : e = Merged(b, c)
  OBVIOUS
<1>2. DOMAIN e = DOMAIN b \cup DOMAIN c /\ \A f \in DOMAIN e : e[f] = d[f]
  BY <1>1 DEF Merged, Agrees
<1>3. Merged(a, e) = [f \in DOMAIN a \cup DOMAIN e |-> IF f \in DOMAIN a THEN a[f] ELSE e[f]]
  BY DEF Merged
<1>4. Merged(a, e) = [f \in DOMAIN a \cup DOMAIN b \cup DOMAIN c |-> d[f]]
  BY <1>2, <1>3 DEF Agrees
<1> QED BY <1>1, <1>4 DEF OnFields

\* An item in its tables, the innermost of which hold no lists.
Flat(proto) ==
  \A f \in DictFields(proto) : \A g \in DictFields(Inner(proto, f)) :
    StrFields(Inner(Inner(proto, f), g)) = {}

InTables(db, main, proto, id, item) ==
  /\ Layers(proto) /\ OwnTables(main, proto) /\ Flat(proto)
  /\ Formed(item, proto) /\ HasId(proto, id, item)
  /\ Keeps(db, main, proto, id, item)

LEMMA NumbersDiffer ==
  ASSUME NEW i \in Nat, NEW k \in Nat, Num(i - 1) = Num(k - 1)
  PROVE  i = k
<1>1. i - 1 = k - 1
  BY Tagged
<1> QED BY <1>1

\* The dicts of a list, and what is known of them.
LEMMA DictsInTables ==
  ASSUME NEW db, NEW main, NEW proto, NEW id, NEW item, InTables(db, main, proto, id, item),
         NEW f \in DictFields(proto)
  PROVE  /\ Listed(item[f]) /\ DOMAIN Data(item[f]) \subseteq Nat
         /\ InnerLayer(Inner(proto, f))
         /\ DOMAIN Inner(proto, f) \cap ({"id"} \cup PositionNames) = {}
         /\ \A i \in DOMAIN Data(item[f]) :
              /\ Data(item[f])[i] = Dict(DictIn(item, f, i))
              /\ FormedInner(DictIn(item, f, i), Inner(proto, f))
<1>1. Shaped(item, proto) /\ Layer(proto) /\ InnerLayer(Inner(proto, f))
  BY DEF InTables, Formed, Layers
<1>2. Listed(item[f]) /\ \A i \in DOMAIN Data(item[f]) :
        Data(item[f])[i] = Dict(DictIn(item, f, i))
  BY <1>1 DEF Shaped
<1>3. \A i \in DOMAIN Data(item[f]) : FormedInner(DictIn(item, f, i), Inner(proto, f))
  BY DEF InTables, Formed
<1>4. DOMAIN Inner(proto, f) \cap ({"id"} \cup PositionNames) = {}
  <2>1. "id" \notin DOMAIN Inner(proto, f)
    BY <1>1, LayerNames
  <2>2. Layer(Inner(proto, f))
    BY <1>1 DEF InnerLayer
  <2>3. DOMAIN Inner(proto, f) \cap PositionNames = {}
    BY <2>2 DEF Layer
  <2> QED BY <2>1, <2>3
<1>5. DOMAIN Data(item[f]) \subseteq Nat
  BY <1>2 DEF Listed
<1> QED BY <1>1, <1>2, <1>3, <1>4, <1>5

LEMMA DictStrsRead ==
  ASSUME NEW db, NEW main, NEW proto, NEW id, NEW item, InTables(db, main, proto, id, item),
         NEW f \in DictFields(proto), NEW i \in DOMAIN Data(item[f]),
         NEW s \in StrFields(Inner(proto, f))
  PROVE  StrList(OfDict(Found(db, InnerTable(main, f, s), id), i), s) = DictIn(item, f, i)[s]
<1>1. PICK d : d = DictIn(item, f, i)
  OBVIOUS
<1>2. PICK v : v = d[s]
  OBVIOUS
<1>3. PICK found : found = OfDict(Found(db, InnerTable(main, f, s), id), i)
  OBVIOUS
<1>4. /\ Listed(v) /\ i \in Nat /\ s \notin {"id"} \cup PositionNames
      /\ DOMAIN Data(item[f]) \subseteq Nat
  <2>1. FormedInner(d, Inner(proto, f)) /\ DOMAIN Data(item[f]) \subseteq Nat
        /\ InnerLayer(Inner(proto, f))
    BY <1>1, DictsInTables
  <2>2. Listed(d[s])
    BY <2>1 DEF FormedInner, Shaped
  <2>3. s \in Lists(Inner(proto, f)) /\ Layer(Inner(proto, f))
    BY <2>1 DEF Lists, InnerLayer
  <2> QED BY <1>2, <2>1, <2>2, <2>3, LayerNames
<1>5. \A c : c \in Found(db, InnerTable(main, f, s), id) <=>
        \E h \in DOMAIN Data(item[f]) : \E k \in DOMAIN Data(DictIn(item, f, h)[s]) :
          c = DictStrRow(id, s, DictIn(item, f, h), h, k)
  BY DictStrsFound DEF InTables
<1>6. ASSUME NEW e, NEW h, NEW k
      PROVE  /\ DictStrRow(id, s, e, h, k)["dict_list_pos"] = Num(h - 1)
             /\ DictStrRow(id, s, e, h, k)["list_pos"] = Num(k - 1)
             /\ DictStrRow(id, s, e, h, k)[s] = Data(e[s])[k]
  <2>1. s \notin {"id"} \cup PositionNames
    BY <1>4
  <2>2. /\ DictStrRow(id, s, e, h, k)[s] = Data(e[s])[k]
        /\ DictStrRow(id, s, e, h, k)["list_pos"] = Num(k - 1)
        /\ DictStrRow(id, s, e, h, k)["dict_list_pos"] = Num(h - 1)
        /\ DictStrRow(id, s, e, h, k)["id"] = Str(id)
    BY ONLY <2>1, DictStrCells
  <2> QED BY <2>2
<1>7. \A c : c \in found <=>
        c \in Found(db, InnerTable(main, f, s), id) /\ c["dict_list_pos"] = Num(i - 1)
  <2>1. PICK all : all = Found(db, InnerTable(main, f, s), id)
    OBVIOUS
  <2>2. found = {r \in all : r["dict_list_pos"] = Num(i - 1)}
    BY <1>3, <2>1 DEF OfDict
  <2> QED BY <2>1, <2>2
<1>8. \A c : c \in found <=> \E k \in DOMAIN Data(v) : c = DictStrRow(id, s, d, i, k)
  <2>1. ASSUME NEW c \in found PROVE \E k \in DOMAIN Data(v) : c = DictStrRow(id, s, d, i, k)
    <3>1. PICK h \in DOMAIN Data(item[f]) : \E k \in DOMAIN Data(DictIn(item, f, h)[s]) :
            c = DictStrRow(id, s, DictIn(item, f, h), h, k)
      BY <1>5, <1>7
    <3>2. Num(h - 1) = Num(i - 1) /\ h \in Nat
      BY <1>4, <1>6, <1>7, <3>1
    <3>3. h = i
      BY <1>4, <3>2, NumbersDiffer
    <3> QED BY <1>1, <1>2, <3>1, <3>3
  <2>2. ASSUME NEW k \in DOMAIN Data(v) PROVE DictStrRow(id, s, d, i, k) \in found
    BY <1>1, <1>2, <1>5, <1>6, <1>7
  <2> QED BY <2>1, <2>2
<1>9. PICK row : row = [k \in DOMAIN Data(v) |-> DictStrRow(id, s, d, i, k)]
  OBVIOUS
<1>10. StrList(found, s) = v
  <2>1. \A c : c \in found <=> \E k \in DOMAIN Data(v) : c = row[k]
    BY <1>8, <1>9
  <2>2. \A k \in DOMAIN Data(v) : row[k]["list_pos"] = Num(k - 1) /\ row[k][s] = Data(v)[k]
    BY <1>1, <1>2, <1>6, <1>9
  <2> QED BY <1>4, <2>1, <2>2, StringsRead
<1> QED BY <1>1, <1>2, <1>3, <1>10

\* The rows of the dicts in the list g, which is in the i-th dict of list f.
LEMMA InnersFoundIn ==
  ASSUME NEW db, NEW main, NEW proto, NEW id, NEW item, InTables(db, main, proto, id, item),
         NEW f \in DictFields(proto), NEW i \in DOMAIN Data(item[f]),
         NEW d, d = DictIn(item, f, i),
         NEW g \in DictFields(Inner(proto, f)), NEW p, p = Inner(Inner(proto, f), g),
         NEW found, found = OfDict(Found(db, InnerTable(main, f, g), id), i)
  PROVE  \A c : c \in found <=>
           \E j \in DOMAIN Data(d[g]) : c = InnerRow(p, id, DictIn(d, g, j), i, j)
<1>1. /\ i \in Nat /\ DOMAIN Data(item[f]) \subseteq Nat /\ InnerLayer(Inner(proto, f))
      /\ \A h \in DOMAIN Data(item[f]) : FormedInner(DictIn(item, f, h), Inner(proto, f))
  BY DictsInTables
<1>2. DOMAIN p \cap ({"id"} \cup PositionNames) = {}
  <2>1. Layer(Inner(proto, f)) /\ Layer(p)
    BY <1>1 DEF InnerLayer, InnermostLayer
  <2>2. "id" \notin DOMAIN p
    BY <2>1, LayerNames
  <2>3. DOMAIN p \cap PositionNames = {}
    BY <2>1 DEF Layer
  <2> QED BY <2>2, <2>3
<1>3. \A h \in DOMAIN Data(item[f]) :
        InnerListOf(DictIn(item, f, h), g) = Data(DictIn(item, f, h)[g])
  <2>1. g \in DOMAIN Inner(proto, f)
    BY FieldsAreDisjoint
  <2> QED BY <1>1, <2>1 DEF FormedInner, Shaped, InnerListOf
<1>4. \A c : c \in Found(db, InnerTable(main, f, g), id) <=>
        \E h \in DOMAIN Data(item[f]) : \E j \in DOMAIN InnerListOf(DictIn(item, f, h), g) :
          c = InnerRow(p, id, DictIn(DictIn(item, f, h), g, j), h, j)
  BY InnersFound DEF InTables
<1>5. ASSUME NEW e, NEW h, NEW j PROVE InnerRow(p, id, e, h, j)["dict_list_pos"] = Num(h - 1)
  BY ONLY <1>2, InnerCells
<1>6. \A c : c \in found <=>
        c \in Found(db, InnerTable(main, f, g), id) /\ c["dict_list_pos"] = Num(i - 1)
  <2>1. PICK all : all = Found(db, InnerTable(main, f, g), id)
    OBVIOUS
  <2>2. found = {r \in all : r["dict_list_pos"] = Num(i - 1)}
    BY <2>1 DEF OfDict
  <2> QED BY <2>1, <2>2
<1>7. ASSUME NEW c \in found
      PROVE  \E j \in DOMAIN Data(d[g]) : c = InnerRow(p, id, DictIn(d, g, j), i, j)
  <2>1. PICK h \in DOMAIN Data(item[f]) : \E j \in DOMAIN Data(DictIn(item, f, h)[g]) :
          c = InnerRow(p, id, DictIn(DictIn(item, f, h), g, j), h, j)
    BY <1>3, <1>4, <1>6
  <2>2. Num(h - 1) = Num(i - 1) /\ h \in Nat
    BY <1>1, <1>5, <1>6, <2>1
  <2>3. h = i
    BY <1>1, <2>2, NumbersDiffer
  <2> QED BY <2>1, <2>3
<1>8. ASSUME NEW j \in DOMAIN Data(d[g]) PROVE InnerRow(p, id, DictIn(d, g, j), i, j) \in found
  BY <1>3, <1>4, <1>5, <1>6
<1> QED BY <1>7, <1>8

LEMMA InnersRead ==
  ASSUME NEW db, NEW main, NEW proto, NEW id, NEW item, InTables(db, main, proto, id, item),
         NEW f \in DictFields(proto), NEW i \in DOMAIN Data(item[f]),
         NEW d, d = DictIn(item, f, i),
         NEW g \in DictFields(Inner(proto, f)), NEW p, p = Inner(Inner(proto, f), g),
         NEW sorted, sorted = InOrder(OfDict(Found(db, InnerTable(main, f, g), id), i))
  PROVE  List([j \in DOMAIN sorted |-> Dict(Columns(sorted[j], SimpleColumns(p)))]) = d[g]
<1>1. PICK v : v = d[g]
  OBVIOUS
<1>2. PICK found : found = OfDict(Found(db, InnerTable(main, f, g), id), i)
  OBVIOUS
<1>3. /\ FormedInner(d, Inner(proto, f)) /\ InnerLayer(Inner(proto, f))
  BY DictsInTables
<1>4. /\ Listed(v) /\ \A j \in DOMAIN Data(v) :
           Data(v)[j] = Dict(DictIn(d, g, j)) /\ Shaped(DictIn(d, g, j), p)
  BY <1>1, <1>3 DEF FormedInner, Shaped
<1>5. InnermostLayer(p) /\ DOMAIN p \cap ({"id"} \cup PositionNames) = {}
      /\ SimpleFields(p) = DOMAIN p /\ DOMAIN p \subseteq ToSet(FieldNames)
  <2>1. Layer(Inner(proto, f)) /\ InnermostLayer(p) /\ Layer(p) /\ DictFields(p) = {}
    BY <1>3 DEF InnerLayer, InnermostLayer
  <2>2. "id" \notin DOMAIN p
    BY <2>1, LayerNames
  <2>3. DOMAIN p \subseteq ToSet(FieldNames) \ PositionNames
        /\ \A h \in DOMAIN p :
             h \in SimpleFields(p) \/ h \in StrFields(p) \/ h \in DictFields(p)
    BY <2>1 DEF Layer
  <2>4. StrFields(p) = {}
    BY DEF InTables, Flat
  <2>5. SimpleFields(p) \subseteq DOMAIN p
    BY DEF SimpleFields
  <2> QED BY <2>1, <2>2, <2>3, <2>4, <2>5
<1>6. PICK n \in Nat : DOMAIN Data(v) = 1 .. n
  BY <1>4 DEF Listed
<1>7. \A c : c \in found <=>
        \E j \in 1 .. n : c = InnerRow(p, id, DictIn(d, g, j), i, j)
  BY <1>1, <1>2, <1>6, InnersFoundIn
<1>8. ASSUME NEW e, NEW h, NEW j
      PROVE  /\ InnerRow(p, id, e, h, j)["list_pos"] = Num(j - 1)
             /\ \A c \in SimpleFields(p) : InnerRow(p, id, e, h, j)[c] = e[c]
  <2>1. DOMAIN p \cap ({"id"} \cup PositionNames) = {}
    BY <1>5
  <2> QED BY ONLY <2>1, InnerCells
<1>9. PICK row : row = [j \in 1 .. n |-> InnerRow(p, id, DictIn(d, g, j), i, j)]
  OBVIOUS
<1>10. DOMAIN sorted = 1 .. n /\ \A j \in 1 .. n : sorted[j] = row[j]
  <2>1. \A c : c \in found <=> \E j \in 1 .. n : c = row[j]
    BY <1>7, <1>9
  <2>2. \A j \in 1 .. n : row[j]["list_pos"] = Num(j - 1)
    BY <1>8, <1>9
  <2>3. sorted = InOrder(found)
    BY <1>2
  <2>4. DOMAIN InOrder(found) = 1 .. n /\ \A j \in 1 .. n : InOrder(found)[j] = row[j]
    BY <2>1, <2>2, RowsInOrder
  <2> QED BY <2>3, <2>4
<1>11. ASSUME NEW j \in 1 .. n
       PROVE  Columns(sorted[j], SimpleColumns(p)) = DictIn(d, g, j)
  <2>1. PICK e : e = DictIn(d, g, j)
    OBVIOUS
  <2>2. e = [c \in DOMAIN p |-> e[c]]
    BY <1>4, <1>6, <2>1 DEF Shaped, IsFunction
  <2>3. ToSet(SimpleColumns(p)) = DOMAIN p
    BY <1>5, FieldsInOrder
  <2>4. PICK r : r = sorted[j]
    OBVIOUS
  <2>5. \A c \in DOMAIN p : r[c] = e[c]
    BY <1>5, <1>8, <1>9, <1>10, <2>1, <2>4
  <2>6. Columns(r, SimpleColumns(p)) = [c \in DOMAIN p |-> r[c]]
    BY <2>3 DEF Columns
  <2>7. [c \in DOMAIN p |-> r[c]] = [c \in DOMAIN p |-> e[c]]
    BY ONLY <2>5
  <2>8. Columns(r, SimpleColumns(p)) = e
    BY ONLY <2>2, <2>6, <2>7
  <2> QED BY ONLY <2>1, <2>4, <2>8
<1>12. [j \in DOMAIN sorted |-> Dict(Columns(sorted[j], SimpleColumns(p)))]
         = [j \in 1 .. n |-> Data(v)[j]]
  <2>1. \A j \in 1 .. n : Dict(Columns(sorted[j], SimpleColumns(p))) = Data(v)[j]
    BY <1>4, <1>6, <1>11
  <2> QED BY <1>10, <2>1
<1> QED BY <1>1, <1>4, <1>6, <1>12 DEF Listed

LEMMA DictRead ==
  ASSUME NEW db, NEW main, NEW proto, NEW id, NEW item, InTables(db, main, proto, id, item),
         NEW f \in DictFields(proto), NEW i \in DOMAIN Data(item[f]),
         NEW p, p = Inner(proto, f),
         NEW row, row = DictRow(p, id, DictIn(item, f, i), i)
  PROVE  ReadDict(db, main, id, f, i, row, p) = Data(item[f])[i]
<1>1. PICK d : d = DictIn(item, f, i)
  OBVIOUS
<1>2. /\ FormedInner(d, p) /\ Layer(p) /\ Data(item[f])[i] = Dict(d)
      /\ DOMAIN p \cap ({"id"} \cup PositionNames) = {}
  BY <1>1, DictsInTables DEF InnerLayer
<1>3. /\ d = [c \in DOMAIN p |-> d[c]]
      /\ DOMAIN p = SimpleFields(p) \cup StrFields(p) \cup DictFields(p)
  <2>1. d = [c \in DOMAIN p |-> d[c]]
    BY <1>2 DEF FormedInner, Shaped, IsFunction
  <2> QED BY <1>2, <2>1 DEF Layer, SimpleFields, StrFields, DictFields, ListFields
<1>4. /\ ToSet(SimpleColumns(p)) = SimpleFields(p) /\ ToSet(StrLists(p)) = StrFields(p)
      /\ ToSet(DictLists(p)) = DictFields(p)
  BY <1>2, FieldsInOrder DEF Layer
<1> DEFINE Sub(g) == OfDict(Found(db, TableOf(main, <<f, g>>), id), i)
           InnerList(g) == List([j \in DOMAIN InOrder(Sub(g)) |->
             Dict(Columns(InOrder(Sub(g))[j], SimpleColumns(Inner(p, g))))])
           a == Columns(row, SimpleColumns(p))
           b == [s \in ToSet(StrLists(p)) |-> StrList(Sub(s), s)]
           c == [g \in ToSet(DictLists(p)) |-> InnerList(g)]
<1>5. ReadDict(db, main, id, f, i, row, p) = Dict(Merged(a, Merged(b, c)))
  BY DEF ReadDict
<1>6. /\ DOMAIN a = SimpleFields(p) /\ \A g \in DOMAIN a : a[g] = d[g]
  <2>1. \A g \in SimpleFields(p) : row[g] = d[g]
    <3>1. DOMAIN p \cap ({"id"} \cup PositionNames) = {} /\ row = DictRow(p, id, d, i)
      BY <1>1, <1>2
    <3> QED BY ONLY <3>1, DictCells
  <2>2. a = [g \in SimpleFields(p) |-> row[g]]
    BY <1>4 DEF Columns
  <2> HIDE DEF a
  <2> QED BY <2>1, <2>2
<1>7. ASSUME NEW s \in StrFields(p) PROVE StrList(Sub(s), s) = d[s]
  BY <1>1, DictStrsRead DEF InnerTable
<1>8. ASSUME NEW g \in DictFields(p) PROVE InnerList(g) = d[g]
  <2>1. PICK sorted : sorted = InOrder(Sub(g))
    OBVIOUS
  <2>2. List([j \in DOMAIN sorted |-> Dict(Columns(sorted[j], SimpleColumns(Inner(p, g))))]) = d[g]
    <3>1. sorted = InOrder(OfDict(Found(db, InnerTable(main, f, g), id), i))
      BY <2>1 DEF InnerTable
    <3> QED BY <1>1, <3>1, InnersRead
  <2> QED BY <2>1, <2>2
<1>9. DOMAIN b = StrFields(p) /\ \A g \in DOMAIN b : b[g] = d[g]
  BY <1>4, <1>7
<1>10. DOMAIN c = DictFields(p) /\ \A g \in DOMAIN c : c[g] = d[g]
  <2> HIDE DEF InnerList
  <2> QED BY <1>4, <1>8
<1>11. Merged(a, Merged(b, c)) = d
  <2> HIDE DEF a, b, c
  <2>1. Agrees(a, d) /\ Agrees(b, d) /\ Agrees(c, d)
    BY <1>6, <1>9, <1>10 DEF Agrees
  <2>3. Merged(a, Merged(b, c)) = OnFields(d, DOMAIN a \cup DOMAIN b \cup DOMAIN c)
    BY <2>1, ThreeParts
  <2>2. DOMAIN a \cup DOMAIN b \cup DOMAIN c = DOMAIN p
    BY <1>3, <1>6, <1>9, <1>10
  <2> QED BY <1>3, <2>2, <2>3 DEF OnFields
<1> HIDE DEF a, b, c
<1> QED BY <1>2, <1>5, <1>11

LEMMA DictListRead ==
  ASSUME NEW db, NEW main, NEW proto, NEW id, NEW item, InTables(db, main, proto, id, item),
         NEW f \in DictFields(proto)
  PROVE  ReadDictList(db, main, id, f, Inner(proto, f)) = item[f]
<1>1. PICK p : p = Inner(proto, f)
  OBVIOUS
<1>2. PICK v : v = item[f]
  OBVIOUS
<1>3. Listed(v) /\ DOMAIN p \cap ({"id"} \cup PositionNames) = {}
  BY <1>1, <1>2, DictsInTables
<1>4. PICK n \in Nat : DOMAIN Data(v) = 1 .. n
  BY <1>3 DEF Listed
<1>5. PICK row : row = [i \in 1 .. n |-> DictRow(p, id, DictIn(item, f, i), i)]
  OBVIOUS
<1>6. PICK sorted : sorted = InOrder(Found(db, ListTable(main, f), id))
  OBVIOUS
<1>7. DOMAIN sorted = 1 .. n /\ \A i \in 1 .. n : sorted[i] = row[i]
  <2>1. PICK found : found = Found(db, ListTable(main, f), id)
    OBVIOUS
  <2>2. \A c : c \in found <=> \E i \in 1 .. n : c = DictRow(p, id, DictIn(item, f, i), i)
    BY <1>1, <1>2, <1>4, <2>1, DictListFound DEF InTables
  <2>3. ASSUME NEW e, NEW i PROVE DictRow(p, id, e, i)["list_pos"] = Num(i - 1)
    <3>1. DOMAIN p \cap ({"id"} \cup PositionNames) = {}
      BY <1>3
    <3> QED BY ONLY <3>1, DictCells
  <2>4. \A c : c \in found <=> \E i \in 1 .. n : c = row[i]
    BY <1>5, <2>2
  <2>5. \A i \in 1 .. n : row[i]["list_pos"] = Num(i - 1)
    BY <1>5, <2>3
  <2>6. DOMAIN InOrder(found) = 1 .. n /\ \A i \in 1 .. n : InOrder(found)[i] = row[i]
    BY <2>4, <2>5, RowsInOrder
  <2> QED BY <1>6, <2>1, <2>6
<1>8. ASSUME NEW i \in 1 .. n
      PROVE  ReadDict(db, main, id, f, i, sorted[i], p) = Data(v)[i]
  <2>1. sorted[i] = DictRow(p, id, DictIn(item, f, i), i) /\ i \in DOMAIN Data(item[f])
    BY <1>2, <1>4, <1>5, <1>7
  <2> QED BY <1>1, <1>2, <2>1, DictRead
<1>9. ReadDictList(db, main, id, f, p)
        = List([i \in DOMAIN sorted |-> ReadDict(db, main, id, f, i, sorted[i], p)])
  BY <1>6 DEF ReadDictList, ListTable
<1>10. [i \in DOMAIN sorted |-> ReadDict(db, main, id, f, i, sorted[i], p)]
         = [i \in 1 .. n |-> Data(v)[i]]
  BY <1>7, <1>8
<1> QED BY <1>1, <1>2, <1>3, <1>4, <1>9, <1>10 DEF Listed

LEMMA StrListRead ==
  ASSUME NEW db, NEW main, NEW proto, NEW id, NEW item, InTables(db, main, proto, id, item),
         NEW f \in StrFields(proto)
  PROVE  StrList(Found(db, ListTable(main, f), id), f) = item[f]
<1>1. PICK v : v = item[f]
  OBVIOUS
<1>2. Listed(v) /\ f \notin {"id"} \cup PositionNames
  <2>1. Shaped(item, proto) /\ Layer(proto) /\ f \in Lists(proto)
    BY DEF InTables, Formed, Layers, Lists
  <2>2. Listed(item[f])
    BY <2>1 DEF Shaped
  <2> QED BY <1>1, <2>1, <2>2, LayerNames
<1>3. PICK found : found = Found(db, ListTable(main, f), id)
  OBVIOUS
<1>4. \A c : c \in found <=> \E k \in DOMAIN Data(v) : c = StrRow(id, f, item, k)
  BY <1>1, <1>3, StrListFound DEF InTables
<1>5. ASSUME NEW k
      PROVE  StrRow(id, f, item, k)[f] = Data(v)[k] /\ StrRow(id, f, item, k)["list_pos"] = Num(k - 1)
  <2>1. f \notin {"id"} \cup PositionNames
    BY <1>2
  <2> QED BY ONLY <1>1, <2>1, StrCells
<1>6. PICK row : row = [k \in DOMAIN Data(v) |-> StrRow(id, f, item, k)]
  OBVIOUS
<1>7. /\ \A c : c \in found <=> \E k \in DOMAIN Data(v) : c = row[k]
      /\ \A k \in DOMAIN Data(v) : row[k]["list_pos"] = Num(k - 1) /\ row[k][f] = Data(v)[k]
  BY <1>4, <1>5, <1>6
<1>8. StrList(found, f) = v
  BY <1>2, <1>7, StringsRead
<1> QED BY <1>1, <1>3, <1>8

\* What is read of an item is what is kept of it.
LEMMA ItemRead ==
  ASSUME NEW db, NEW main, NEW proto, NEW id, NEW item, InTables(db, main, proto, id, item),
         ItemTable(main) = main, NEW wanted
  PROVE  /\ Found(db, main, id) = {MainRow(proto, id, item)}
         /\ ReadWalker(db, main, proto, id, wanted)
              = OnFields(item, {f \in DOMAIN proto : wanted = {} \/ f \in wanted})
<1>1. PICK found : found = Found(db, main, id)
  OBVIOUS
<1>2. found = {MainRow(proto, id, item)}
  BY <1>1, MainFound DEF InTables
<1>3. PICK row : row = CHOOSE r \in found : TRUE
  OBVIOUS
<1>4. \A c \in SimpleFields(proto) : row[c] = item[c]
  <2>1. row = MainRow(proto, id, item)
    BY <1>2, <1>3
  <2> QED BY <2>1, MainCells
<1>5. /\ ToSet(SimpleColumns(proto)) = SimpleFields(proto)
      /\ ToSet(StrLists(proto)) = StrFields(proto) /\ ToSet(DictLists(proto)) = DictFields(proto)
      /\ DOMAIN proto = SimpleFields(proto) \cup StrFields(proto) \cup DictFields(proto)
  <2>1. Layer(proto)
    BY DEF InTables, Layers
  <2>2. DOMAIN proto = SimpleFields(proto) \cup StrFields(proto) \cup DictFields(proto)
    BY <2>1 DEF Layer, SimpleFields, StrFields, DictFields, ListFields
  <2> QED BY <2>1, <2>2, FieldsInOrder DEF Layer
<1> DEFINE Oks(names) == {f \in ToSet(names) : wanted = {} \/ f \in wanted}
           a == [c \in Oks(SimpleColumns(proto)) |-> row[c]]
           b == [f \in Oks(StrLists(proto)) |-> StrList(Found(db, TableOf(main, <<f>>), id), f)]
           c == [f \in Oks(DictLists(proto)) |->
                   ReadDictList(db, main, id, f, Inner(proto, f))]
<1>6. ReadWalker(db, main, proto, id, wanted) = Merged(a, Merged(b, c))
  BY <1>1, <1>3 DEF ReadWalker
<1>7. Agrees(a, item)
  BY <1>4, <1>5 DEF Agrees
<1>8. Agrees(b, item)
  <2>1. ASSUME NEW f \in StrFields(proto)
        PROVE  StrList(Found(db, TableOf(main, <<f>>), id), f) = item[f]
    BY StrListRead DEF ListTable
  <2> QED BY <1>5, <2>1 DEF Agrees
<1>9. Agrees(c, item)
  BY <1>5, DictListRead DEF Agrees
<1>10. DOMAIN a \cup DOMAIN b \cup DOMAIN c = {f \in DOMAIN proto : wanted = {} \/ f \in wanted}
  BY <1>5
<1> HIDE DEF a, b, c
<1>11. Merged(a, Merged(b, c)) = OnFields(item, DOMAIN a \cup DOMAIN b \cup DOMAIN c)
  BY <1>7, <1>8, <1>9, ThreeParts
<1> QED BY <1>1, <1>2, <1>6, <1>10, <1>11

LEMMA WholeItemRead ==
  ASSUME NEW db, NEW main, NEW proto, NEW id, NEW item, InTables(db, main, proto, id, item),
         ItemTable(main) = main
  PROVE  Exists(db, main, id) /\ ReadWalker(db, main, proto, id, {}) = item
<1>1. Found(db, main, id) = {MainRow(proto, id, item)}
      /\ ReadWalker(db, main, proto, id, {}) = OnFields(item, DOMAIN proto)
  BY ItemRead
<1>2. item = [f \in DOMAIN proto |-> item[f]]
  BY DEF InTables, Formed, Shaped, IsFunction
<1> QED BY <1>1, <1>2 DEF Exists, OnFields

-----------------------------------------------------------------------------
(* Changing the rows of an item.                                           *)

LEMMA RowHasId ==
  ASSUME NEW main, NEW proto, Layers(proto), NEW id, NEW item, HasId(proto, id, item),
         NEW r, IsItemRow(main, proto, id, item, r)
  PROVE  r[2]["id"] = Str(id)
<1>1. Layer(proto) /\ \A f \in DictFields(proto) :
        /\ Layer(Inner(proto, f))
        /\ \A g \in DictFields(Inner(proto, f)) : Layer(Inner(Inner(proto, f), g))
  BY DEF Layers, InnerLayer, InnermostLayer
<1>2. \A t, d : Row(t, d)[2] = d
  BY DEF Row
<1>3. MainRow(proto, id, item)["id"] = Str(id)
  <2>1. CASE "id" \in SimpleFields(proto)
    <3>1. "id" \in DOMAIN proto
      BY <2>1 DEF SimpleFields
    <3> QED BY <2>1, <3>1, MainCells DEF HasId
  <2>2. CASE "id" \notin SimpleFields(proto)
    BY <2>2, MainCells
  <2> QED BY <2>1, <2>2
<1>4. ASSUME NEW f \in StrFields(proto), NEW k PROVE StrRow(id, f, item, k)["id"] = Str(id)
  <2>1. f \notin {"id"} \cup PositionNames
    BY <1>1, LayerNames DEF Lists
  <2> QED BY ONLY <2>1, StrCells
<1>5. ASSUME NEW f \in DictFields(proto), NEW d, NEW i
      PROVE  DictRow(Inner(proto, f), id, d, i)["id"] = Str(id)
  <2>1. DOMAIN Inner(proto, f) \cap ({"id"} \cup PositionNames) = {}
    BY <1>1, LayerNames DEF Layer
  <2> QED BY ONLY <2>1, DictCells
<1>6. ASSUME NEW f \in DictFields(proto), NEW s \in StrFields(Inner(proto, f)),
             NEW d, NEW i, NEW k
      PROVE  DictStrRow(id, s, d, i, k)["id"] = Str(id)
  <2>1. s \notin {"id"} \cup PositionNames
    BY <1>1, LayerNames DEF Lists
  <2> QED BY ONLY <2>1, DictStrCells
<1>7. ASSUME NEW f \in DictFields(proto), NEW g \in DictFields(Inner(proto, f)),
             NEW d, NEW i, NEW j
      PROVE  InnerRow(Inner(Inner(proto, f), g), id, d, i, j)["id"] = Str(id)
  <2>1. PICK p : p = Inner(proto, f)
    OBVIOUS
  <2>2. Layer(p) /\ g \in DictFields(p) /\ Layer(Inner(p, g))
    BY <1>1, <2>1
  <2>3. "id" \notin DOMAIN Inner(p, g)
    BY <2>2, LayerNames
  <2>4. DOMAIN Inner(p, g) \cap PositionNames = {}
    BY <2>2 DEF Layer
  <2>5. DOMAIN Inner(Inner(proto, f), g) \cap ({"id"} \cup PositionNames) = {}
    BY <2>1, <2>3, <2>4
  <2> QED BY ONLY <2>5, InnerCells
<1>8. ASSUME NEW f \in DictFields(proto), NEW i,
             IsDictRow(main, f, Inner(proto, f), id, DictIn(item, f, i), i, r)
      PROVE  r[2]["id"] = Str(id)
  BY <1>2, <1>5, <1>6, <1>7, <1>8 DEF IsDictRow
<1> QED BY <1>2, <1>3, <1>4, <1>8 DEF IsItemRow

\* A part of what is stored under an id: the item, a subitem or a file.
IsPart(db, main, proto, id, item) ==
  Formed(item, proto) /\ HasId(proto, id, item) /\ Keeps(db, main, proto, id, item)

LEMMA PartWritten ==
  ASSUME NEW main, NEW proto, Layers(proto), NEW id, NEW item, Formed(item, proto),
         HasId(proto, id, item), NEW db,
         \A r : r[1] \in DeletedTables(main, proto) /\ r[2]["id"] = Str(id) =>
           (r \in db <=> r \in WriteWalker(main, proto, id, item))
  PROVE  IsPart(db, main, proto, id, item)
<1>1. \A r : r \in WriteWalker(main, proto, id, item) <=> IsItemRow(main, proto, id, item, r)
  BY FormedCanBeWalked, WalkerRows
<1>2. \A r : IsItemRow(main, proto, id, item, r) => r[2]["id"] = Str(id)
  BY RowHasId
<1> QED BY <1>1, <1>2 DEF IsPart, Keeps

LEMMA PartUntouched ==
  ASSUME NEW main, NEW proto, NEW id, NEW item, NEW old, IsPart(old, main, proto, id, item),
         NEW db,
         \A r : r[1] \in DeletedTables(main, proto) /\ r[2]["id"] = Str(id) =>
           (r \in db <=> r \in old)
  PROVE  IsPart(db, main, proto, id, item)
BY DEF IsPart, Keeps

\* The rows that are written are those of one id and of the tables that a
\* DELETE looks at.
LEMMA WrittenRows ==
  ASSUME NEW main, NEW proto, Layers(proto), NEW id, NEW item, Formed(item, proto),
         HasId(proto, id, item), NEW r \in WriteWalker(main, proto, id, item)
  PROVE  r[2]["id"] = Str(id) /\ r[1] \in DeletedTables(main, proto)
<1>1. IsItemRow(main, proto, id, item, r)
  BY FormedCanBeWalked, WalkerRows
<1> QED BY <1>1, RowHasId, RowsInTables

LEMMA FormedAlike ==
  ASSUME NEW proto, NEW d, Formed(d, proto), NEW e, IsFunction(e), DOMAIN e = DOMAIN d,
         \A f \in Lists(proto) : e[f] = d[f]
  PROVE  Formed(e, proto)
<1>1. \A f \in StrFields(proto) \cup DictFields(proto) : e[f] = d[f]
  BY DEF Lists
<1>2. \A f \in DictFields(proto) : \A k : DictIn(e, f, k) = DictIn(d, f, k)
  BY <1>1 DEF DictIn
<1>3. Shaped(e, proto)
  BY <1>1, <1>2 DEF Formed, Shaped
<1> QED BY <1>1, <1>2, <1>3 DEF Formed

\* The main row is of the simple fields, the others of the lists.
LEMMA RowsAlike ==
  ASSUME NEW main, NEW proto, Layers(proto), OwnTables(main, proto), NEW id, NEW d, NEW e,
         \A f \in Lists(proto) : e[f] = d[f], NEW r
  PROVE  IsItemRow(main, proto, id, e, r) <=>
           \/ r = Row(ItemTable(main), MainRow(proto, id, e))
           \/ IsItemRow(main, proto, id, d, r) /\ r[1] # ItemTable(main)
<1>1. \A f \in StrFields(proto) \cup DictFields(proto) : e[f] = d[f]
  BY DEF Lists
<1>2. \A f \in DictFields(proto) : \A k : DictIn(e, f, k) = DictIn(d, f, k)
  BY <1>1 DEF DictIn
<1>3. \A f \in StrFields(proto) : \A k : StrRow(id, f, e, k) = StrRow(id, f, d, k)
  BY <1>1 DEF StrRow
<1> DEFINE Of(x) ==
      \/ \E f \in StrFields(proto) : \E k \in DOMAIN Data(x[f]) :
           r = Row(ListTable(main, f), StrRow(id, f, x, k))
      \/ \E f \in DictFields(proto) : \E i \in DOMAIN Data(x[f]) :
           IsDictRow(main, f, Inner(proto, f), id, DictIn(x, f, i), i, r)
<1>4. Of(e) <=> Of(d)
  BY <1>1, <1>2, <1>3
<1>5. \A x : IsItemRow(main, proto, id, x, r) <=>
               r = Row(ItemTable(main), MainRow(proto, id, x)) \/ Of(x)
  BY DEF IsItemRow
<1>6. Row(ItemTable(main), MainRow(proto, id, d))[1] = ItemTable(main)
  BY DEF Row
<1>7. ASSUME Of(d) PROVE r[1] # ItemTable(main)
  <2>1. IsItemRow(main, proto, id, d, r)
    BY <1>5, <1>7
  <2>2. ItemTable(main) = TableOf(main, NoPath)
    BY TablesOfPaths
  <2>3. ASSUME NEW p, IsRowPath(proto, p), p # NoPath, NEW c, r = Row(TableOf(main, p), c)
        PROVE  r[1] # ItemTable(main)
    <3>1. r[1] = TableOf(main, p)
      BY <2>3 DEF Row
    <3>2. IsRowPath(proto, NoPath)
      BY DEF IsRowPath
    <3> QED BY <2>2, <2>3, <3>1, <3>2, TablesApart
  <2>4. ASSUME NEW f \in Lists(proto), NEW c, r = Row(ListTable(main, f), c)
        PROVE  r[1] # ItemTable(main)
    <3>1. IsRowPath(proto, OnePath(f)) /\ OnePath(f) # NoPath
      BY PathsDiffer DEF IsRowPath
    <3> QED BY <2>3, <2>4, <3>1, TablesOfPaths
  <2>5. ASSUME NEW f \in DictFields(proto), NEW g \in Lists(Inner(proto, f)), NEW c,
               r = Row(InnerTable(main, f, g), c)
        PROVE  r[1] # ItemTable(main)
    <3>1. IsRowPath(proto, TwoPath(f, g)) /\ TwoPath(f, g) # NoPath
      BY PathsDiffer DEF IsRowPath
    <3> QED BY <2>3, <2>5, <3>1, TablesOfPaths
  <2>6. CASE \E f \in StrFields(proto) : \E k \in DOMAIN Data(d[f]) :
               r = Row(ListTable(main, f), StrRow(id, f, d, k))
    BY <2>4, <2>6 DEF Lists
  <2>7. CASE \E f \in DictFields(proto) : \E i \in DOMAIN Data(d[f]) :
               IsDictRow(main, f, Inner(proto, f), id, DictIn(d, f, i), i, r)
    BY <2>4, <2>5, <2>7 DEF Lists, IsDictRow
  <2> QED BY <1>7, <2>6, <2>7
<1> HIDE DEF Of
<1> QED BY <1>4, <1>5, <1>6, <1>7

-----------------------------------------------------------------------------
(* The tables of a resource type.                                          *)

\* What is taken for granted of a part of a resource type.
PartTables(main, proto) ==
  Layers(proto) /\ OwnTables(main, proto) /\ ItemTable(main) = main

LEMMA ThreeJoined ==
  ASSUME NEW T, NEW a \in Seq(T), NEW w \in Seq(T), NEW b \in Seq(T)
  PROVE  a \o w \o b \in Seq(T)
OBVIOUS

LEMMA TableNames ==
  ASSUME NEW t \in Resources
  PROVE  /\ ItemTable(MainTable(t.name)) = MainTable(t.name)
         /\ \A s \in DOMAIN t.subs \cup DOMAIN t.files :
              ItemTable(SubTable(t.name, s)) = SubTable(t.name, s)
<1>1. /\ t.name \in DOMAIN Words
      /\ \A s \in DOMAIN t.subs \cup DOMAIN t.files : s \in DOMAIN Words
  BY ResourcesAssumption
<1>2. \E T : STRING \subseteq T /\ "" \in T /\ "path" \in T
  <2>1. STRING \subseteq STRING \cup {"", "path"} /\ "" \in STRING \cup {"", "path"}
        /\ "path" \in STRING \cup {"", "path"}
    BY Zenon
  <2> WITNESS STRING \cup {"", "path"}
  <2> QED BY <2>1, Zenon
<1> PICK T : STRING \subseteq T /\ "" \in T /\ "path" \in T
  BY <1>2, Zenon
<1>3. \A n \in DOMAIN Words : Words[n] \in Seq(T)
  <2>1. STRING \subseteq T
    BY Zenon
  <2>2. ASSUME NEW S, S \subseteq T, NEW n, Words[n] \in Seq(S) PROVE Words[n] \in Seq(T)
    BY ONLY <2>2
  <2> QED BY <2>1, <2>2, FieldNamesAssumption, Zenon
<1>4. <<"", "path">> \in Seq(T)
  BY ShortSequences, Zenon
<1>5. ASSUME NEW a \in Seq(T), NEW b \in Seq(T)
      PROVE  a \o <<"", "path">> \o b \in Seq(T)
  BY <1>4, ThreeJoined, Zenon
<1>6. MainTable(t.name) \in Seq(T)
  BY <1>1, <1>3 DEF MainTable
<1>7. ASSUME NEW s \in DOMAIN t.subs \cup DOMAIN t.files PROVE SubTable(t.name, s) \in Seq(T)
  BY <1>1, <1>3, <1>5, Zenon DEF SubTable
<1> QED BY <1>6, <1>7, EmptyPath

LEMMA MainPart ==
  ASSUME NEW t \in Resources
  PROVE  /\ PartTables(MainTable(t.name), t.proto) /\ AllPlain(t.proto)
         /\ ServerFields \subseteq SimpleFields(t.proto)
<1>1. Layers(t.proto) /\ AllPlain(t.proto)
  BY ResourcesAssumption, Prototypes
<1>2. ItemTable(MainTable(t.name)) = MainTable(t.name)
  BY TableNames
<1>3. ServerFields \subseteq SimpleFields(t.proto)
  BY ResourcesAssumption DEF SimpleFields, Simple
<1> QED BY <1>1, <1>2, <1>3, TablesAssumption DEF PartTables

LEMMA SubitemPart ==
  ASSUME NEW t \in Resources, NEW s \in DOMAIN t.subs
  PROVE  /\ PartTables(SubTable(t.name, s), t.subs[s]) /\ AllPlain(t.subs[s])
         /\ DOMAIN t.subs[s] \cap ServerFields = {}
<1>1. Layers(t.subs[s]) /\ AllPlain(t.subs[s]) /\ DOMAIN t.subs[s] \cap ServerFields = {}
  BY ResourcesAssumption, Prototypes
<1>2. ItemTable(SubTable(t.name, s)) = SubTable(t.name, s)
  BY TableNames
<1>3. OwnTables(SubTable(t.name, s), t.subs[s])
  BY TablesAssumption
<1> QED BY <1>1, <1>2, <1>3 DEF PartTables

LEMMA FilePrototype ==
  /\ Layers(FileResourcePrototype) /\ "id" \notin DOMAIN FileResourcePrototype
  /\ DictFields(FileResourcePrototype) = {} /\ StrFields(FileResourcePrototype) = {}
<1>1. PICK p : p = FileResourcePrototype
  OBVIOUS
<1>2. /\ DOMAIN p = {"body", "content_type"} /\ IsFunction(p)
      /\ \E a, b : p["body"] = Str(a) /\ p["content_type"] = Str(b)
  BY <1>1, Zenon DEF FileResourcePrototype, IsFunction
<1>3. \A f \in DOMAIN p : Kind(p[f]) = "str"
  BY <1>2, Tagged
<1>4. DictFields(p) = {} /\ StrFields(p) = {} /\ SimpleFields(p) = DOMAIN p
  BY <1>3 DEF DictFields, StrFields, ListFields, SimpleFields, Simple
<1>5. DOMAIN p \subseteq ToSet(FieldNames) \ PositionNames
  BY <1>2, FieldNamesAssumption DEF PositionNames
<1>6. Layer(p)
  BY <1>2, <1>4, <1>5 DEF Layer
<1>7. "id" \notin DOMAIN p
  BY <1>2
<1> QED BY <1>1, <1>4, <1>6, <1>7 DEF Layers

\* A file has one table.
LEMMA FilePart ==
  ASSUME NEW t \in Resources, NEW f \in DOMAIN t.files,
         NEW main, main = SubTable(t.name, f)
  PROVE  /\ PartTables(main, FileResourcePrototype)
         /\ \A x : x \in DeletedTables(main, FileResourcePrototype) <=> x = main
<1>1. PICK p : p = FileResourcePrototype
  OBVIOUS
<1>2. Layers(p) /\ DictFields(p) = {} /\ StrFields(p) = {} /\ Layer(p)
  BY <1>1, FilePrototype DEF Layers
<1>3. ItemTable(main) = main
  BY TableNames
<1>4. \A q : IsRowPath(p, q) <=> q = NoPath
  BY <1>2 DEF IsRowPath, Lists
<1>5. \A x : x \in DeletedTables(main, p) <=> x = main
  BY <1>2, <1>3, <1>4, RowTables, TablesOfPaths DEF IsRowTable
<1>6. \A q \in PathsOf(p) : q = NoPath
  <2>1. CanWalk(p, p)
    BY <1>2, PrototypesAreFormed, FormedCanBeWalked
  <2>2. \A v \in ToSet(Walk(p, p)) : v = MainVisit(p)
    <3>1. \A v \in ToSet(Walk(p, p)) : IsVisit(p, p, v)
      BY <2>1, WalkVisits
    <3> QED BY <1>2, <3>1, Zenon DEF IsVisit, MainVisit
  <2>3. MainVisit(p).path = NoPath
    BY PathsOfVisits
  <2> QED BY <2>2, <2>3 DEF PathsOf
<1>7. OwnTables(main, p)
  BY <1>6 DEF OwnTables
<1> QED BY <1>1, <1>2, <1>3, <1>5, <1>7 DEF PartTables

MainTables(t)    == DeletedTables(MainTable(t.name), t.proto)
SubTables(t, s)  == DeletedTables(SubTable(t.name, s), t.subs[s])

\* The table of a file.
LEMMA FileTable ==
  ASSUME NEW t \in Resources, NEW f \in DOMAIN t.files
  PROVE  Layers(t.files[f])
         /\ SubTable(t.name, f) \in Tables(SubTable(t.name, f), t.files[f])
<1>1. Layers(t.files[f])
  BY ResourcesAssumption, BlobPrototypes
<1>2. PICK main, p : main = SubTable(t.name, f) /\ p = t.files[f]
  OBVIOUS
<1>3. main = TableOf(main, NoPath)
  BY <1>2, TableNames, TablesOfPaths
<1>4. IsRowTable(main, p, main)
  BY <1>3 DEF IsRowTable, IsRowPath
<1> QED BY <1>1, <1>2, <1>4, RowTables

\* No two parts of a resource type share a table.
LEMMA PartsApart ==
  ASSUME NEW t \in Resources
  PROVE  /\ MainTable(t.name) \in MainTables(t)
         /\ \A s \in DOMAIN t.subs :
              /\ MainTables(t) \cap SubTables(t, s) = {}
              /\ \A u \in DOMAIN t.subs : u # s => SubTables(t, s) \cap SubTables(t, u) = {}
              /\ \A f \in DOMAIN t.files : SubTable(t.name, f) \notin SubTables(t, s)
         /\ \A f \in DOMAIN t.files :
              /\ SubTable(t.name, f) \notin MainTables(t)
              /\ \A g \in DOMAIN t.files : g # f => SubTable(t.name, f) # SubTable(t.name, g)
<1>1. MainTables(t) \subseteq Tables(MainTable(t.name), t.proto)
  BY MainPart, RowTables DEF MainTables, PartTables
<1>2. \A s \in DOMAIN t.subs : SubTables(t, s) \subseteq Tables(SubTable(t.name, s), t.subs[s])
  BY SubitemPart, RowTables DEF SubTables, PartTables
<1>3. MainTable(t.name) \in MainTables(t)
  <2>1. IsRowPath(t.proto, NoPath)
    BY DEF IsRowPath
  <2>2. MainTable(t.name) = TableOf(MainTable(t.name), NoPath)
    BY MainPart, TablesOfPaths DEF PartTables
  <2>3. IsRowTable(MainTable(t.name), t.proto, MainTable(t.name))
    BY <2>1, <2>2 DEF IsRowTable
  <2> QED BY <2>3, MainPart, RowTables DEF MainTables, PartTables
<1>4. ASSUME NEW s \in DOMAIN t.subs
      PROVE  /\ MainTables(t) \cap SubTables(t, s) = {}
             /\ \A u \in DOMAIN t.subs : u # s => SubTables(t, s) \cap SubTables(t, u) = {}
             /\ \A f \in DOMAIN t.files : SubTable(t.name, f) \notin SubTables(t, s)
  <2> DEFINE T(u) == Tables(SubTable(t.name, u), t.subs[u])
  <2>1. /\ T(s) \cap Tables(MainTable(t.name), t.proto) = {}
        /\ \A u \in DOMAIN t.subs \ {s} : T(s) \cap T(u) = {}
        /\ \A f \in DOMAIN t.files :
             T(s) \cap Tables(SubTable(t.name, f), t.files[f]) = {}
    BY TablesAssumption
  <2>2. \A u \in DOMAIN t.subs : SubTables(t, u) \subseteq T(u)
    BY <1>2
  <2>3. \A f \in DOMAIN t.files :
          SubTable(t.name, f) \in Tables(SubTable(t.name, f), t.files[f])
    BY FileTable
  <2> HIDE DEF T
  <2> QED BY <1>1, <2>1, <2>2, <2>3
<1>5. ASSUME NEW f \in DOMAIN t.files
      PROVE  /\ SubTable(t.name, f) \notin MainTables(t)
             /\ \A g \in DOMAIN t.files : g # f => SubTable(t.name, f) # SubTable(t.name, g)
  BY <1>1, TablesAssumption, FileTable
<1> QED BY <1>3, <1>4, <1>5

-----------------------------------------------------------------------------
(* What is kept of an id.                                                  *)

InTableOf(t, state, table) ==
  \/ state = "live" /\ table \in MainTables(t)
  \/ state = "live" /\ \E s \in DOMAIN t.subs : table \in SubTables(t, s)
  \/ state \in {"live", "gone"} /\ \E f \in DOMAIN t.files : table = SubTable(t.name, f)

AllParts(db, t, id, record) ==
  /\ IsPart(db, MainTable(t.name), t.proto, id, record.item)
  /\ DOMAIN record.subs = DOMAIN t.subs
  /\ \A s \in DOMAIN t.subs :
       IsPart(db, SubTable(t.name, s), t.subs[s], id, record.subs[s])
  /\ DOMAIN record.files \subseteq DOMAIN t.files
  /\ \A f \in DOMAIN record.files :
       IsPart(db, SubTable(t.name, f), FileResourcePrototype, id, record.files[f])

Record(state, item, subs, files) ==
  [state |-> state, item |-> item, subs |-> subs, files |-> files]

Kept(db, t, id, record) ==
  /\ record = Record(record.state, record.item, record.subs, record.files)
  /\ record.state \in {"never", "live", "gone"}
  /\ \A r \in db : r[2]["id"] = Str(id) => InTableOf(t, record.state, r[1])
  /\ record.state = "live" => AllParts(db, t, id, record)

\* The rows of other ids are the same.
SameElsewhere(old, db, id) == \A r : r[2]["id"] # Str(id) => (r \in old <=> r \in db)

LEMMA KeptElsewhere ==
  ASSUME NEW t, NEW x, NEW id, x # id, NEW record, NEW old, Kept(old, t, x, record),
         NEW db, SameElsewhere(old, db, id)
  PROVE  Kept(db, t, x, record)
<1>1. \A r : r[2]["id"] = Str(x) => (r \in db <=> r \in old)
  <2>1. Str(x) # Str(id)
    BY Tagged
  <2> QED BY <2>1 DEF SameElsewhere
<1>2. ASSUME NEW main, NEW proto, NEW item, IsPart(old, main, proto, x, item)
      PROVE  IsPart(db, main, proto, x, item)
  BY <1>1, <1>2, PartUntouched
<1>3. AllParts(old, t, x, record) => AllParts(db, t, x, record)
  BY <1>2 DEF AllParts
<1> QED BY <1>1, <1>3 DEF Kept

LEMMA DeletedElsewhere ==
  ASSUME NEW db, NEW tables, NEW id
  PROVE  /\ \A r : r \in DeleteRowsIn(db, tables, id) <=>
                     r \in db /\ ~(r[2]["id"] = Str(id) /\ r[1] \in tables)
         /\ SameElsewhere(db, DeleteRowsIn(db, tables, id), id)
<1>1. \A r : r \in DeleteRowsIn(db, tables, id) <=>
        r \in db /\ ~\E table \in tables : r \in RowsIn(db, table, id)
  BY DEF DeleteRowsIn
<1>2. \A r, table : r \in RowsIn(db, table, id) <=>
        r \in db /\ r[1] = table /\ r[2]["id"] = Str(id)
  BY DEF RowsIn
<1> QED BY <1>1, <1>2 DEF SameElsewhere

LEMMA SameAndSame ==
  ASSUME NEW a, NEW b, NEW c, NEW id, SameElsewhere(a, b, id), SameElsewhere(b, c, id)
  PROVE  SameElsewhere(a, c, id)
BY DEF SameElsewhere

-----------------------------------------------------------------------------
(* A new revision changes the main row.                                    *)

WithRevision(item, v) == [item EXCEPT !["revision"] = v]

LEMMA RevisionIsSimple ==
  ASSUME NEW t \in Resources
  PROVE  /\ {"id", "type", "revision"} \subseteq SimpleFields(t.proto)
         /\ {"id", "type", "revision"} \cap Lists(t.proto) = {}
         /\ {"id", "type", "revision"} \subseteq DOMAIN t.proto
<1>1. {"id", "type", "revision"} \subseteq SimpleFields(t.proto)
  BY MainPart DEF ServerFields
<1>2. \A f \in Lists(t.proto) : f \notin SimpleFields(t.proto)
  BY FieldsAreDisjoint DEF Lists
<1>3. SimpleFields(t.proto) \subseteq DOMAIN t.proto
  BY DEF SimpleFields
<1> QED BY <1>1, <1>2, <1>3

LEMMA MainRowRevised ==
  ASSUME NEW proto, {"id", "revision"} \subseteq SimpleFields(proto), NEW id,
         NEW item, DOMAIN item = DOMAIN proto, NEW v
  PROVE  WithRevision(MainRow(proto, id, item), v)
           = MainRow(proto, id, WithRevision(item, v))
<1>1. PICK S : S = SimpleFields(proto)
  OBVIOUS
<1>2. "revision" \in S /\ "id" \in S /\ S \subseteq DOMAIN item
  <2>1. SimpleFields(proto) \subseteq DOMAIN proto
    BY DEF SimpleFields
  <2> QED BY <1>1, <2>1
<1>3. ASSUME NEW d PROVE MainRow(proto, id, d) = [c \in S |-> d[c]]
  <2>1. PICK a : a = ColumnsOf(proto, d)
    OBVIOUS
  <2>2. a = [c \in S |-> d[c]]
    BY <1>1, <2>1 DEF ColumnsOf
  <2>3. PICK b : b = Own(id)
    OBVIOUS
  <2>4. DOMAIN b = {"id"}
    BY <2>3, Positioned
  <2>5. MainRow(proto, id, d) = Merged(a, b)
    BY <2>1, <2>3 DEF MainRow
  <2>6. Merged(a, b) = [c \in S |-> a[c]]
    BY <1>2, <2>2, <2>4 DEF Merged
  <2> QED BY <2>2, <2>5, <2>6
<1>4. PICK e : e = WithRevision(item, v)
  OBVIOUS
<1>5. DOMAIN e = DOMAIN item /\ \A c \in S : e[c] = IF c = "revision" THEN v ELSE item[c]
  BY <1>2, <1>4 DEF WithRevision
<1>6. WithRevision([c \in S |-> item[c]], v) = [c \in S |-> e[c]]
  BY <1>2, <1>5 DEF WithRevision
<1> QED BY <1>3, <1>4, <1>6

LEMMA RevisedItem ==
  ASSUME NEW t \in Resources, NEW id, NEW item, Formed(item, t.proto),
         HasId(t.proto, id, item), NEW v, NEW e, e = WithRevision(item, v)
  PROVE  /\ Formed(e, t.proto) /\ HasId(t.proto, id, e)
         /\ \A f \in Lists(t.proto) : e[f] = item[f]
<1>1. IsFunction(item) /\ DOMAIN item = DOMAIN t.proto
  BY DEF Formed, Shaped
<1>2. /\ IsFunction(e) /\ DOMAIN e = DOMAIN item
      /\ \A f \in DOMAIN item : f # "revision" => e[f] = item[f]
  BY DEF WithRevision, IsFunction
<1>3. \A f \in Lists(t.proto) : f \in DOMAIN item /\ f # "revision"
  BY <1>1, RevisionIsSimple, FieldsAreDisjoint DEF Lists
<1>4. \A f \in Lists(t.proto) : e[f] = item[f]
  BY <1>2, <1>3
<1>5. HasId(t.proto, id, e)
  BY <1>1, <1>2, RevisionIsSimple DEF HasId
<1> QED BY <1>2, <1>4, <1>5, FormedAlike

LEMMA MainRowsIn ==
  ASSUME NEW main, NEW proto, PartTables(main, proto), NEW id, NEW item,
         NEW db, Keeps(db, main, proto, id, item)
  PROVE  /\ main \in DeletedTables(main, proto)
         /\ \A r : IsItemRow(main, proto, id, item, r) /\ r[1] = main <=>
                     r = Row(main, MainRow(proto, id, item))
         /\ \A r : r \in RowsIn(db, main, id) <=> r = Row(main, MainRow(proto, id, item))
<1>1. Layers(proto) /\ OwnTables(main, proto) /\ main = TableOf(main, NoPath)
      /\ IsRowPath(proto, NoPath) /\ ItemTable(main) = main
  BY TablesOfPaths DEF PartTables, IsRowPath
<1>2. main \in DeletedTables(main, proto)
  BY <1>1, RowTables DEF IsRowTable
<1>3. ASSUME NEW r, IsItemRow(main, proto, id, item, r), r[1] = main
      PROVE  r = Row(main, MainRow(proto, id, item))
  <2>1. PathRow(proto, id, item, NoPath, r[2])
    BY <1>1, <1>3, RowsOfPath
  <2>2. r[2] = MainRow(proto, id, item)
    BY <2>1, PathsDiffer DEF PathRow
  <2>3. r = Row(r[1], r[2])
    BY <1>1, <1>3, RowsInTables
  <2> QED BY <1>3, <2>2, <2>3
<1>4. ASSUME NEW r, r = Row(main, MainRow(proto, id, item))
      PROVE  IsItemRow(main, proto, id, item, r) /\ r[1] = main
  BY <1>1, <1>4 DEF IsItemRow, Row
<1>5. \A r : r \in RowsIn(db, main, id) <=> r \in db /\ r[1] = main /\ r[2]["id"] = Str(id)
  BY DEF RowsIn
<1> QED BY <1>2, <1>3, <1>4, <1>5 DEF Keeps

LEMMA RevisionUpdated ==
  ASSUME type \in Resources, NEW id, NEW record, record.state = "live",
         NEW db, Kept(db, type, id, record), NEW v, v = NewRevision(id),
         NEW new, new = UpdateRevision(db, id)
  PROVE  /\ SameElsewhere(db, new, id)
         /\ Kept(new, type, id,
                 Record("live", WithRevision(record.item, v), record.subs, record.files))
<1>1. PICK item : item = record.item
  OBVIOUS
<1>2. PICK e : e = WithRevision(item, v)
  OBVIOUS
<1>3. PICK main : main = Main
  OBVIOUS
<1>4. PICK proto : proto = type.proto
  OBVIOUS
<1>5. AllParts(db, type, id, record) /\ IsPart(db, main, proto, id, item)
      /\ PartTables(main, proto) /\ MainTables(type) = DeletedTables(main, proto)
      /\ main = MainTable(type.name)
  BY <1>1, <1>3, <1>4, MainPart DEF Kept, AllParts, Main, MainTables
<1>6. /\ Formed(item, proto) /\ HasId(proto, id, item) /\ Keeps(db, main, proto, id, item)
      /\ Layers(proto) /\ OwnTables(main, proto) /\ ItemTable(main) = main
  BY <1>5 DEF IsPart, PartTables
<1>7. /\ Formed(e, proto) /\ HasId(proto, id, e) /\ \A f \in Lists(proto) : e[f] = item[f]
  BY <1>2, <1>4, <1>6, RevisedItem
<1>8. PICK old : old = Row(main, MainRow(proto, id, item))
  OBVIOUS
<1>9. PICK rev : rev = Row(main, MainRow(proto, id, e))
  OBVIOUS
<1>10. /\ \A r : IsItemRow(main, proto, id, item, r) /\ r[1] = main <=> r = old
       /\ \A r : r \in RowsIn(db, main, id) <=> r = old
       /\ main \in DeletedTables(main, proto)
  BY <1>5, <1>6, <1>8, MainRowsIn
<1>11. old \in db /\ old[1] = main /\ old[2]["id"] = Str(id)
  BY <1>10 DEF RowsIn
<1>12. rev[1] = main /\ rev[2]["id"] = Str(id) /\ IsItemRow(main, proto, id, e, rev)
  <2>1. rev[1] = main /\ IsItemRow(main, proto, id, e, rev)
    BY <1>6, <1>9 DEF Row, IsItemRow
  <2> QED BY <1>6, <1>7, <2>1, RowHasId
<1>13. <<old[1], [old[2] EXCEPT !["revision"] = v]>> = rev
  <2>1. old[2] = MainRow(proto, id, item) /\ DOMAIN item = DOMAIN proto
    BY <1>6, <1>8 DEF Row, Formed, Shaped
  <2>2. WithRevision(old[2], v) = MainRow(proto, id, e)
    <3>1. {"id", "revision"} \subseteq SimpleFields(proto)
      BY <1>4, RevisionIsSimple
    <3>2. WithRevision(MainRow(proto, id, item), v)
            = MainRow(proto, id, WithRevision(item, v))
      BY ONLY <2>1, <3>1, MainRowRevised
    <3> QED BY ONLY <1>2, <2>1, <3>2
  <2>3. PICK d : d = [old[2] EXCEPT !["revision"] = v]
    OBVIOUS
  <2>4. d = MainRow(proto, id, e)
    BY <2>2, <2>3 DEF WithRevision
  <2>5. <<old[1], d>> = rev
    BY <1>9, <1>11, <2>4 DEF Row
  <2> QED BY <2>3, <2>5
<1>14. \A r : r \in new <=> (r \in db /\ r # old) \/ r = rev
  <2>1. new = {IF r \in RowsIn(db, main, id)
               THEN <<r[1], [r[2] EXCEPT !["revision"] = v]>> ELSE r : r \in db}
    BY <1>3 DEF UpdateRevision
  <2> DEFINE Put(q) == IF q \in RowsIn(db, main, id)
                      THEN <<q[1], [q[2] EXCEPT !["revision"] = v]>> ELSE q
  <2>2. \A r : r \in new <=> \E q \in db : r = Put(q)
    BY <2>1
  <2>3. \A q \in db : q # old => Put(q) = q
    BY <1>10
  <2>4. Put(old) = rev
    BY <1>10, <1>13
  <2> HIDE DEF Put
  <2> QED BY <1>11, <2>2, <2>3, <2>4
<1>15. SameElsewhere(db, new, id)
  BY <1>11, <1>12, <1>14 DEF SameElsewhere
<1>16. IsPart(new, main, proto, id, e)
  <2>1. \A r : IsItemRow(main, proto, id, e, r) <=>
          r = rev \/ (IsItemRow(main, proto, id, item, r) /\ r[1] # main)
    BY <1>6, <1>7, <1>9, RowsAlike
  <2>2. ASSUME NEW r, r[1] \in DeletedTables(main, proto)
        PROVE  r \in new /\ r[2]["id"] = Str(id) <=> IsItemRow(main, proto, id, e, r)
    <3>1. r \in db /\ r[2]["id"] = Str(id) <=> IsItemRow(main, proto, id, item, r)
      BY <1>6, <2>2 DEF Keeps
    <3> QED BY <1>10, <1>11, <1>12, <1>14, <2>1, <3>1
  <2> QED BY <1>7, <2>2 DEF IsPart, Keeps
<1>17. ASSUME NEW m, NEW p, NEW d, IsPart(db, m, p, id, d), main \notin DeletedTables(m, p)
       PROVE  IsPart(new, m, p, id, d)
  <2>1. \A r : r[1] \in DeletedTables(m, p) /\ r[2]["id"] = Str(id) => (r \in new <=> r \in db)
    BY <1>11, <1>12, <1>14, <1>17
  <2> QED BY <1>17, <2>1, PartUntouched
<1>18. ASSUME NEW s \in DOMAIN type.subs
       PROVE  IsPart(new, SubTable(type.name, s), type.subs[s], id, record.subs[s])
  <2>1. main \notin DeletedTables(SubTable(type.name, s), type.subs[s])
    BY <1>5, PartsApart DEF SubTables
  <2> QED BY <1>5, <1>17, <2>1 DEF AllParts
<1>19. ASSUME NEW f \in DOMAIN record.files
       PROVE  IsPart(new, SubTable(type.name, f), FileResourcePrototype, id, record.files[f])
  <2>1. f \in DOMAIN type.files
    BY <1>5 DEF AllParts
  <2>2. main # SubTable(type.name, f)
    BY <1>5, <2>1, PartsApart
  <2>3. main \notin DeletedTables(SubTable(type.name, f), FileResourcePrototype)
    BY <2>1, <2>2, FilePart
  <2> QED BY <1>5, <1>17, <2>3 DEF AllParts
<1>20. ASSUME NEW r \in new, r[2]["id"] = Str(id) PROVE InTableOf(type, "live", r[1])
  <2>1. CASE r \in db
    BY <1>20, <2>1 DEF Kept
  <2>2. CASE r = rev
    BY <1>5, <1>10, <1>12, <2>2 DEF InTableOf
  <2> QED BY <1>14, <2>1, <2>2
<1>21. PICK rec : rec = Record("live", e, record.subs, record.files)
  OBVIOUS
<1>22. rec.state = "live" /\ rec.item = e /\ rec.subs = record.subs /\ rec.files = record.files
       /\ rec = Record(rec.state, rec.item, rec.subs, rec.files)
  BY <1>21 DEF Record
<1>23. AllParts(new, type, id, rec)
  BY <1>4, <1>5, <1>16, <1>18, <1>19, <1>22 DEF AllParts
<1>24. Kept(new, type, id, rec)
  BY <1>20, <1>22, <1>23 DEF Kept
<1> QED BY <1>1, <1>2, <1>15, <1>21, <1>24

-----------------------------------------------------------------------------
(* Writing a part anew.                                                    *)

\* The rows of an id in some tables are deleted, and others are inserted.
Replaced(db, new, tables, written, id) ==
  \A r : r \in new <=>
    (r \in db /\ ~(r[2]["id"] = Str(id) /\ r[1] \in tables)) \/ r \in written

LEMMA OtherPart ==
  ASSUME NEW db, NEW new, NEW tables, NEW written, NEW id,
         Replaced(db, new, tables, written, id), \A r \in written : r[1] \in tables,
         NEW main, NEW proto, NEW item, IsPart(db, main, proto, id, item),
         \A x \in DeletedTables(main, proto) : x \notin tables
  PROVE  IsPart(new, main, proto, id, item)
<1>1. \A r : r[1] \in DeletedTables(main, proto) /\ r[2]["id"] = Str(id) =>
               (r \in new <=> r \in db)
  BY DEF Replaced
<1> QED BY <1>1, PartUntouched

LEMMA NewPart ==
  ASSUME NEW db, NEW new, NEW main, NEW proto, Layers(proto), NEW id, NEW item,
         Formed(item, proto), HasId(proto, id, item), NEW tables,
         tables = DeletedTables(main, proto), NEW written,
         written = WriteWalker(main, proto, id, item),
         Replaced(db, new, tables, written, id)
  PROVE  /\ IsPart(new, main, proto, id, item)
         /\ \A r \in written : r[2]["id"] = Str(id) /\ r[1] \in tables
         /\ SameElsewhere(db, new, id)
         /\ \A r \in new : r[2]["id"] = Str(id) => r \in db \/ r[1] \in tables
<1>1. \A r \in written : r[2]["id"] = Str(id) /\ r[1] \in tables
  BY WrittenRows
<1>2. \A r : r[1] \in tables /\ r[2]["id"] = Str(id) => (r \in new <=> r \in written)
  BY DEF Replaced
<1>3. IsPart(new, main, proto, id, item)
  BY <1>2, PartWritten
<1>4. SameElsewhere(db, new, id)
  BY <1>1 DEF Replaced, SameElsewhere
<1>5. \A r \in new : r[2]["id"] = Str(id) => r \in db \/ r[1] \in tables
  BY <1>1 DEF Replaced
<1> QED BY <1>1, <1>3, <1>4, <1>5

LEMMA ItemReplaced ==
  ASSUME NEW t \in Resources, NEW id, NEW record, record.state = "live",
         NEW db, Kept(db, t, id, record), NEW item, Formed(item, t.proto),
         HasId(t.proto, id, item), NEW new,
         Replaced(db, new, MainTables(t), WriteWalker(MainTable(t.name), t.proto, id, item), id)
  PROVE  /\ SameElsewhere(db, new, id)
         /\ Kept(new, t, id, Record("live", item, record.subs, record.files))
<1>1. PICK tables : tables = MainTables(t)
  OBVIOUS
<1>2. PICK written : written = WriteWalker(MainTable(t.name), t.proto, id, item)
  OBVIOUS
<1>3. AllParts(db, t, id, record) /\ Replaced(db, new, tables, written, id)
  BY <1>1, <1>2 DEF Kept
<1>4. /\ IsPart(new, MainTable(t.name), t.proto, id, item)
      /\ \A r \in written : r[1] \in tables
      /\ SameElsewhere(db, new, id)
      /\ \A r \in new : r[2]["id"] = Str(id) => r \in db \/ r[1] \in tables
  <2>1. Layers(t.proto) /\ tables = DeletedTables(MainTable(t.name), t.proto)
    BY <1>1, MainPart DEF PartTables, MainTables
  <2> QED BY <1>2, <1>3, <2>1, NewPart
<1>5. ASSUME NEW s \in DOMAIN t.subs
      PROVE  IsPart(new, SubTable(t.name, s), t.subs[s], id, record.subs[s])
  <2>1. \A x \in DeletedTables(SubTable(t.name, s), t.subs[s]) : x \notin tables
    BY <1>1, PartsApart DEF SubTables
  <2>2. IsPart(db, SubTable(t.name, s), t.subs[s], id, record.subs[s])
    BY <1>3 DEF AllParts
  <2> QED BY <1>3, <1>4, <2>1, <2>2, OtherPart
<1>6. ASSUME NEW f \in DOMAIN record.files
      PROVE  IsPart(new, SubTable(t.name, f), FileResourcePrototype, id, record.files[f])
  <2>1. f \in DOMAIN t.files /\ IsPart(db, SubTable(t.name, f), FileResourcePrototype, id, record.files[f])
    BY <1>3 DEF AllParts
  <2>2. \A x \in DeletedTables(SubTable(t.name, f), FileResourcePrototype) : x \notin tables
    BY <1>1, <2>1, PartsApart, FilePart
  <2> QED BY <1>3, <1>4, <2>1, <2>2, OtherPart
<1>7. ASSUME NEW r \in new, r[2]["id"] = Str(id) PROVE InTableOf(t, "live", r[1])
  BY <1>1, <1>4, <1>7 DEF Kept, InTableOf
<1>8. PICK rec : rec = Record("live", item, record.subs, record.files)
  OBVIOUS
<1>9. rec.state = "live" /\ rec.item = item /\ rec.subs = record.subs /\ rec.files = record.files
      /\ rec = Record(rec.state, rec.item, rec.subs, rec.files)
  BY <1>8 DEF Record
<1>10. AllParts(new, t, id, rec)
  BY <1>3, <1>4, <1>5, <1>6, <1>9 DEF AllParts
<1>11. Kept(new, t, id, rec)
  BY <1>7, <1>9, <1>10 DEF Kept
<1> QED BY <1>4, <1>8, <1>11

LEMMA SubitemReplaced ==
  ASSUME NEW t \in Resources, NEW id, NEW record, record.state = "live",
         NEW db, Kept(db, t, id, record), NEW s \in DOMAIN t.subs,
         NEW sub, Formed(sub, t.subs[s]), NEW new,
         Replaced(db, new, SubTables(t, s),
                  WriteWalker(SubTable(t.name, s), t.subs[s], id, sub), id)
  PROVE  /\ SameElsewhere(db, new, id)
         /\ Kept(new, t, id,
                 Record("live", record.item, [record.subs EXCEPT ![s] = sub], record.files))
<1>1. PICK tables : tables = SubTables(t, s)
  OBVIOUS
<1>2. PICK written : written = WriteWalker(SubTable(t.name, s), t.subs[s], id, sub)
  OBVIOUS
<1>3. AllParts(db, t, id, record) /\ Replaced(db, new, tables, written, id)
  BY <1>1, <1>2 DEF Kept
<1>4. /\ IsPart(new, SubTable(t.name, s), t.subs[s], id, sub)
      /\ \A r \in written : r[1] \in tables
      /\ SameElsewhere(db, new, id)
      /\ \A r \in new : r[2]["id"] = Str(id) => r \in db \/ r[1] \in tables
  <2>1. Layers(t.subs[s]) /\ tables = DeletedTables(SubTable(t.name, s), t.subs[s])
    BY <1>1, SubitemPart DEF PartTables, SubTables
  <2>2. "id" \notin DOMAIN t.subs[s]
    BY SubitemPart DEF ServerFields
  <2>3. HasId(t.subs[s], id, sub)
    BY <2>2 DEF HasId
  <2>4. PICK main : main = SubTable(t.name, s)
    OBVIOUS
  <2>5. PICK p : p = t.subs[s]
    OBVIOUS
  <2>6. /\ Layers(p) /\ tables = DeletedTables(main, p)
        /\ Formed(sub, p) /\ HasId(p, id, sub)
        /\ written = WriteWalker(main, p, id, sub) /\ Replaced(db, new, tables, written, id)
    BY <1>2, <1>3, <2>1, <2>3, <2>4, <2>5
  <2>7. /\ IsPart(new, main, p, id, sub)
        /\ \A r \in written : r[2]["id"] = Str(id) /\ r[1] \in tables
        /\ SameElsewhere(db, new, id)
        /\ \A r \in new : r[2]["id"] = Str(id) => r \in db \/ r[1] \in tables
    BY ONLY <2>6, NewPart
  <2> QED BY <2>4, <2>5, <2>7
<1>5. IsPart(new, MainTable(t.name), t.proto, id, record.item)
  <2>1. \A x \in DeletedTables(MainTable(t.name), t.proto) : x \notin tables
    BY <1>1, PartsApart DEF MainTables
  <2>2. IsPart(db, MainTable(t.name), t.proto, id, record.item)
    BY <1>3 DEF AllParts
  <2> QED BY <1>3, <1>4, <2>1, <2>2, OtherPart
<1>6. ASSUME NEW u \in DOMAIN t.subs, u # s
      PROVE  IsPart(new, SubTable(t.name, u), t.subs[u], id, record.subs[u])
  <2>1. \A x \in DeletedTables(SubTable(t.name, u), t.subs[u]) : x \notin tables
    BY <1>1, <1>6, PartsApart DEF SubTables
  <2>2. IsPart(db, SubTable(t.name, u), t.subs[u], id, record.subs[u])
    BY <1>3 DEF AllParts
  <2> QED BY <1>3, <1>4, <2>1, <2>2, OtherPart
<1>7. ASSUME NEW f \in DOMAIN record.files
      PROVE  IsPart(new, SubTable(t.name, f), FileResourcePrototype, id, record.files[f])
  <2>1. f \in DOMAIN t.files /\ IsPart(db, SubTable(t.name, f), FileResourcePrototype, id, record.files[f])
    BY <1>3 DEF AllParts
  <2>2. \A x \in DeletedTables(SubTable(t.name, f), FileResourcePrototype) : x \notin tables
    BY <1>1, <2>1, PartsApart, FilePart
  <2> QED BY <1>3, <1>4, <2>1, <2>2, OtherPart
<1>8. ASSUME NEW r \in new, r[2]["id"] = Str(id) PROVE InTableOf(t, "live", r[1])
  BY <1>1, <1>4, <1>8 DEF Kept, InTableOf
<1>9. PICK subs : subs = [record.subs EXCEPT ![s] = sub]
  OBVIOUS
<1>10. /\ DOMAIN subs = DOMAIN t.subs /\ subs[s] = sub
       /\ \A u \in DOMAIN t.subs : u # s => subs[u] = record.subs[u]
  BY <1>3, <1>9 DEF AllParts
<1>11. PICK rec : rec = Record("live", record.item, subs, record.files)
  OBVIOUS
<1>12. rec.state = "live" /\ rec.item = record.item /\ rec.subs = subs /\ rec.files = record.files
       /\ rec = Record(rec.state, rec.item, rec.subs, rec.files)
  BY <1>11 DEF Record
<1>13. AllParts(new, t, id, rec)
  BY <1>3, <1>4, <1>5, <1>6, <1>7, <1>10, <1>12 DEF AllParts
<1>14. Kept(new, t, id, rec)
  BY <1>8, <1>12, <1>13 DEF Kept
<1> QED BY <1>4, <1>9, <1>11, <1>14

LEMMA FormedFile ==
  ASSUME NEW content, NEW file, file = [body |-> Blob(content), content_type |-> Str(content)],
         NEW id
  PROVE  Formed(file, FileResourcePrototype) /\ HasId(FileResourcePrototype, id, file)
<1>1. PICK p : p = FileResourcePrototype
  OBVIOUS
<1>2. DOMAIN p = {"body", "content_type"}
  BY <1>1 DEF FileResourcePrototype
<1>3. DictFields(p) = {} /\ StrFields(p) = {} /\ "id" \notin DOMAIN p
  BY <1>1, FilePrototype
<1>4. PICK a, b : a = Blob(content) /\ b = Str(content)
  OBVIOUS
<1>5. IsFunction(file) /\ DOMAIN file = DOMAIN p
  <2>1. file = [body |-> a, content_type |-> b]
    BY <1>4
  <2> QED BY <1>2, <2>1 DEF IsFunction
<1>6. Formed(file, p)
  BY <1>3, <1>5 DEF Formed, Shaped
<1> QED BY <1>1, <1>3, <1>6 DEF HasId

LEMMA FileReplaced ==
  ASSUME NEW t \in Resources, NEW id, NEW record, record.state = "live",
         NEW db, Kept(db, t, id, record), NEW f \in DOMAIN t.files,
         NEW content, NEW file,
         file = [body |-> Blob(content), content_type |-> Str(content)], NEW new,
         Replaced(db, new, DeletedTables(SubTable(t.name, f), FileResourcePrototype),
                  WriteWalker(SubTable(t.name, f), FileResourcePrototype, id, file), id)
  PROVE  /\ SameElsewhere(db, new, id)
         /\ Kept(new, t, id,
                 Record("live", record.item, record.subs, Merged(Field(f, file), record.files)))
<1>1. PICK main : main = SubTable(t.name, f)
  OBVIOUS
<1>2. PICK p : p = FileResourcePrototype
  OBVIOUS
<1>3. PICK tables : tables = DeletedTables(main, p)
  OBVIOUS
<1>4. PICK written : written = WriteWalker(main, p, id, file)
  OBVIOUS
<1>5. AllParts(db, t, id, record) /\ Replaced(db, new, tables, written, id)
  BY <1>1, <1>2, <1>3, <1>4 DEF Kept
<1>6. PartTables(main, p) /\ \A x : x \in tables <=> x = main
  BY <1>1, <1>2, <1>3, FilePart
<1>7. /\ IsPart(new, main, p, id, file)
      /\ \A r \in written : r[1] \in tables
      /\ SameElsewhere(db, new, id)
      /\ \A r \in new : r[2]["id"] = Str(id) => r \in db \/ r[1] \in tables
  <2>1. Layers(p) /\ Formed(file, p) /\ HasId(p, id, file)
    BY <1>2, FilePrototype, FormedFile
  <2> QED BY ONLY <1>3, <1>4, <1>5, <2>1, NewPart
<1>8. IsPart(new, MainTable(t.name), t.proto, id, record.item)
  <2>1. \A x \in DeletedTables(MainTable(t.name), t.proto) : x \notin tables
    BY <1>1, <1>6, PartsApart DEF MainTables
  <2>2. IsPart(db, MainTable(t.name), t.proto, id, record.item)
    BY <1>5 DEF AllParts
  <2> QED BY <1>5, <1>7, <2>1, <2>2, OtherPart
<1>9. ASSUME NEW s \in DOMAIN t.subs
      PROVE  IsPart(new, SubTable(t.name, s), t.subs[s], id, record.subs[s])
  <2>1. \A x \in DeletedTables(SubTable(t.name, s), t.subs[s]) : x \notin tables
    BY <1>1, <1>6, PartsApart DEF SubTables
  <2>2. IsPart(db, SubTable(t.name, s), t.subs[s], id, record.subs[s])
    BY <1>5 DEF AllParts
  <2> QED BY <1>5, <1>7, <2>1, <2>2, OtherPart
<1>10. ASSUME NEW g \in DOMAIN record.files, g # f
       PROVE  IsPart(new, SubTable(t.name, g), p, id, record.files[g])
  <2>1. g \in DOMAIN t.files /\ IsPart(db, SubTable(t.name, g), p, id, record.files[g])
    BY <1>2, <1>5 DEF AllParts
  <2>2. SubTable(t.name, g) # main
    BY <1>1, <1>10, <2>1, PartsApart
  <2>3. \A x \in DeletedTables(SubTable(t.name, g), p) : x \notin tables
    BY <1>2, <1>6, <2>1, <2>2, FilePart
  <2> QED BY <1>5, <1>7, <2>1, <2>3, OtherPart
<1>11. ASSUME NEW r \in new, r[2]["id"] = Str(id) PROVE InTableOf(t, "live", r[1])
  BY <1>1, <1>6, <1>7, <1>11 DEF Kept, InTableOf
<1>12. PICK files : files = Merged(Field(f, file), record.files)
  OBVIOUS
<1>13. /\ DOMAIN files = {f} \cup DOMAIN record.files /\ files[f] = file
       /\ \A g \in DOMAIN record.files : g # f => files[g] = record.files[g]
  BY <1>12 DEF Merged, Field
<1>14. PICK rec : rec = Record("live", record.item, record.subs, files)
  OBVIOUS
<1>15. rec.state = "live" /\ rec.item = record.item /\ rec.subs = record.subs /\ rec.files = files
       /\ rec = Record(rec.state, rec.item, rec.subs, rec.files)
  BY <1>14 DEF Record
<1>16. ASSUME NEW g \in DOMAIN files
       PROVE  g \in DOMAIN t.files /\ IsPart(new, SubTable(t.name, g), p, id, files[g])
  <2>1. CASE g = f
    BY <1>1, <1>7, <1>13, <2>1
  <2>2. CASE g # f
    <3>1. g \in DOMAIN record.files /\ files[g] = record.files[g]
      BY <1>13, <1>16, <2>2
    <3>2. g \in DOMAIN t.files
      BY <1>5, <3>1 DEF AllParts
    <3> QED BY <1>10, <2>2, <3>1, <3>2
  <2> QED BY <2>1, <2>2
<1>17. AllParts(new, t, id, rec)
  BY <1>2, <1>5, <1>8, <1>9, <1>15, <1>16 DEF AllParts
<1>18. Kept(new, t, id, rec)
  BY <1>11, <1>15, <1>17 DEF Kept
<1> QED BY <1>7, <1>12, <1>14, <1>18

-----------------------------------------------------------------------------
(* Creating and deleting.                                                  *)

LEMMA PartsCreated ==
  ASSUME NEW t \in Resources, NEW id, NEW db,
         \A r \in db : r[2]["id"] # Str(id),
         NEW item, Formed(item, t.proto), HasId(t.proto, id, item), NEW new,
         \A r : r \in new <=>
           \/ r \in db
           \/ r \in WriteWalker(MainTable(t.name), t.proto, id, item)
           \/ \E s \in DOMAIN t.subs :
                r \in WriteWalker(SubTable(t.name, s), t.subs[s], id, t.subs[s])
  PROVE  /\ SameElsewhere(db, new, id)
         /\ \A r \in new : r[2]["id"] = Str(id) => InTableOf(t, "live", r[1])
         /\ IsPart(new, MainTable(t.name), t.proto, id, item)
         /\ \A s \in DOMAIN t.subs :
              IsPart(new, SubTable(t.name, s), t.subs[s], id, t.subs[s])
<1> DEFINE mine == WriteWalker(MainTable(t.name), t.proto, id, item)
           of(s) == WriteWalker(SubTable(t.name, s), t.subs[s], id, t.subs[s])
<1>1. Layers(t.proto)
  BY MainPart DEF PartTables
<1>2. ASSUME NEW s \in DOMAIN t.subs
      PROVE  /\ Layers(t.subs[s]) /\ Formed(t.subs[s], t.subs[s])
             /\ HasId(t.subs[s], id, t.subs[s])
  <2>1. Layers(t.subs[s]) /\ "id" \notin DOMAIN t.subs[s]
    BY SubitemPart DEF PartTables, ServerFields
  <2> QED BY <2>1, PrototypesAreFormed DEF HasId
<1>3. \A r \in mine : r[2]["id"] = Str(id) /\ r[1] \in MainTables(t)
  BY <1>1, WrittenRows DEF MainTables
<1>4. \A s \in DOMAIN t.subs : \A r \in of(s) : r[2]["id"] = Str(id) /\ r[1] \in SubTables(t, s)
  <2>1. SUFFICES ASSUME NEW s \in DOMAIN t.subs, NEW r \in of(s)
                 PROVE  r[2]["id"] = Str(id) /\ r[1] \in SubTables(t, s)
    OBVIOUS
  <2>2. PICK m, p : m = SubTable(t.name, s) /\ p = t.subs[s]
    OBVIOUS
  <2>3. Layers(p) /\ Formed(p, p) /\ HasId(p, id, p) /\ r \in WriteWalker(m, p, id, p)
    BY <1>2, <2>2
  <2>4. r[2]["id"] = Str(id) /\ r[1] \in DeletedTables(m, p)
    BY ONLY <2>3, WrittenRows
  <2> QED BY <2>2, <2>4 DEF SubTables
<1>5. \A r : r \in new <=> r \in db \/ r \in mine \/ \E s \in DOMAIN t.subs : r \in of(s)
  OBVIOUS
<1>6. IsPart(new, MainTable(t.name), t.proto, id, item)
  <2>1. ASSUME NEW r, r[1] \in MainTables(t), r[2]["id"] = Str(id)
        PROVE  r \in new <=> r \in mine
    <3>1. r \notin db
      BY <2>1
    <3>2. \A s \in DOMAIN t.subs : r \notin of(s)
      BY <1>4, <2>1, PartsApart
    <3> QED BY <1>5, <3>1, <3>2
  <2> QED BY <1>1, <2>1, PartWritten DEF MainTables
<1>7. ASSUME NEW s \in DOMAIN t.subs
      PROVE  IsPart(new, SubTable(t.name, s), t.subs[s], id, t.subs[s])
  <2>1. ASSUME NEW r, r[1] \in SubTables(t, s), r[2]["id"] = Str(id)
        PROVE  r \in new <=> r \in of(s)
    <3>1. r \notin db
      BY <2>1
    <3>2. r \notin mine
      BY <1>3, <2>1, PartsApart
    <3>3. \A u \in DOMAIN t.subs : u # s => r \notin of(u)
      BY <1>4, <2>1, PartsApart
    <3> QED BY <1>5, <3>1, <3>2, <3>3
  <2>2. PICK m, p : m = SubTable(t.name, s) /\ p = t.subs[s]
    OBVIOUS
  <2>3. Layers(p) /\ Formed(p, p) /\ HasId(p, id, p)
    BY <1>2, <2>2
  <2>4. \A r : r[1] \in DeletedTables(m, p) /\ r[2]["id"] = Str(id) =>
                 (r \in new <=> r \in WriteWalker(m, p, id, p))
    BY <2>1, <2>2 DEF SubTables
  <2>5. IsPart(new, m, p, id, p)
    BY ONLY <2>3, <2>4, PartWritten
  <2> QED BY <2>2, <2>5
<1> HIDE DEF mine, of
<1>8. SameElsewhere(db, new, id)
  BY <1>3, <1>4, <1>5 DEF SameElsewhere
<1>9. \A r \in new : r[2]["id"] = Str(id) => InTableOf(t, "live", r[1])
  BY <1>3, <1>4, <1>5 DEF InTableOf
<1> QED BY <1>6, <1>7, <1>8, <1>9

LEMMA ItemCreated ==
  ASSUME NEW t \in Resources, NEW id, NEW record, record.state = "never",
         NEW db, Kept(db, t, id, record),
         NEW item, Formed(item, t.proto), HasId(t.proto, id, item), NEW new,
         \A r : r \in new <=>
           \/ r \in db
           \/ r \in WriteWalker(MainTable(t.name), t.proto, id, item)
           \/ \E s \in DOMAIN t.subs :
                r \in WriteWalker(SubTable(t.name, s), t.subs[s], id, t.subs[s])
  PROVE  /\ SameElsewhere(db, new, id)
         /\ Kept(new, t, id, Record("live", item, t.subs, <<>>))
<1>1. \A r \in db : r[2]["id"] # Str(id)
  BY DEF Kept, InTableOf
<1>2. /\ SameElsewhere(db, new, id)
      /\ \A r \in new : r[2]["id"] = Str(id) => InTableOf(t, "live", r[1])
      /\ IsPart(new, MainTable(t.name), t.proto, id, item)
      /\ \A s \in DOMAIN t.subs :
           IsPart(new, SubTable(t.name, s), t.subs[s], id, t.subs[s])
  BY <1>1, PartsCreated
<1>3. PICK rec : rec = Record("live", item, t.subs, <<>>)
  OBVIOUS
<1>4. rec.state = "live" /\ rec.item = item /\ rec.subs = t.subs /\ DOMAIN rec.files = {}
      /\ rec = Record(rec.state, rec.item, rec.subs, rec.files)
  BY <1>3 DEF Record
<1>5. AllParts(new, t, id, rec)
  BY <1>2, <1>4 DEF AllParts
<1> QED BY <1>2, <1>3, <1>4, <1>5 DEF Kept

LEMMA ItemDeleted ==
  ASSUME NEW t \in Resources, NEW id, NEW record, record.state # "never",
         NEW db, Kept(db, t, id, record), NEW new,
         new = DeleteRowsIn(db, DeletedTables(MainTable(t.name), t.proto)
                 \cup UNION {DeletedTables(SubTable(t.name, s), t.subs[s]) : s \in DOMAIN t.subs},
                 id)
  PROVE  /\ SameElsewhere(db, new, id)
         /\ Kept(new, t, id, Record("gone", <<>>, <<>>, <<>>))
<1> DEFINE tables == DeletedTables(MainTable(t.name), t.proto)
             \cup UNION {DeletedTables(SubTable(t.name, s), t.subs[s]) : s \in DOMAIN t.subs}
<1>1. \A x : x \in tables <=> x \in MainTables(t) \/ \E s \in DOMAIN t.subs : x \in SubTables(t, s)
  BY DEF MainTables, SubTables
<1>2. /\ \A r : r \in new <=> r \in db /\ ~(r[2]["id"] = Str(id) /\ r[1] \in tables)
      /\ SameElsewhere(db, new, id)
  <2> HIDE DEF tables
  <2> QED BY DeletedElsewhere DEF tables
<1> HIDE DEF tables
<1>3. ASSUME NEW r \in new, r[2]["id"] = Str(id) PROVE InTableOf(t, "gone", r[1])
  <2>1. InTableOf(t, record.state, r[1]) /\ r[1] \notin tables
    BY <1>2, <1>3 DEF Kept
  <2> QED BY <1>1, <2>1 DEF InTableOf
<1>4. PICK rec : rec = Record("gone", <<>>, <<>>, <<>>)
  OBVIOUS
<1>5. rec.state = "gone" /\ rec = Record(rec.state, rec.item, rec.subs, rec.files)
  BY <1>4 DEF Record
<1>6. Kept(new, t, id, rec)
  BY <1>3, <1>5 DEF Kept
<1> QED BY <1>2, <1>4, <1>6

-----------------------------------------------------------------------------
(* What is made of bodies.                                                 *)

JsonField(v) ==
  /\ IsValue(v)
  /\ Kind(v) = "list" =>
       /\ Data(v) \in Seq(ToSet(Data(v)))
       /\ \A y \in ToSet(Data(v)) : IsValue(y) /\ (Kind(y) = "dict" => InnerJsonDict(Data(y)))

LEMMA JsonByField ==
  ASSUME NEW d
  PROVE  JsonDict(d) <=> IsFunction(d) /\ \A f \in DOMAIN d : JsonField(d[f])
BY DEF JsonDict, JsonDictIn, JsonField

LEMMA JsonString ==
  ASSUME NEW s
  PROVE  JsonField(Str(s))
<1>1. IsValue(Str(s)) /\ Kind(Str(s)) # "list"
  BY DEF IsValue, JsonKinds, Str, Kind, Data
<1> QED BY <1>1 DEF JsonField

LEMMA JsonMerged ==
  ASSUME NEW d, JsonDict(d), NEW names, NEW s, NEW e, e = Merged(d, [f \in names |-> Str(s)])
  PROVE  JsonDict(e)
<1>1. /\ IsFunction(e) /\ DOMAIN e = DOMAIN d \cup names
      /\ \A f \in DOMAIN d : e[f] = d[f]
      /\ \A f \in DOMAIN e : f \notin DOMAIN d => e[f] = Str(s)
  BY DEF Merged, IsFunction
<1>2. \A f \in DOMAIN e : JsonField(e[f])
  BY <1>1, JsonByField, JsonString
<1> QED BY <1>1, <1>2, JsonByField

LEMMA JsonPart ==
  ASSUME NEW d, JsonDict(d), NEW names, NEW e, e = Without(d, names)
  PROVE  JsonDict(e)
<1>1. /\ IsFunction(e) /\ DOMAIN e = DOMAIN d \ names /\ \A f \in DOMAIN e : e[f] = d[f]
  BY DEF Without, IsFunction
<1> QED BY <1>1, JsonByField

LEMMA FilledBody ==
  ASSUME NEW name, NEW proto, Layers(proto),
         NEW body, Kind(body) = "dict", JsonDict(Data(body)),
         NEW x, x = AddMissingItemFields(name, proto, body), x # Crash
  PROVE  /\ x = Dict(Data(x)) /\ JsonDict(Data(x))
         /\ \A f \in DOMAIN Data(body) : f \notin DictFields(proto) =>
              f \in DOMAIN Data(x) /\ Data(x)[f] = Data(body)[f]
<1>1. PICK b : b = Data(body)
  OBVIOUS
<1>2. PICK e : e = [f \in {"type"} \cap DOMAIN proto |-> Str(name)]
  OBVIOUS
<1>3. PICK d : d = Merged(b, e)
  OBVIOUS
<1>4. x = FillInDictFields(proto, d)
  BY <1>1, <1>2, <1>3 DEF AddMissingItemFields
<1>5. DOMAIN d = DOMAIN b \cup DOMAIN e /\ \A f \in DOMAIN b : d[f] = b[f]
  BY <1>3 DEF Merged
<1>6. PICK names : names = {"type"} \cap DOMAIN proto
  OBVIOUS
<1>7. JsonDict(d)
  <2>1. JsonDict(b) /\ d = Merged(b, [f \in names |-> Str(name)])
    BY <1>1, <1>2, <1>3, <1>6
  <2> QED BY <2>1, JsonMerged
<1>8. /\ x = Dict(Data(x)) /\ JsonDict(Data(x))
      /\ DOMAIN Data(x) = DOMAIN d \cup DOMAIN proto
      /\ \A f \in DOMAIN d : f \notin DictFields(proto) => Data(x)[f] = d[f]
  BY <1>4, <1>7, FilledOuter
<1> QED BY <1>1, <1>5, <1>8

LEMMA GoodItem ==
  ASSUME type \in Resources, NEW id \in Ids, NEW body \in Items[type.name][id],
         NEW filled, filled = Filled(body),
         CheckItem(filled, type.name, type.proto) = 200,
         NEW item, item = Added(id, filled)
  PROVE  /\ Kind(body) = "dict"
         /\ Formed(item, type.proto) /\ HasId(type.proto, id, item)
         /\ "revision" \in DOMAIN Data(body) => Data(filled)["revision"] # Null
<1>1. PICK p : p = type.proto
  OBVIOUS
<1>2. /\ Layers(p) /\ {"id", "type", "revision"} \subseteq SimpleFields(p)
      /\ {"id", "type", "revision"} \cap Lists(p) = {}
      /\ {"id", "type", "revision"} \subseteq DOMAIN p
  BY <1>1, MainPart, RevisionIsSimple DEF PartTables
<1>3. filled # Crash /\ Kind(filled) = "dict" /\ ValidDict(p, Data(filled))
  BY <1>1 DEF CheckItem, Valid
<1>4. Kind(body) = "dict"
  BY <1>3 DEF Filled, AddMissingItemFields
<1>5. JsonDict(Data(body))
      /\ ("revision" \in DOMAIN Data(body) => Data(body)["revision"] # Null)
  BY <1>4, BodiesAssumption
<1>6. /\ JsonDict(Data(filled))
      /\ \A f \in DOMAIN Data(body) : f \notin DictFields(p) =>
           f \in DOMAIN Data(filled) /\ Data(filled)[f] = Data(body)[f]
  <2>1. filled = AddMissingItemFields(type.name, p, body)
    BY <1>1 DEF Filled
  <2> QED BY <1>2, <1>3, <1>4, <1>5, <2>1, FilledBody
<1>7. PICK d : d = Data(filled)
  OBVIOUS
<1>8. Formed(d, p)
  BY <1>3, <1>6, <1>7, ValidIsFormed
<1>9. DOMAIN d = DOMAIN p
  BY <1>8 DEF Formed, Shaped
<1>10. /\ IsFunction(item) /\ DOMAIN item = DOMAIN d
       /\ item["id"] = Str(id) /\ \A f \in DOMAIN d \ {"id", "revision"} : item[f] = d[f]
  <2>1. PICK v : v = NewRevision(id)
    OBVIOUS
  <2>2. item = Merged(Field("id", Str(id)), Merged(Field("revision", v), d))
    BY <1>7, <2>1 DEF Added
  <2>3. PICK e : e = Merged(Field("revision", v), d)
    OBVIOUS
  <2>4. DOMAIN e = {"revision"} \cup DOMAIN d /\ \A f \in DOMAIN d \ {"revision"} : e[f] = d[f]
    BY <2>3 DEF Merged, Field
  <2>5. item = Merged(Field("id", Str(id)), e)
    BY <2>2, <2>3
  <2>6. /\ IsFunction(item) /\ DOMAIN item = {"id"} \cup DOMAIN e
        /\ item["id"] = Str(id) /\ \A f \in DOMAIN e \ {"id"} : item[f] = e[f]
    BY <2>5 DEF Merged, Field, IsFunction
  <2> QED BY <1>2, <1>9, <2>4, <2>6
<1>11. Formed(item, p)
  <2>1. \A f \in Lists(p) : item[f] = d[f]
    <3>1. Lists(p) \subseteq DOMAIN p
      BY DEF Lists, StrFields, DictFields, ListFields
    <3> QED BY <1>2, <1>9, <1>10, <3>1
  <2> QED BY <1>8, <1>10, <2>1, FormedAlike
<1>12. HasId(p, id, item)
  BY <1>2, <1>10 DEF HasId
<1>13. "revision" \notin DictFields(p)
  BY <1>2 DEF Lists
<1> QED BY <1>1, <1>4, <1>5, <1>6, <1>11, <1>12, <1>13

LEMMA GoodSubitem ==
  ASSUME type \in Resources, NEW id \in Ids, NEW s \in DOMAIN type.subs,
         NEW body \in Subitems[type.name][id], Kind(body) = "dict",
         NEW x, x = SubitemOf(s, body),
         CheckItem(x, type.subtype[s], type.subs[s]) = 200
  PROVE  Formed(Data(x), type.subs[s])
<1>1. PICK p : p = type.subs[s]
  OBVIOUS
<1>2. Layers(p)
  BY <1>1, SubitemPart DEF PartTables
<1>3. x # Crash /\ ValidDict(p, Data(x))
  BY <1>1 DEF CheckItem, Valid
<1>4. PICK filled : filled = AddMissingItemFields(type.subtype[s], p, body)
  OBVIOUS
<1>5. filled # Crash /\ x = Dict(Without(Data(filled), {"revision"}))
  BY <1>1, <1>3, <1>4 DEF SubitemOf
<1>6. JsonDict(Data(filled))
  <2>1. JsonDict(Data(body))
    BY BodiesAssumption
  <2> QED BY <1>2, <1>4, <1>5, <2>1, FilledBody
<1>7. PICK d : d = Data(filled)
  OBVIOUS
<1>8. PICK e : e = Without(d, {"revision"})
  OBVIOUS
<1>9. JsonDict(e)
  BY <1>6, <1>7, <1>8, JsonPart
<1>10. Data(x) = e
  BY <1>5, <1>7, <1>8, Tagged
<1> QED BY <1>1, <1>3, <1>9, <1>10, ValidIsFormed

-----------------------------------------------------------------------------
(* The requests.                                                           *)

\* Of each id the tables keep what the answered requests have made of it,
\* and all that they keep is of some id.
DataInv ==
  /\ type \in Resources
  /\ stored = [id \in Ids |-> stored[id]]
  /\ \A id \in Ids : Kept(rows, type, id, stored[id])
  /\ \A r \in rows : \E id \in Ids : r[2]["id"] = Str(id)

LEMMA DataInitInv ==
  ASSUME DataInit
  PROVE  DataInv
<1>1. Never.state = "never" /\ Never = Record(Never.state, Never.item, Never.subs, Never.files)
  BY DEF Never, Record
<1>2. \A t, id : Kept({}, t, id, Never)
  BY <1>1 DEF Kept
<1> HIDE DEF Never
<1> QED BY <1>2 DEF DataInit, DataInv

LEMMA OneChanged ==
  ASSUME DataInv, NEW id \in Ids, NEW record, SameElsewhere(rows, rows', id), type' = type,
         stored' = [stored EXCEPT ![id] = record], Kept(rows', type, id, record)
  PROVE  DataInv'
<1>1. /\ stored' = [x \in Ids |-> stored'[x]] /\ stored'[id] = record
      /\ \A x \in Ids : x # id => stored'[x] = stored[x]
  BY DEF DataInv
<1>2. ASSUME NEW x \in Ids PROVE Kept(rows', type', x, stored'[x])
  <2>1. CASE x = id
    BY <1>1, <2>1
  <2>2. CASE x # id
    <3>1. Kept(rows, type, x, stored[x])
      BY DEF DataInv
    <3> QED BY <1>1, <2>2, <3>1, KeptElsewhere
  <2> QED BY <2>1, <2>2
<1>3. \A r \in rows' : \E x \in Ids : r[2]["id"] = Str(x)
  BY DEF DataInv, SameElsewhere
<1> QED BY <1>1, <1>2, <1>3 DEF DataInv

\* An item that is gone has no revision.
LEMMA GoneHasNone ==
  ASSUME DataInv, NEW id \in Ids, stored[id].state # "never", Current(id) # Null
  PROVE  stored[id].state = "live"
<1> SUFFICES ASSUME stored[id].state # "live" PROVE FALSE
  OBVIOUS
<1>1. PICK r \in rows : r[1] = Main /\ r[2]["id"] = Str(id)
  BY DEF Current, Exists, Found, RowsIn
<1>2. stored[id].state = "gone" /\ InTableOf(type, "gone", Main)
  BY <1>1 DEF DataInv, Kept
<1> QED BY <1>2, PartsApart DEF DataInv, InTableOf, Main

LEMMA PostKeeps ==
  ASSUME DataInv, NEW id \in Ids, NEW body \in Items[type.name][id], PostItem(id, body)
  PROVE  DataInv'
<1>1. CASE UNCHANGED <<type, rows, stored>>
  BY <1>1 DEF DataInv
<1>2. CASE ~UNCHANGED <<type, rows, stored>>
  <2>1. \A b, status : ~Refuse("POST", id, b, status)
    BY <1>2 DEF Refuse
  <2>2. /\ stored[id].state = "never" /\ CheckItem(Filled(body), type.name, type.proto) = 200
        /\ \E item \in {Added(id, Filled(body))} :
             Insert("POST", id, body, 201, rows,
                    InsertItem(FirstSubitems(id), id, item),
                    [state |-> "live", item |-> item, subs |-> type.subs,
                     files |-> <<>>])
    BY <2>1 DEF PostItem
  <2>3. PICK item, new, record :
          /\ item = Added(id, Filled(body)) /\ new = InsertItem(FirstSubitems(id), id, item)
          /\ record = [state |-> "live", item |-> item, subs |-> type.subs, files |-> <<>>]
          /\ Insert("POST", id, body, 201, rows, new, record)
    BY <2>2
  <2>4. Change("POST", id, body, 201, rows \cup new, record)
    BY <2>1, <2>3 DEF Insert
  <2>5. PICK filled : filled = Filled(body)
    OBVIOUS
  <2>6. /\ filled = Filled(body) /\ CheckItem(filled, type.name, type.proto) = 200
        /\ item = Added(id, filled)
    BY <2>2, <2>3, <2>5
  <2>7. /\ stored[id].state = "never" /\ type' = type /\ rows' = rows \cup new
        /\ stored' = [stored EXCEPT ![id] = record]
    BY <2>2, <2>4 DEF Change
  <2>8. type \in Resources /\ Kept(rows, type, id, stored[id])
    BY DEF DataInv
  <2>9. Formed(item, type.proto) /\ HasId(type.proto, id, item)
    BY <2>6, <2>8, GoodItem
  <2>10. \A r : r \in rows' <=>
          \/ r \in rows
          \/ r \in WriteWalker(MainTable(type.name), type.proto, id, item)
          \/ \E s \in DOMAIN type.subs :
               r \in WriteWalker(SubTable(type.name, s), type.subs[s], id, type.subs[s])
    BY <2>3, <2>7 DEF InsertItem, FirstSubitems, InsertSubitem, Main
  <2>11. PICK t, old, before, after :
          t = type /\ old = stored[id] /\ before = rows /\ after = rows'
    OBVIOUS
  <2>12. /\ t \in Resources /\ old.state = "never" /\ Kept(before, t, id, old)
        /\ Formed(item, t.proto) /\ HasId(t.proto, id, item)
        /\ \A r : r \in after <=>
             \/ r \in before
             \/ r \in WriteWalker(MainTable(t.name), t.proto, id, item)
             \/ \E s \in DOMAIN t.subs :
                  r \in WriteWalker(SubTable(t.name, s), t.subs[s], id, t.subs[s])
    BY <2>7, <2>8, <2>9, <2>10, <2>11
  <2>13. SameElsewhere(before, after, id)
        /\ Kept(after, t, id, Record("live", item, t.subs, <<>>))
    BY ONLY <2>12, ItemCreated
  <2>14. record = Record("live", item, type.subs, <<>>)
    BY <2>3 DEF Record
  <2>15. SameElsewhere(rows, rows', id) /\ Kept(rows', type, id, record)
    BY <2>11, <2>13, <2>14
  <2> QED BY <2>7, <2>15, OneChanged
<1> QED BY <1>1, <1>2

LEMMA PutItemKeeps ==
  ASSUME DataInv, NEW id \in Ids, NEW body \in Items[type.name][id], PutItem(id, body)
  PROVE  DataInv'
<1>1. CASE UNCHANGED <<type, rows, stored>>
  BY <1>1 DEF DataInv
<1>2. CASE ~UNCHANGED <<type, rows, stored>>
  <2>1. \A b, status : ~Refuse("PUT", id, b, status)
    BY <1>2 DEF Refuse
  <2>2. /\ stored[id].state # "never" /\ CheckItem(Filled(body), type.name, type.proto) = 200
        /\ CheckUpdate(id, body) = 200 /\ Data(Filled(body))["revision"] = Current(id)
        /\ \E item \in {Added(id, Filled(body))} :
             Insert("PUT", id, body, 200,
                    DeleteWalker(rows, Main, type.proto, id),
                    InsertItem({}, id, item),
                    [stored[id] EXCEPT !.item = item])
    BY <2>1 DEF PutItem
  <2>3. PICK item, new, rest, record :
          /\ item = Added(id, Filled(body)) /\ new = InsertItem({}, id, item)
          /\ rest = DeleteWalker(rows, Main, type.proto, id)
          /\ record = [stored[id] EXCEPT !.item = item]
          /\ Insert("PUT", id, body, 200, rest, new, record)
    BY <2>2
  <2>4. Change("PUT", id, body, 200, rest \cup new, record)
    BY <2>1, <2>3 DEF Insert
  <2>5. PICK filled : filled = Filled(body)
    OBVIOUS
  <2>6. /\ filled = Filled(body) /\ CheckItem(filled, type.name, type.proto) = 200
        /\ CheckUpdate(id, body) = 200 /\ Data(filled)["revision"] = Current(id)
        /\ item = Added(id, filled)
    BY <2>2, <2>3, <2>5
  <2>7. /\ stored[id].state # "never" /\ type' = type /\ rows' = rest \cup new
        /\ stored' = [stored EXCEPT ![id] = record]
    BY <2>2, <2>4 DEF Change
  <2>8. type \in Resources /\ Kept(rows, type, id, stored[id])
    BY DEF DataInv
  <2>9. /\ Kind(body) = "dict" /\ Formed(item, type.proto) /\ HasId(type.proto, id, item)
        /\ "revision" \in DOMAIN Data(body) => Data(filled)["revision"] # Null
    BY <2>6, <2>8, GoodItem
  <2>10. "revision" \in DOMAIN Data(body)
    BY <2>6, <2>9 DEF CheckUpdate, Holds
  <2>11. stored[id].state = "live"
    BY <2>6, <2>7, <2>9, <2>10, GoneHasNone
  <2>12. \A r : r \in rows' <=>
          \/ r \in rows /\ ~(r[2]["id"] = Str(id) /\ r[1] \in MainTables(type))
          \/ r \in WriteWalker(MainTable(type.name), type.proto, id, item)
    BY <2>3, <2>7, DeletedElsewhere DEF InsertItem, DeleteWalker, Main, MainTables
  <2>13. PICK old, db : old = stored[id] /\ db = rows'
    OBVIOUS
  <2>14. Replaced(rows, db, MainTables(type),
                 WriteWalker(MainTable(type.name), type.proto, id, item), id)
    BY <2>12, <2>13 DEF Replaced
  <2>15. SameElsewhere(rows, db, id)
        /\ Kept(db, type, id, Record("live", item, old.subs, old.files))
    BY <2>8, <2>9, <2>11, <2>13, <2>14, ItemReplaced
  <2>16. old = Record("live", old.item, old.subs, old.files)
    BY <2>8, <2>11, <2>13 DEF Kept
  <2>17. record = Record("live", item, old.subs, old.files)
    BY <2>3, <2>13, <2>16 DEF Record
  <2> QED BY <2>7, <2>13, <2>15, <2>17, OneChanged
<1> QED BY <1>1, <1>2

\* A PUT of a subitem or a file begins with a new revision.
LEMMA RevisedFirst ==
  ASSUME DataInv, NEW id \in Ids, NEW old, old = stored[id], old.state = "live",
         NEW db, db = UpdateRevision(rows, id)
  PROVE  /\ SameElsewhere(rows, db, id)
         /\ Kept(db, type, id, Record("live", Revised(id), old.subs, old.files))
         /\ old = Record("live", old.item, old.subs, old.files)
<1>1. type \in Resources /\ Kept(rows, type, id, old)
  BY DEF DataInv
<1>2. PICK before, v : before = rows /\ v = NewRevision(id)
  OBVIOUS
<1>3. db = UpdateRevision(before, id) /\ Kept(before, type, id, old)
  BY <1>1, <1>2
<1>4. SameElsewhere(before, db, id)
      /\ Kept(db, type, id, Record("live", WithRevision(old.item, v), old.subs, old.files))
  BY <1>1, <1>2, <1>3, RevisionUpdated
<1>5. WithRevision(old.item, v) = Revised(id)
  BY <1>2 DEF WithRevision, Revised
<1> QED BY <1>1, <1>2, <1>4, <1>5 DEF Kept

LEMMA PutSubitemKeeps ==
  ASSUME DataInv, NEW id \in Ids, NEW s \in DOMAIN type.subs,
         NEW body \in Subitems[type.name][id], PutSubitem(id, s, body)
  PROVE  DataInv'
<1>1. CASE UNCHANGED <<type, rows, stored>>
  BY <1>1 DEF DataInv
<1>2. CASE ~UNCHANGED <<type, rows, stored>>
  <2>1. \A b, status : ~Refuse(s, id, b, status)
    BY <1>2 DEF Refuse
  <2>2. /\ stored[id].state # "never" /\ CheckUpdate(id, body) = 200 /\ Kind(body) = "dict"
        /\ CheckItem(SubitemOf(s, body), type.subtype[s], type.subs[s]) = 200
        /\ Data(body)["revision"] = Current(id)
        /\ Insert(s, id, body, 200,
                  DeleteSubitem(UpdateRevision(rows, id), id, s),
                  InsertSubitem({}, id, s, Data(SubitemOf(s, body))),
                  [stored[id] EXCEPT !.item = Revised(id),
                                     !.subs[s] = Data(SubitemOf(s, body))])
    BY <2>1 DEF PutSubitem
  <2>3. PICK sub, new, rest, record, mid, old :
          /\ sub = Data(SubitemOf(s, body)) /\ new = InsertSubitem({}, id, s, sub)
          /\ mid = UpdateRevision(rows, id) /\ rest = DeleteSubitem(mid, id, s)
          /\ record = [stored[id] EXCEPT !.item = Revised(id), !.subs[s] = sub]
          /\ old = stored[id]
    OBVIOUS
  <2>4. Insert(s, id, body, 200, rest, new, record)
    BY <2>2, <2>3
  <2>5. Change(s, id, body, 200, rest \cup new, record)
    BY <2>1, <2>4 DEF Insert
  <2>6. /\ type' = type /\ rows' = rest \cup new
        /\ stored' = [stored EXCEPT ![id] = record]
    BY <2>5 DEF Change
  <2>7. type \in Resources
    BY DEF DataInv
  <2>8. Formed(sub, type.subs[s])
    BY <2>2, <2>3, <2>7, GoodSubitem
  <2>9. "revision" \in DOMAIN Data(body)
    BY <2>2 DEF CheckUpdate, Holds
  <2>10. Data(body)["revision"] # Null
    BY <2>2, <2>7, <2>9, BodiesAssumption
  <2>11. old.state = "live"
    BY <2>2, <2>3, <2>10, GoneHasNone
  <2>12. PICK was : was = Record("live", Revised(id), old.subs, old.files)
    OBVIOUS
  <2>13. /\ SameElsewhere(rows, mid, id) /\ Kept(mid, type, id, was)
         /\ old = Record("live", old.item, old.subs, old.files)
    BY <2>3, <2>11, <2>12, RevisedFirst
  <2>14. PICK t, after : t = type /\ after = rows'
    OBVIOUS
  <2>15. Replaced(mid, after, SubTables(t, s),
                  WriteWalker(SubTable(t.name, s), t.subs[s], id, sub), id)
    <3>1. \A r : r \in after <=>
            \/ r \in mid /\ ~(r[2]["id"] = Str(id) /\ r[1] \in SubTables(t, s))
            \/ r \in WriteWalker(SubTable(t.name, s), t.subs[s], id, sub)
      BY <2>3, <2>6, <2>14, DeletedElsewhere
         DEF InsertSubitem, DeleteSubitem, DeleteWalker, SubTables
    <3> QED BY <3>1 DEF Replaced
  <2>16. /\ was.state = "live" /\ was.item = Revised(id)
         /\ was.subs = old.subs /\ was.files = old.files
    BY <2>12 DEF Record
  <2>17. /\ t \in Resources /\ was.state = "live" /\ Kept(mid, t, id, was)
         /\ s \in DOMAIN t.subs /\ Formed(sub, t.subs[s])
    BY <2>7, <2>8, <2>13, <2>14, <2>16
  <2>18. SameElsewhere(mid, after, id)
         /\ Kept(after, t, id,
                 Record("live", was.item, [was.subs EXCEPT ![s] = sub], was.files))
    BY ONLY <2>15, <2>17, SubitemReplaced
  <2>19. record = Record("live", was.item, [was.subs EXCEPT ![s] = sub], was.files)
    <3>1. PICK item, subs, files : item = old.item /\ subs = old.subs /\ files = old.files
      OBVIOUS
    <3>2. PICK item2 : item2 = Revised(id)
      OBVIOUS
    <3>3. old = [state |-> "live", item |-> item, subs |-> subs, files |-> files]
      BY <2>13, <3>1 DEF Record
    <3>4. record = [old EXCEPT !.item = item2, !.subs[s] = sub]
      BY <2>3, <3>2
    <3>5. record = Record("live", item2, [subs EXCEPT ![s] = sub], files)
      BY ONLY <3>3, <3>4 DEF Record
    <3> QED BY <2>16, <3>1, <3>2, <3>5
  <2>20. SameElsewhere(rows, rows', id)
    BY <2>13, <2>14, <2>18, SameAndSame
  <2>21. Kept(rows', type, id, record)
    BY <2>14, <2>18, <2>19
  <2> QED BY <2>6, <2>20, <2>21, OneChanged
<1> QED BY <1>1, <1>2

LEMMA PutFileKeeps ==
  ASSUME DataInv, NEW id \in Ids, NEW f \in DOMAIN type.files, NEW content, NEW revision,
         PutFile(id, f, content, revision)
  PROVE  DataInv'
<1>1. CASE UNCHANGED <<type, rows, stored>>
  BY <1>1 DEF DataInv
<1>2. CASE ~UNCHANGED <<type, rows, stored>>
  <2>1. ~Refuse(f, id, NoBody, 409)
    BY <1>2 DEF Refuse
  <2>2. PICK main, p, file :
          /\ main = SubTable(type.name, f) /\ p = FileResourcePrototype
          /\ file = [body |-> Blob(content), content_type |-> Str(content)]
    OBVIOUS
  <2>3. PICK new, mid, rest :
          /\ new = WriteWalker(main, p, id, file)
          /\ mid = UpdateRevision(rows, id) /\ rest = DeleteWalker(mid, main, p, id)
    OBVIOUS
  <2>4. PICK old, record :
          /\ old = stored[id]
          /\ record = [old EXCEPT !.item = Revised(id),
                                  !.files = Merged(Field(f, file), @)]
    OBVIOUS
  <2>5. /\ old.state # "never" /\ Str(revision) = Current(id)
        /\ Change(f, id, NoBody, 200, rest \cup new, record)
    BY <2>1, <2>2, <2>3, <2>4 DEF PutFile
  <2>6. /\ type' = type /\ rows' = rest \cup new
        /\ stored' = [stored EXCEPT ![id] = record]
    BY <2>5 DEF Change
  <2>7. type \in Resources
    BY DEF DataInv
  <2>8. Str(revision) # Null
    BY DEF Str, Null
  <2>9. old.state = "live"
    BY <2>2, <2>3, <2>4, <2>5, <2>8, GoneHasNone
  <2>10. PICK was : was = Record("live", Revised(id), old.subs, old.files)
    OBVIOUS
  <2>11. /\ SameElsewhere(rows, mid, id) /\ Kept(mid, type, id, was)
        /\ old = Record("live", old.item, old.subs, old.files)
    BY <2>2, <2>3, <2>4, <2>9, <2>10, RevisedFirst
  <2>12. PICK t, after : t = type /\ after = rows'
    OBVIOUS
  <2>13. Replaced(mid, after, DeletedTables(SubTable(t.name, f), FileResourcePrototype),
                  WriteWalker(SubTable(t.name, f), FileResourcePrototype, id, file), id)
    <3>1. \A r : r \in after <=>
            \/ r \in mid /\ ~(r[2]["id"] = Str(id) /\ r[1] \in DeletedTables(main, p))
            \/ r \in WriteWalker(main, p, id, file)
      BY <2>2, <2>3, <2>4, <2>6, <2>12, DeletedElsewhere DEF DeleteWalker
    <3>2. Replaced(mid, after, DeletedTables(main, p), WriteWalker(main, p, id, file), id)
      BY <3>1 DEF Replaced
    <3> QED BY <2>2, <2>3, <2>4, <2>12, <3>2
  <2>14. /\ was.state = "live" /\ was.item = Revised(id)
         /\ was.subs = old.subs /\ was.files = old.files
    BY <2>10 DEF Record
  <2>15. /\ t \in Resources /\ was.state = "live" /\ Kept(mid, t, id, was)
         /\ f \in DOMAIN t.files
         /\ file = [body |-> Blob(content), content_type |-> Str(content)]
    BY <2>2, <2>3, <2>4, <2>7, <2>11, <2>12, <2>14
  <2>16. SameElsewhere(mid, after, id)
         /\ Kept(after, t, id,
                 Record("live", was.item, was.subs, Merged(Field(f, file), was.files)))
    BY ONLY <2>13, <2>15, FileReplaced
  <2>17. record = Record("live", was.item, was.subs, Merged(Field(f, file), was.files))
    <3>1. PICK item, subs, files : item = old.item /\ subs = old.subs /\ files = old.files
      OBVIOUS
    <3>2. PICK item2, files2 : item2 = Revised(id) /\ files2 = Merged(Field(f, file), files)
      OBVIOUS
    <3>3. old = [state |-> "live", item |-> item, subs |-> subs, files |-> files]
      BY <2>11, <3>1 DEF Record
    <3>4. record = [old EXCEPT !.item = item2, !.files = files2]
      BY <2>2, <2>3, <2>4, <3>1, <3>2
    <3>5. record = Record("live", item2, subs, files2)
      BY ONLY <3>3, <3>4 DEF Record
    <3> QED BY <2>14, <3>1, <3>2, <3>5
  <2>18. SameElsewhere(rows, rows', id)
    BY <2>11, <2>12, <2>16, SameAndSame
  <2>19. Kept(rows', type, id, record)
    BY <2>12, <2>16, <2>17
  <2> QED BY <2>2, <2>3, <2>4, <2>6, <2>18, <2>19, OneChanged
<1> QED BY <1>1, <1>2

LEMMA DeleteKeeps ==
  ASSUME DataInv, NEW id \in Ids, DeleteItem(id)
  PROVE  DataInv'
<1>1. PICK record : record = [Never EXCEPT !.state = "gone"]
  OBVIOUS
<1>2. /\ stored[id].state # "never" /\ type' = type /\ rows' = DeleteRows(rows, id)
      /\ stored' = [stored EXCEPT ![id] = record]
  BY <1>1 DEF DeleteItem, Change
<1>3. type \in Resources /\ Kept(rows, type, id, stored[id])
  BY DEF DataInv
<1>4. record = Record("gone", <<>>, <<>>, <<>>)
  BY <1>1 DEF Never, Record
<1>5. SameElsewhere(rows, rows', id) /\ Kept(rows', type, id, record)
  <2>1. PICK t, old, before, after :
          t = type /\ old = stored[id] /\ before = rows /\ after = rows'
    OBVIOUS
  <2>2. after = DeleteRowsIn(before, DeletedTables(MainTable(t.name), t.proto)
          \cup UNION {DeletedTables(SubTable(t.name, s), t.subs[s]) : s \in DOMAIN t.subs}, id)
    BY <1>2, <2>1 DEF DeleteRows, Main
  <2>3. t \in Resources /\ old.state # "never" /\ Kept(before, t, id, old)
    BY <1>2, <1>3, <2>1
  <2>4. SameElsewhere(before, after, id) /\ Kept(after, t, id, Record("gone", <<>>, <<>>, <<>>))
    BY ONLY <2>2, <2>3, ItemDeleted
  <2> QED BY <1>4, <2>1, <2>4
<1> QED BY <1>2, <1>5, OneChanged

LEMMA DataNextKeeps ==
  ASSUME DataInv, DataNext
  PROVE  DataInv'
<1>1. ASSUME NEW id \in Ids, NEW f \in DOMAIN type.files, RefuseFile(id, f) PROVE DataInv'
  BY <1>1 DEF RefuseFile, Refuse, DataInv
<1> QED BY <1>1, PostKeeps, PutItemKeeps, PutSubitemKeeps, PutFileKeeps, DeleteKeeps DEF DataNext

-----------------------------------------------------------------------------
(* What fits a prototype is what is valid when it was filled in, booleans  *)
(* for numbers aside.                                                      *)

\* The values of simple fields are of the kind of their columns.
KindsFit(d, proto) ==
  \A f \in SimpleFields(proto) : Kind(d[f]) \in {"null", Kind(proto[f])}

SoundInner(d, proto) ==
  /\ KindsFit(d, proto)
  /\ \A f \in DictFields(proto) : \A k \in DOMAIN Data(d[f]) :
       KindsFit(DictIn(d, f, k), Inner(proto, f))

Sound(d, proto) ==
  /\ KindsFit(d, proto)
  /\ \A f \in DictFields(proto) : \A k \in DOMAIN Data(d[f]) :
       SoundInner(DictIn(d, f, k), Inner(proto, f))

FineInnermost(proto, d) == ValidInnermost(proto, d) /\ KindsFit(d, proto)
FineInner(proto, d)     == ValidInner(proto, d) /\ SoundInner(d, proto)
Fine(proto, d)          == ValidDict(proto, d) /\ Sound(d, proto)

\* One layer of it, with the positions in each list of dicts that fit.
FitsWith(proto, d, good) ==
  \A f \in DOMAIN d :
    /\ f \in DOMAIN proto
    /\ f \in SimpleFields(proto) => Kind(d[f]) \in {"null", Kind(proto[f])}
    /\ f \in StrFields(proto) =>
         Kind(d[f]) = "list" /\ \A k \in DOMAIN Data(d[f]) : Kind(Data(d[f])[k]) = "str"
    /\ f \in DictFields(proto) => Kind(d[f]) = "list" /\ DOMAIN Data(d[f]) \subseteq good[f]

FineWith(proto, d, ok) == DOMAIN d = DOMAIN proto /\ FitsWith(proto, d, ok)

InnermostFitting(proto, d) ==
  [f \in DictFields(proto) |->
     {k \in DOMAIN Data(d[f]) : InnermostFits(Inner(proto, f), Data(d[f])[k])}]
InnerFitting(proto, d) ==
  [f \in DictFields(proto) |->
     {k \in DOMAIN Data(d[f]) : InnerFits(Inner(proto, f), Data(d[f])[k])}]

InnermostOk(proto, d) ==
  [f \in DictFields(proto) |->
     {k \in DOMAIN Data(d[f]) : /\ Kind(Data(d[f])[k]) = "dict"
                                /\ FineInnermost(Inner(proto, f), DictIn(d, f, k))}]
InnerOk(proto, d) ==
  [f \in DictFields(proto) |->
     {k \in DOMAIN Data(d[f]) : /\ Kind(Data(d[f])[k]) = "dict"
                                /\ FineInner(Inner(proto, f), DictIn(d, f, k))}]

LEMMA LayerFields ==
  ASSUME NEW proto, Layer(proto), NEW f \in DOMAIN proto
  PROVE  \/ /\ f \in SimpleFields(proto) /\ f \notin StrFields(proto) /\ f \notin DictFields(proto)
            /\ Kind(proto[f]) \in Simple /\ Kind(proto[f]) # "list"
         \/ /\ f \notin SimpleFields(proto) /\ f \in StrFields(proto) /\ f \notin DictFields(proto)
            /\ Kind(proto[f]) = "list" /\ Kind(Data(proto[f])[1]) = "str"
         \/ /\ f \notin SimpleFields(proto) /\ f \notin StrFields(proto) /\ f \in DictFields(proto)
            /\ Kind(proto[f]) = "list" /\ Kind(Data(proto[f])[1]) = "dict"
BY DEF Layer, SimpleFields, StrFields, DictFields, ListFields, Simple

LEMMA FitsInnermost ==
  ASSUME NEW proto, InnermostLayer(proto), NEW d, NEW good
  PROVE  InnermostFits(proto, Dict(d)) <=> FitsWith(proto, d, good)
<1>1. Kind(Dict(d)) = "dict" /\ Data(Dict(d)) = d
  BY Tagged
<1>2. PICK b : b = Dict(d)
  OBVIOUS
<1>3. InnermostFits(proto, b) <=>
        \A f \in DOMAIN d :
          /\ f \in DOMAIN proto
          /\ \/ Kind(proto[f]) # "list" /\ Kind(d[f]) \in {Kind(proto[f]), "null"}
             \/ /\ Kind(proto[f]) = "list" /\ Kind(d[f]) = "list"
                /\ \A k \in DOMAIN Data(d[f]) :
                     Kind(Data(proto[f])[1]) = "str" /\ Kind(Data(d[f])[k]) = "str"
  BY <1>1, <1>2 DEF InnermostFits, FitsIn
<1>4. ASSUME NEW f \in DOMAIN d, f \in DOMAIN proto
      PROVE  (\/ Kind(proto[f]) # "list" /\ Kind(d[f]) \in {Kind(proto[f]), "null"}
              \/ /\ Kind(proto[f]) = "list" /\ Kind(d[f]) = "list"
                 /\ \A k \in DOMAIN Data(d[f]) :
                      Kind(Data(proto[f])[1]) = "str" /\ Kind(Data(d[f])[k]) = "str")
             <=> /\ f \in SimpleFields(proto) => Kind(d[f]) \in {"null", Kind(proto[f])}
                 /\ f \in StrFields(proto) =>
                      Kind(d[f]) = "list" /\ \A k \in DOMAIN Data(d[f]) : Kind(Data(d[f])[k]) = "str"
                 /\ f \in DictFields(proto) =>
                      Kind(d[f]) = "list" /\ DOMAIN Data(d[f]) \subseteq good[f]
  BY <1>4, LayerFields DEF InnermostLayer
<1> QED BY <1>2, <1>3, <1>4 DEF FitsWith

LEMMA FitsInner ==
  ASSUME NEW proto, Layer(proto), NEW d
  PROVE  /\ InnerFits(proto, Dict(d)) <=> FitsWith(proto, d, InnermostFitting(proto, d))
         /\ Fits(proto, Dict(d)) <=> FitsWith(proto, d, InnerFitting(proto, d))
<1>1. Kind(Dict(d)) = "dict" /\ Data(Dict(d)) = d
  BY Tagged
<1>2. PICK b : b = Dict(d)
  OBVIOUS
<1>3. InnerFits(proto, b) <=>
        \A f \in DOMAIN d :
          /\ f \in DOMAIN proto
          /\ \/ Kind(proto[f]) # "list" /\ Kind(d[f]) \in {Kind(proto[f]), "null"}
             \/ /\ Kind(proto[f]) = "list" /\ Kind(d[f]) = "list"
                /\ \A k \in DOMAIN Data(d[f]) :
                     \/ Kind(Data(proto[f])[1]) = "str" /\ Kind(Data(d[f])[k]) = "str"
                     \/ /\ Kind(Data(proto[f])[1]) = "dict"
                        /\ InnermostFits(Inner(proto, f), Data(d[f])[k])
  BY <1>1, <1>2 DEF InnerFits, FitsIn
<1>4. Fits(proto, b) <=>
        \A f \in DOMAIN d :
          /\ f \in DOMAIN proto
          /\ \/ Kind(proto[f]) # "list" /\ Kind(d[f]) \in {Kind(proto[f]), "null"}
             \/ /\ Kind(proto[f]) = "list" /\ Kind(d[f]) = "list"
                /\ \A k \in DOMAIN Data(d[f]) :
                     \/ Kind(Data(proto[f])[1]) = "str" /\ Kind(Data(d[f])[k]) = "str"
                     \/ /\ Kind(Data(proto[f])[1]) = "dict"
                        /\ InnerFits(Inner(proto, f), Data(d[f])[k])
  BY <1>1, <1>2 DEF Fits, FitsIn
<1>5. ASSUME NEW f \in DOMAIN d, f \in DOMAIN proto, NEW ok, NEW good,
             f \in DictFields(proto) => good = {k \in DOMAIN Data(d[f]) : k \in ok}
      PROVE  (\/ Kind(proto[f]) # "list" /\ Kind(d[f]) \in {Kind(proto[f]), "null"}
              \/ /\ Kind(proto[f]) = "list" /\ Kind(d[f]) = "list"
                 /\ \A k \in DOMAIN Data(d[f]) :
                      \/ Kind(Data(proto[f])[1]) = "str" /\ Kind(Data(d[f])[k]) = "str"
                      \/ Kind(Data(proto[f])[1]) = "dict" /\ k \in ok)
             <=> /\ f \in SimpleFields(proto) => Kind(d[f]) \in {"null", Kind(proto[f])}
                 /\ f \in StrFields(proto) =>
                      Kind(d[f]) = "list" /\ \A k \in DOMAIN Data(d[f]) : Kind(Data(d[f])[k]) = "str"
                 /\ f \in DictFields(proto) =>
                      Kind(d[f]) = "list" /\ DOMAIN Data(d[f]) \subseteq good
  BY <1>5, LayerFields
<1>6. InnerFits(proto, b) <=> FitsWith(proto, d, InnermostFitting(proto, d))
  <2>1. PICK good : good = InnermostFitting(proto, d)
    OBVIOUS
  <2>2. ASSUME NEW f \in DOMAIN d, f \in DOMAIN proto
        PROVE  \E ok : /\ f \in DictFields(proto) =>
                            good[f] = {k \in DOMAIN Data(d[f]) : k \in ok}
                       /\ \A k \in DOMAIN Data(d[f]) :
                            k \in ok <=> InnermostFits(Inner(proto, f), Data(d[f])[k])
    <3> DEFINE ok == {k \in DOMAIN Data(d[f]) : InnermostFits(Inner(proto, f), Data(d[f])[k])}
    <3>1. f \in DictFields(proto) => good[f] = ok
      BY <2>1 DEF InnermostFitting
    <3>2. \A k : k \in ok <=> k \in DOMAIN Data(d[f]) /\ InnermostFits(Inner(proto, f), Data(d[f])[k])
      OBVIOUS
    <3> HIDE DEF ok
    <3> QED BY <3>1, <3>2
  <2>3. ASSUME NEW f \in DOMAIN d, f \in DOMAIN proto
        PROVE  (\/ Kind(proto[f]) # "list" /\ Kind(d[f]) \in {Kind(proto[f]), "null"}
                \/ /\ Kind(proto[f]) = "list" /\ Kind(d[f]) = "list"
                   /\ \A k \in DOMAIN Data(d[f]) :
                        \/ Kind(Data(proto[f])[1]) = "str" /\ Kind(Data(d[f])[k]) = "str"
                        \/ /\ Kind(Data(proto[f])[1]) = "dict"
                           /\ InnermostFits(Inner(proto, f), Data(d[f])[k]))
             <=> /\ f \in SimpleFields(proto) => Kind(d[f]) \in {"null", Kind(proto[f])}
                 /\ f \in StrFields(proto) =>
                      Kind(d[f]) = "list" /\ \A k \in DOMAIN Data(d[f]) : Kind(Data(d[f])[k]) = "str"
                 /\ f \in DictFields(proto) =>
                      Kind(d[f]) = "list" /\ DOMAIN Data(d[f]) \subseteq good[f]
    <3>1. PICK ok : /\ f \in DictFields(proto) =>
                         good[f] = {k \in DOMAIN Data(d[f]) : k \in ok}
                    /\ \A k \in DOMAIN Data(d[f]) :
                         k \in ok <=> InnermostFits(Inner(proto, f), Data(d[f])[k])
      BY <2>2, <2>3
    <3>2. PICK g : g = good[f]
      OBVIOUS
    <3>3. f \in DictFields(proto) => g = {k \in DOMAIN Data(d[f]) : k \in ok}
      BY <3>1, <3>2
    <3>4. (\/ Kind(proto[f]) # "list" /\ Kind(d[f]) \in {Kind(proto[f]), "null"}
           \/ /\ Kind(proto[f]) = "list" /\ Kind(d[f]) = "list"
              /\ \A k \in DOMAIN Data(d[f]) :
                   \/ Kind(Data(proto[f])[1]) = "str" /\ Kind(Data(d[f])[k]) = "str"
                   \/ Kind(Data(proto[f])[1]) = "dict" /\ k \in ok)
          <=> /\ f \in SimpleFields(proto) => Kind(d[f]) \in {"null", Kind(proto[f])}
              /\ f \in StrFields(proto) =>
                   Kind(d[f]) = "list" /\ \A k \in DOMAIN Data(d[f]) : Kind(Data(d[f])[k]) = "str"
              /\ f \in DictFields(proto) =>
                   Kind(d[f]) = "list" /\ DOMAIN Data(d[f]) \subseteq g
      BY <1>5, <2>3, <3>3
    <3> QED BY <3>1, <3>2, <3>4
  <2> QED BY <1>3, <2>1, <2>3 DEF FitsWith
<1>7. Fits(proto, b) <=> FitsWith(proto, d, InnerFitting(proto, d))
  <2>1. PICK good : good = InnerFitting(proto, d)
    OBVIOUS
  <2>2. ASSUME NEW f \in DOMAIN d, f \in DOMAIN proto
        PROVE  \E ok : /\ f \in DictFields(proto) =>
                            good[f] = {k \in DOMAIN Data(d[f]) : k \in ok}
                       /\ \A k \in DOMAIN Data(d[f]) :
                            k \in ok <=> InnerFits(Inner(proto, f), Data(d[f])[k])
    <3> DEFINE ok == {k \in DOMAIN Data(d[f]) : InnerFits(Inner(proto, f), Data(d[f])[k])}
    <3>1. f \in DictFields(proto) => good[f] = ok
      BY <2>1 DEF InnerFitting
    <3>2. \A k : k \in ok <=> k \in DOMAIN Data(d[f]) /\ InnerFits(Inner(proto, f), Data(d[f])[k])
      OBVIOUS
    <3> HIDE DEF ok
    <3> QED BY <3>1, <3>2
  <2>3. ASSUME NEW f \in DOMAIN d, f \in DOMAIN proto
        PROVE  (\/ Kind(proto[f]) # "list" /\ Kind(d[f]) \in {Kind(proto[f]), "null"}
                \/ /\ Kind(proto[f]) = "list" /\ Kind(d[f]) = "list"
                   /\ \A k \in DOMAIN Data(d[f]) :
                        \/ Kind(Data(proto[f])[1]) = "str" /\ Kind(Data(d[f])[k]) = "str"
                        \/ /\ Kind(Data(proto[f])[1]) = "dict"
                           /\ InnerFits(Inner(proto, f), Data(d[f])[k]))
             <=> /\ f \in SimpleFields(proto) => Kind(d[f]) \in {"null", Kind(proto[f])}
                 /\ f \in StrFields(proto) =>
                      Kind(d[f]) = "list" /\ \A k \in DOMAIN Data(d[f]) : Kind(Data(d[f])[k]) = "str"
                 /\ f \in DictFields(proto) =>
                      Kind(d[f]) = "list" /\ DOMAIN Data(d[f]) \subseteq good[f]
    <3>1. PICK ok : /\ f \in DictFields(proto) =>
                         good[f] = {k \in DOMAIN Data(d[f]) : k \in ok}
                    /\ \A k \in DOMAIN Data(d[f]) :
                         k \in ok <=> InnerFits(Inner(proto, f), Data(d[f])[k])
      BY <2>2, <2>3
    <3>2. PICK g : g = good[f]
      OBVIOUS
    <3>3. f \in DictFields(proto) => g = {k \in DOMAIN Data(d[f]) : k \in ok}
      BY <3>1, <3>2
    <3>4. (\/ Kind(proto[f]) # "list" /\ Kind(d[f]) \in {Kind(proto[f]), "null"}
           \/ /\ Kind(proto[f]) = "list" /\ Kind(d[f]) = "list"
              /\ \A k \in DOMAIN Data(d[f]) :
                   \/ Kind(Data(proto[f])[1]) = "str" /\ Kind(Data(d[f])[k]) = "str"
                   \/ Kind(Data(proto[f])[1]) = "dict" /\ k \in ok)
          <=> /\ f \in SimpleFields(proto) => Kind(d[f]) \in {"null", Kind(proto[f])}
              /\ f \in StrFields(proto) =>
                   Kind(d[f]) = "list" /\ \A k \in DOMAIN Data(d[f]) : Kind(Data(d[f])[k]) = "str"
              /\ f \in DictFields(proto) =>
                   Kind(d[f]) = "list" /\ DOMAIN Data(d[f]) \subseteq g
      BY <1>5, <2>3, <3>3
    <3> QED BY <3>1, <3>2, <3>4
  <2> QED BY <1>4, <2>1, <2>3 DEF FitsWith
<1> QED BY <1>2, <1>6, <1>7

LEMMA FineLayer ==
  ASSUME NEW proto, InnermostLayer(proto), Plain(proto), NEW d, NEW ok
  PROVE  FineInnermost(proto, d) <=> FineWith(proto, d, ok)
<1>1. ValidInnermost(proto, d) <=>
        /\ DOMAIN d = DOMAIN proto
        /\ \A f \in DOMAIN proto :
             IF Kind(proto[f]) = "list"
             THEN /\ Kind(d[f]) = "list"
                  /\ \A k \in DOMAIN Data(d[f]) :
                       /\ Kind(Data(d[f])[k]) = Kind(Data(proto[f])[1])
                       /\ Kind(Data(d[f])[k]) # "dict"
             ELSE \/ Kind(d[f]) \in {"null", Kind(proto[f])}
                  \/ Kind(proto[f]) = "num" /\ Kind(d[f]) = "bool"
  BY DEF Plain, ValidInnermost, ValidIn
<1>2. ASSUME NEW f \in DOMAIN proto
      PROVE  (/\ IF Kind(proto[f]) = "list"
                 THEN /\ Kind(d[f]) = "list"
                      /\ \A k \in DOMAIN Data(d[f]) :
                           /\ Kind(Data(d[f])[k]) = Kind(Data(proto[f])[1])
                           /\ Kind(Data(d[f])[k]) # "dict"
                 ELSE \/ Kind(d[f]) \in {"null", Kind(proto[f])}
                      \/ Kind(proto[f]) = "num" /\ Kind(d[f]) = "bool"
              /\ f \in SimpleFields(proto) => Kind(d[f]) \in {"null", Kind(proto[f])})
             <=> /\ f \in SimpleFields(proto) => Kind(d[f]) \in {"null", Kind(proto[f])}
                 /\ f \in StrFields(proto) =>
                      Kind(d[f]) = "list" /\ \A k \in DOMAIN Data(d[f]) : Kind(Data(d[f])[k]) = "str"
                 /\ f \in DictFields(proto) =>
                      Kind(d[f]) = "list" /\ DOMAIN Data(d[f]) \subseteq ok[f]
  <2>1. f \notin DictFields(proto) /\ Layer(proto)
    BY DEF InnermostLayer
  <2>2. CASE f \in SimpleFields(proto)
    BY <2>1, <2>2, LayerFields
  <2>3. CASE f \in StrFields(proto)
    BY <2>1, <2>3, LayerFields
  <2> QED BY <2>1, <2>2, <2>3, LayerFields
<1>3. \A f \in SimpleFields(proto) : f \in DOMAIN proto
  BY DEF SimpleFields
<1> QED BY <1>1, <1>2, <1>3 DEF FineInnermost, KindsFit, FineWith, FitsWith

LEMMA FineInnerLayer ==
  ASSUME NEW proto, Layer(proto), Plain(proto), NEW d
  PROVE  FineInner(proto, d) <=> FineWith(proto, d, InnermostOk(proto, d))
<1>1. ValidInner(proto, d) <=>
        /\ DOMAIN d = DOMAIN proto
        /\ \A f \in DOMAIN proto :
             IF Kind(proto[f]) = "list"
             THEN /\ Kind(d[f]) = "list"
                  /\ \A k \in DOMAIN Data(d[f]) :
                       /\ Kind(Data(d[f])[k]) = Kind(Data(proto[f])[1])
                       /\ Kind(Data(d[f])[k]) = "dict" =>
                            ValidInnermost(Inner(proto, f), DictIn(d, f, k))
             ELSE \/ Kind(d[f]) \in {"null", Kind(proto[f])}
                  \/ Kind(proto[f]) = "num" /\ Kind(d[f]) = "bool"
  BY DEF Plain, ValidInner, ValidIn, DictIn
<1>2. SoundInner(d, proto) <=>
        /\ \A f \in SimpleFields(proto) : Kind(d[f]) \in {"null", Kind(proto[f])}
        /\ \A f \in DictFields(proto) : \A k \in DOMAIN Data(d[f]) :
             KindsFit(DictIn(d, f, k), Inner(proto, f))
  BY DEF SoundInner, KindsFit
<1>3. PICK ok : ok = InnermostOk(proto, d)
  OBVIOUS
<1>4. ASSUME NEW f \in DictFields(proto)
      PROVE  \A k : k \in ok[f] <=>
               /\ k \in DOMAIN Data(d[f]) /\ Kind(Data(d[f])[k]) = "dict"
               /\ ValidInnermost(Inner(proto, f), DictIn(d, f, k))
               /\ KindsFit(DictIn(d, f, k), Inner(proto, f))
  BY <1>3 DEF InnermostOk, FineInnermost
<1>5. ASSUME NEW f \in DOMAIN proto
      PROVE  (/\ IF Kind(proto[f]) = "list"
                 THEN /\ Kind(d[f]) = "list"
                      /\ \A k \in DOMAIN Data(d[f]) :
                           /\ Kind(Data(d[f])[k]) = Kind(Data(proto[f])[1])
                           /\ Kind(Data(d[f])[k]) = "dict" =>
                                ValidInnermost(Inner(proto, f), DictIn(d, f, k))
                 ELSE \/ Kind(d[f]) \in {"null", Kind(proto[f])}
                      \/ Kind(proto[f]) = "num" /\ Kind(d[f]) = "bool"
              /\ f \in SimpleFields(proto) => Kind(d[f]) \in {"null", Kind(proto[f])}
              /\ f \in DictFields(proto) => \A k \in DOMAIN Data(d[f]) :
                   KindsFit(DictIn(d, f, k), Inner(proto, f)))
             <=> /\ f \in SimpleFields(proto) => Kind(d[f]) \in {"null", Kind(proto[f])}
                 /\ f \in StrFields(proto) =>
                      Kind(d[f]) = "list" /\ \A k \in DOMAIN Data(d[f]) : Kind(Data(d[f])[k]) = "str"
                 /\ f \in DictFields(proto) =>
                      Kind(d[f]) = "list" /\ DOMAIN Data(d[f]) \subseteq ok[f]
  <2>1. CASE f \in SimpleFields(proto)
    BY <2>1, LayerFields
  <2>2. CASE f \in StrFields(proto)
    BY <2>2, LayerFields
  <2>3. CASE f \in DictFields(proto)
    <3>1. Kind(proto[f]) = "list" /\ Kind(Data(proto[f])[1]) = "dict"
          /\ f \notin SimpleFields(proto) /\ f \notin StrFields(proto)
      BY <2>3, LayerFields
    <3> QED BY <1>4, <2>3, <3>1
  <2> QED BY <2>1, <2>2, <2>3, LayerFields
<1>6. /\ \A f \in SimpleFields(proto) : f \in DOMAIN proto
      /\ \A f \in DictFields(proto) : f \in DOMAIN proto
  BY DEF SimpleFields, DictFields, ListFields
<1> QED BY <1>1, <1>2, <1>3, <1>5, <1>6 DEF FineInner, FineWith, FitsWith

LEMMA FineOuterLayer ==
  ASSUME NEW proto, Layer(proto), Plain(proto), NEW d
  PROVE  Fine(proto, d) <=> FineWith(proto, d, InnerOk(proto, d))
<1>1. ValidDict(proto, d) <=>
        /\ DOMAIN d = DOMAIN proto
        /\ \A f \in DOMAIN proto :
             IF Kind(proto[f]) = "list"
             THEN /\ Kind(d[f]) = "list"
                  /\ \A k \in DOMAIN Data(d[f]) :
                       /\ Kind(Data(d[f])[k]) = Kind(Data(proto[f])[1])
                       /\ Kind(Data(d[f])[k]) = "dict" =>
                            ValidInner(Inner(proto, f), DictIn(d, f, k))
             ELSE \/ Kind(d[f]) \in {"null", Kind(proto[f])}
                  \/ Kind(proto[f]) = "num" /\ Kind(d[f]) = "bool"
  BY DEF Plain, ValidDict, ValidIn, DictIn
<1>2. Sound(d, proto) <=>
        /\ \A f \in SimpleFields(proto) : Kind(d[f]) \in {"null", Kind(proto[f])}
        /\ \A f \in DictFields(proto) : \A k \in DOMAIN Data(d[f]) :
             SoundInner(DictIn(d, f, k), Inner(proto, f))
  BY DEF Sound, KindsFit
<1>3. PICK ok : ok = InnerOk(proto, d)
  OBVIOUS
<1>4. ASSUME NEW f \in DictFields(proto)
      PROVE  \A k : k \in ok[f] <=>
               /\ k \in DOMAIN Data(d[f]) /\ Kind(Data(d[f])[k]) = "dict"
               /\ ValidInner(Inner(proto, f), DictIn(d, f, k))
               /\ SoundInner(DictIn(d, f, k), Inner(proto, f))
  BY <1>3 DEF InnerOk, FineInner
<1>5. ASSUME NEW f \in DOMAIN proto
      PROVE  (/\ IF Kind(proto[f]) = "list"
                 THEN /\ Kind(d[f]) = "list"
                      /\ \A k \in DOMAIN Data(d[f]) :
                           /\ Kind(Data(d[f])[k]) = Kind(Data(proto[f])[1])
                           /\ Kind(Data(d[f])[k]) = "dict" =>
                                ValidInner(Inner(proto, f), DictIn(d, f, k))
                 ELSE \/ Kind(d[f]) \in {"null", Kind(proto[f])}
                      \/ Kind(proto[f]) = "num" /\ Kind(d[f]) = "bool"
              /\ f \in SimpleFields(proto) => Kind(d[f]) \in {"null", Kind(proto[f])}
              /\ f \in DictFields(proto) => \A k \in DOMAIN Data(d[f]) :
                   SoundInner(DictIn(d, f, k), Inner(proto, f)))
             <=> /\ f \in SimpleFields(proto) => Kind(d[f]) \in {"null", Kind(proto[f])}
                 /\ f \in StrFields(proto) =>
                      Kind(d[f]) = "list" /\ \A k \in DOMAIN Data(d[f]) : Kind(Data(d[f])[k]) = "str"
                 /\ f \in DictFields(proto) =>
                      Kind(d[f]) = "list" /\ DOMAIN Data(d[f]) \subseteq ok[f]
  <2>1. CASE f \in SimpleFields(proto)
    BY <2>1, LayerFields
  <2>2. CASE f \in StrFields(proto)
    BY <2>2, LayerFields
  <2>3. CASE f \in DictFields(proto)
    <3>1. Kind(proto[f]) = "list" /\ Kind(Data(proto[f])[1]) = "dict"
          /\ f \notin SimpleFields(proto) /\ f \notin StrFields(proto)
      BY <2>3, LayerFields
    <3> QED BY <1>4, <2>3, <3>1
  <2> QED BY <2>1, <2>2, <2>3, LayerFields
<1>6. /\ \A f \in SimpleFields(proto) : f \in DOMAIN proto
      /\ \A f \in DictFields(proto) : f \in DOMAIN proto
  BY DEF SimpleFields, DictFields, ListFields
<1> QED BY <1>1, <1>2, <1>3, <1>5, <1>6 DEF Fine, FineWith, FitsWith

\* One layer filled in.  What is said of its lists: table has their elements
\* filled in, good the positions that fit, and ok those that came out fine.
Filling(proto, d, table, x, good, ok) ==
  /\ \A f \in DictFields(proto) : f \notin DOMAIN d => DOMAIN table[f] = {}
  /\ \A f \in DictFields(proto) : f \in DOMAIN d /\ Kind(d[f]) = "list" =>
       /\ DOMAIN table[f] = DOMAIN Data(d[f])
       /\ \A k \in DOMAIN Data(d[f]) : k \in good[f] => table[f][k] # Crash
       /\ x # Crash /\ Data(x)[f] = List(table[f]) =>
            \A k \in DOMAIN Data(d[f]) : k \in good[f] <=> k \in ok[f]

LEMMA FilledFits ==
  ASSUME NEW proto, Layer(proto), Plain(proto), NEW d, NEW table,
         NEW x, x = FillWith(proto, d, table), NEW good, NEW ok,
         Filling(proto, d, table, x, good, ok)
  PROVE  FitsWith(proto, d, good) <=> x # Crash /\ FineWith(proto, Data(x), ok)
<1>0. /\ \A f \in DictFields(proto) : f \notin DOMAIN d => DOMAIN table[f] = {}
      /\ \A f \in DictFields(proto) : f \in DOMAIN d /\ Kind(d[f]) = "list" =>
           /\ DOMAIN table[f] = DOMAIN Data(d[f])
           /\ \A k \in DOMAIN Data(d[f]) : k \in good[f] => table[f][k] # Crash
           /\ x # Crash /\ Data(x)[f] = List(table[f]) =>
                \A k \in DOMAIN Data(d[f]) : k \in good[f] <=> k \in ok[f]
  BY DEF Filling
<1> DEFINE filled == WithDefaults(proto, d)
           result == FilledFields(proto, d, table)
<1>1. /\ DOMAIN filled = DOMAIN d \cup DOMAIN proto /\ DOMAIN result = DOMAIN filled
      /\ \A f \in DOMAIN d : filled[f] = d[f]
      /\ \A f \in DOMAIN proto : f \notin DOMAIN d => filled[f] = DefaultValue(proto, f)
  BY DEF WithDefaults, Merged, FilledFields
<1>2. ToSet(DictLists(proto)) = DictFields(proto)
  BY FieldsInOrder DEF Layer
<1>3. ASSUME NEW f \in DOMAIN filled
      PROVE  /\ f \notin DictFields(proto) => result[f] = filled[f]
             /\ f \in DictFields(proto) =>
                  /\ Kind(filled[f]) \in {"null", "num", "bool"} => result[f] = Crash
                  /\ Kind(filled[f]) = "list" =>
                       result[f] = IF Crash \in ToSet(table[f]) THEN Crash ELSE List(table[f])
                  /\ Kind(filled[f]) \notin {"null", "num", "bool", "list"} => result[f] = filled[f]
  BY <1>2 DEF FilledFields, FilledField
<1>4. x = IF \E f \in DOMAIN filled : result[f] = Crash THEN Crash ELSE Dict(result)
  BY DEF FillWith
<1>5. Kind(Crash) = "crash" /\ Crash # Dict(result) /\ Data(Dict(result)) = result
      /\ Kind(Null) = "null" /\ Kind(List(<<>>)) = "list" /\ DOMAIN Data(List(<<>>)) = {}
      /\ \A s : Kind(List(s)) = "list" /\ Data(List(s)) = s
  BY DEF Crash, Dict, Kind, Data, Null, List
<1> HIDE DEF filled, result
<1>6. ASSUME NEW f \in DictFields(proto), f \in DOMAIN d, Kind(d[f]) = "list"
      PROVE  Crash \in ToSet(table[f]) <=> \E k \in DOMAIN Data(d[f]) : table[f][k] = Crash
  BY <1>0, <1>6 DEF ToSet
<1>7. ASSUME FitsWith(proto, d, good)
      PROVE  x # Crash /\ FineWith(proto, Data(x), ok)
  <2>1. DOMAIN d \subseteq DOMAIN proto
    BY <1>7 DEF FitsWith
  <2>2. ASSUME NEW f \in DOMAIN proto, f \in SimpleFields(proto)
        PROVE  result[f] # Crash /\ Kind(result[f]) \in {"null", Kind(proto[f])}
    <3>1. result[f] = filled[f] /\ Kind(proto[f]) \in Simple
      BY <1>1, <1>3, <2>2, LayerFields
    <3>2. Kind(filled[f]) \in {"null", Kind(proto[f])}
      BY <1>1, <1>5, <1>7, <2>2, LayerFields DEF FitsWith, DefaultValue, Plain
    <3> QED BY <1>5, <3>1, <3>2 DEF Simple
  <2>3. ASSUME NEW f \in DOMAIN proto, f \in StrFields(proto)
        PROVE  /\ result[f] # Crash /\ Kind(result[f]) = "list"
               /\ \A k \in DOMAIN Data(result[f]) : Kind(Data(result[f])[k]) = "str"
    <3>1. result[f] = filled[f]
      BY <1>1, <1>3, <2>3, LayerFields
    <3>2. Kind(filled[f]) = "list" /\ \A k \in DOMAIN Data(filled[f]) : Kind(Data(filled[f])[k]) = "str"
      BY <1>1, <1>5, <1>7, <2>3, LayerFields DEF FitsWith, DefaultValue
    <3> QED BY <1>5, <3>1, <3>2
  <2>4. ASSUME NEW f \in DOMAIN proto, f \in DictFields(proto), f \in DOMAIN d
        PROVE  /\ Kind(d[f]) = "list" /\ DOMAIN Data(d[f]) \subseteq good[f]
               /\ result[f] = List(table[f])
    <3>1. Kind(d[f]) = "list" /\ DOMAIN Data(d[f]) \subseteq good[f]
      BY <1>7, <2>4 DEF FitsWith
    <3>2. Crash \notin ToSet(table[f])
      BY <1>0, <1>6, <2>4, <3>1
    <3> QED BY <1>1, <1>3, <2>4, <3>1, <3>2
  <2>5. ASSUME NEW f \in DOMAIN proto, f \in DictFields(proto), f \notin DOMAIN d
        PROVE  result[f] = List(table[f]) /\ DOMAIN table[f] = {}
    <3>1. filled[f] = List(<<>>)
      BY <1>1, <2>5, LayerFields DEF DefaultValue
    <3>2. DOMAIN table[f] = {} /\ Crash \notin ToSet(table[f])
      BY <1>0, <2>5 DEF ToSet
    <3> QED BY <1>1, <1>3, <1>5, <2>5, <3>1, <3>2
  <2>6. ASSUME NEW f \in DOMAIN proto PROVE result[f] # Crash
    BY <1>5, <2>2, <2>3, <2>4, <2>5, LayerFields
  <2>7. x # Crash /\ Data(x) = result /\ DOMAIN result = DOMAIN proto
    BY <1>1, <1>4, <1>5, <2>1, <2>6
  <2>8. ASSUME NEW f \in DOMAIN proto, f \in DictFields(proto)
        PROVE  Kind(result[f]) = "list" /\ DOMAIN Data(result[f]) \subseteq ok[f]
    <3>1. CASE f \in DOMAIN d
      <4>1. /\ Kind(d[f]) = "list" /\ DOMAIN Data(d[f]) \subseteq good[f]
            /\ result[f] = List(table[f])
        BY <2>4, <2>8, <3>1
      <4>2. DOMAIN table[f] = DOMAIN Data(d[f])
            /\ \A k \in DOMAIN Data(d[f]) : k \in good[f] <=> k \in ok[f]
        BY <1>0, <2>7, <2>8, <3>1, <4>1
      <4> QED BY <1>5, <4>1, <4>2
    <3>2. CASE f \notin DOMAIN d
      <4>1. result[f] = List(table[f]) /\ DOMAIN table[f] = {}
        BY <2>5, <2>8, <3>2
      <4> QED BY <1>5, <4>1
    <3> QED BY <3>1, <3>2
  <2> QED BY <2>2, <2>3, <2>7, <2>8 DEF FineWith, FitsWith
<1>8. ASSUME x # Crash, FineWith(proto, Data(x), ok)
      PROVE  FitsWith(proto, d, good)
  <2>1. Data(x) = result /\ \A f \in DOMAIN filled : result[f] # Crash
    BY <1>4, <1>5, <1>8
  <2>2. DOMAIN d \subseteq DOMAIN proto
    BY <1>1, <1>8, <2>1 DEF FineWith
  <2>3. ASSUME NEW f \in DOMAIN d, f \notin DictFields(proto)
        PROVE  /\ f \in SimpleFields(proto) => Kind(d[f]) \in {"null", Kind(proto[f])}
               /\ f \in StrFields(proto) =>
                    Kind(d[f]) = "list" /\ \A k \in DOMAIN Data(d[f]) : Kind(Data(d[f])[k]) = "str"
    <3>1. result[f] = d[f]
      BY <1>1, <1>3, <2>3
    <3> QED BY <1>1, <1>8, <2>1, <2>3, <3>1 DEF FineWith, FitsWith
  <2>4. ASSUME NEW f \in DOMAIN d, f \in DictFields(proto)
        PROVE  Kind(d[f]) = "list" /\ DOMAIN Data(d[f]) \subseteq good[f]
    <3>1. Kind(result[f]) = "list" /\ DOMAIN Data(result[f]) \subseteq ok[f]
      BY <1>1, <1>8, <2>1, <2>4 DEF FineWith, FitsWith
    <3>2. filled[f] = d[f] /\ result[f] # Crash
      BY <1>1, <2>1
    <3>3. Kind(d[f]) = "list"
      BY <1>1, <1>3, <2>4, <3>1, <3>2
    <3>4. result[f] = List(table[f])
      BY <1>1, <1>3, <2>4, <3>2, <3>3
    <3>5. /\ DOMAIN table[f] = DOMAIN Data(d[f])
          /\ \A k \in DOMAIN Data(d[f]) : k \in good[f] <=> k \in ok[f]
      BY <1>0, <1>8, <2>1, <2>4, <3>3, <3>4
    <3> QED BY <1>5, <3>1, <3>3, <3>4, <3>5
  <2> QED BY <2>2, <2>3, <2>4, LayerFields DEF FitsWith
<1> QED BY <1>7, <1>8

LEMMA FilledFitsInnermost ==
  ASSUME NEW proto, InnermostLayer(proto), Plain(proto), NEW d, NEW x, x = FillInInnermost(proto, d)
  PROVE  InnermostFits(proto, Dict(d)) <=> x # Crash /\ FineInnermost(proto, Data(x))
<1>1. Layer(proto) /\ DictFields(proto) = {}
  BY DEF InnermostLayer
<1>2. PICK table, good : table = InnermostTable(proto, d) /\ good = {}
  OBVIOUS
<1>3. x = FillWith(proto, d, table)
  BY <1>2, FillsInnermost
<1>4. FitsWith(proto, d, good) <=> x # Crash /\ FineWith(proto, Data(x), good)
  <2>1. Filling(proto, d, table, x, good, good)
    BY <1>1 DEF Filling
  <2> QED BY <1>1, <1>3, <2>1, FilledFits
<1> QED BY <1>4, FitsInnermost, FineLayer

LEMMA FilledFitsInner ==
  ASSUME NEW proto, InnerLayer(proto), InnerPlain(proto), NEW d, InnerJsonDict(d),
         NEW x, x = FillInInner(proto, d)
  PROVE  InnerFits(proto, Dict(d)) <=> x # Crash /\ FineInner(proto, Data(x))
<1>1. /\ Layer(proto) /\ \A f \in DictFields(proto) : InnermostLayer(Inner(proto, f))
      /\ Plain(proto) /\ \A f \in DictFields(proto) : Plain(Inner(proto, f))
  BY DEF InnerLayer, InnerPlain
<1>2. PICK table : table = InnerTableOf(proto, d)
  OBVIOUS
<1>3. x = FillWith(proto, d, table)
  BY <1>2, FillsInner
<1>4. PICK good : good = InnermostFitting(proto, d)
  OBVIOUS
<1>5. PICK ok : ok = InnermostOk(proto, Data(x))
  OBVIOUS
<1>6. ASSUME NEW f \in DictFields(proto)
      PROVE  f \in DOMAIN proto /\ f \in DOMAIN WithDefaults(proto, d)
             /\ WithDefaults(proto, d)[f] = IF f \in DOMAIN d THEN d[f] ELSE List(<<>>)
  BY <1>1, LayerFields DEF WithDefaults, Merged, DefaultValue, DictFields, ListFields
<1>7. ASSUME NEW f \in DictFields(proto), f \notin DOMAIN d PROVE DOMAIN table[f] = {}
  <2>1. DOMAIN table[f] = DOMAIN Data(List(<<>>))
    BY <1>2, <1>6, <1>7 DEF InnerTableOf, FillTable
  <2> QED BY <2>1, Tagged
<1>8. ASSUME NEW f \in DictFields(proto), f \in DOMAIN d, Kind(d[f]) = "list"
      PROVE  /\ DOMAIN table[f] = DOMAIN Data(d[f])
             /\ \A k \in DOMAIN Data(d[f]) : k \in good[f] => table[f][k] # Crash
             /\ x # Crash /\ Data(x)[f] = List(table[f]) =>
                  \A k \in DOMAIN Data(d[f]) : k \in good[f] <=> k \in ok[f]
  <2>1. table[f] = [k \in DOMAIN Data(d[f]) |->
                      IF Kind(Data(d[f])[k]) = "dict"
                      THEN FillInInnermost(Inner(proto, f), Data(Data(d[f])[k])) ELSE Data(d[f])[k]]
    BY <1>2, <1>6, <1>8 DEF InnerTableOf, FillTable
  <2>2. ASSUME NEW k \in DOMAIN Data(d[f])
        PROVE  k \in good[f] <=> /\ table[f][k] # Crash /\ Kind(table[f][k]) = "dict"
                                 /\ FineInnermost(Inner(proto, f), Data(table[f][k]))
    <3>1. PICK e : e = Data(d[f])[k]
      OBVIOUS
    <3>2. PICK y : y = table[f][k]
      OBVIOUS
    <3>3. PICK p : p = Inner(proto, f)
      OBVIOUS
    <3>4. k \in good[f] <=> InnermostFits(p, e)
      BY <1>4, <3>1, <3>3 DEF InnermostFitting
    <3>5. IsValue(e) /\ e \in ToSet(Data(d[f]))
      <4>1. JsonLayer(d)
        BY JsonLayers
      <4>2. IsValue(d[f]) /\ Data(d[f]) \in Seq(ToSet(Data(d[f])))
            /\ \A z \in ToSet(Data(d[f])) : IsValue(z)
        BY <1>8, <4>1 DEF JsonLayer
      <4> QED BY <1>8, <3>1, <4>2, ListOfJson
    <3>6. CASE Kind(e) = "dict"
      <4>1. e = Dict(Data(e)) /\ y = FillInInnermost(p, Data(e))
        BY <2>1, <3>1, <3>2, <3>3, <3>5, <3>6 DEF IsValue, Dict
      <4>2. InnermostJsonDict(Data(e))
        BY <1>8, <3>5, <3>6, JsonLayers
      <4>3. InnermostFits(p, Dict(Data(e))) <=> y # Crash /\ FineInnermost(p, Data(y))
        BY <1>1, <3>3, <4>1, <4>2, FilledFitsInnermost
      <4>4. y # Crash => Kind(y) = "dict"
        BY <4>1, FillsInnermost, Tagged DEF FillWith
      <4> QED BY <3>2, <3>3, <3>4, <4>1, <4>3, <4>4
    <3>7. CASE Kind(e) # "dict"
      <4>1. ~InnermostFits(p, e)
        BY <3>7 DEF InnermostFits, FitsIn
      <4>2. y = e
        BY <2>1, <3>1, <3>2, <3>7
      <4> QED BY <3>2, <3>4, <3>7, <4>1, <4>2
    <3> QED BY <3>6, <3>7
  <2>3. ASSUME x # Crash, Data(x)[f] = List(table[f]), NEW k \in DOMAIN Data(d[f])
        PROVE  k \in good[f] <=> k \in ok[f]
    <3>1. Data(Data(x)[f]) = table[f] /\ DOMAIN table[f] = DOMAIN Data(d[f])
      BY <2>1, <2>3, Tagged
    <3>2. k \in ok[f] <=> /\ Kind(table[f][k]) = "dict"
                          /\ FineInnermost(Inner(proto, f), Data(table[f][k]))
      <4>1. PICK z : z = Data(x)
        OBVIOUS
      <4>2. k \in ok[f] <=> /\ k \in DOMAIN Data(z[f]) /\ Kind(Data(z[f])[k]) = "dict"
                            /\ FineInnermost(Inner(proto, f), DictIn(z, f, k))
        BY <1>5, <4>1 DEF InnermostOk
      <4> QED BY <3>1, <4>1, <4>2 DEF DictIn
    <3>3. Kind(Crash) # "dict"
      BY DEF Kind, Crash
    <3> QED BY <2>2, <2>3, <3>2, <3>3
  <2> QED BY <2>1, <2>2, <2>3
<1>9. FitsWith(proto, d, good) <=> x # Crash /\ FineWith(proto, Data(x), ok)
  <2>1. Filling(proto, d, table, x, good, ok)
    BY <1>7, <1>8 DEF Filling
  <2> QED BY <1>1, <1>3, <2>1, FilledFits
<1>10. InnerFits(proto, Dict(d)) <=> FitsWith(proto, d, good)
  BY <1>1, <1>4, FitsInner
<1>11. FineInner(proto, Data(x)) <=> FineWith(proto, Data(x), ok)
  BY <1>1, <1>5, FineInnerLayer
<1> QED BY <1>9, <1>10, <1>11

LEMMA FilledFitsOuter ==
  ASSUME NEW proto, Layers(proto), AllPlain(proto), NEW d, JsonDict(d), NEW x, x = FillInDictFields(proto, d)
  PROVE  Fits(proto, Dict(d)) <=> x # Crash /\ Fine(proto, Data(x))
<1>1. /\ Layer(proto) /\ \A f \in DictFields(proto) : InnerLayer(Inner(proto, f))
      /\ Plain(proto) /\ \A f \in DictFields(proto) : InnerPlain(Inner(proto, f))
  BY DEF Layers, AllPlain
<1>2. PICK table : table = OuterTable(proto, d)
  OBVIOUS
<1>3. x = FillWith(proto, d, table)
  BY <1>2, FillsOuter
<1>4. PICK good : good = InnerFitting(proto, d)
  OBVIOUS
<1>5. PICK ok : ok = InnerOk(proto, Data(x))
  OBVIOUS
<1>6. ASSUME NEW f \in DictFields(proto)
      PROVE  f \in DOMAIN proto /\ f \in DOMAIN WithDefaults(proto, d)
             /\ WithDefaults(proto, d)[f] = IF f \in DOMAIN d THEN d[f] ELSE List(<<>>)
  BY <1>1, LayerFields DEF WithDefaults, Merged, DefaultValue, DictFields, ListFields
<1>7. ASSUME NEW f \in DictFields(proto), f \notin DOMAIN d PROVE DOMAIN table[f] = {}
  <2>1. DOMAIN table[f] = DOMAIN Data(List(<<>>))
    BY <1>2, <1>6, <1>7 DEF OuterTable, FillTable
  <2> QED BY <2>1, Tagged
<1>8. ASSUME NEW f \in DictFields(proto), f \in DOMAIN d, Kind(d[f]) = "list"
      PROVE  /\ DOMAIN table[f] = DOMAIN Data(d[f])
             /\ \A k \in DOMAIN Data(d[f]) : k \in good[f] => table[f][k] # Crash
             /\ x # Crash /\ Data(x)[f] = List(table[f]) =>
                  \A k \in DOMAIN Data(d[f]) : k \in good[f] <=> k \in ok[f]
  <2>1. table[f] = [k \in DOMAIN Data(d[f]) |->
                      IF Kind(Data(d[f])[k]) = "dict"
                      THEN FillInInner(Inner(proto, f), Data(Data(d[f])[k])) ELSE Data(d[f])[k]]
    BY <1>2, <1>6, <1>8 DEF OuterTable, FillTable
  <2>2. ASSUME NEW k \in DOMAIN Data(d[f])
        PROVE  k \in good[f] <=> /\ table[f][k] # Crash /\ Kind(table[f][k]) = "dict"
                                 /\ FineInner(Inner(proto, f), Data(table[f][k]))
    <3>1. PICK e : e = Data(d[f])[k]
      OBVIOUS
    <3>2. PICK y : y = table[f][k]
      OBVIOUS
    <3>3. PICK p : p = Inner(proto, f)
      OBVIOUS
    <3>4. k \in good[f] <=> InnerFits(p, e)
      BY <1>4, <3>1, <3>3 DEF InnerFitting
    <3>5. IsValue(e) /\ e \in ToSet(Data(d[f]))
      <4>1. JsonLayer(d)
        BY JsonLayers
      <4>2. IsValue(d[f]) /\ Data(d[f]) \in Seq(ToSet(Data(d[f])))
            /\ \A z \in ToSet(Data(d[f])) : IsValue(z)
        BY <1>8, <4>1 DEF JsonLayer
      <4> QED BY <1>8, <3>1, <4>2, ListOfJson
    <3>6. CASE Kind(e) = "dict"
      <4>1. e = Dict(Data(e)) /\ y = FillInInner(p, Data(e))
        BY <2>1, <3>1, <3>2, <3>3, <3>5, <3>6 DEF IsValue, Dict
      <4>2. InnerJsonDict(Data(e))
        BY <1>8, <3>5, <3>6, JsonLayers
      <4>3. InnerFits(p, Dict(Data(e))) <=> y # Crash /\ FineInner(p, Data(y))
        BY <1>1, <3>3, <4>1, <4>2, FilledFitsInner
      <4>4. y # Crash => Kind(y) = "dict"
        BY <4>1, FillsInner, Tagged DEF FillWith
      <4> QED BY <3>2, <3>3, <3>4, <4>1, <4>3, <4>4
    <3>7. CASE Kind(e) # "dict"
      <4>1. ~InnerFits(p, e)
        BY <3>7 DEF InnerFits, FitsIn
      <4>2. y = e
        BY <2>1, <3>1, <3>2, <3>7
      <4> QED BY <3>2, <3>4, <3>7, <4>1, <4>2
    <3> QED BY <3>6, <3>7
  <2>3. ASSUME x # Crash, Data(x)[f] = List(table[f]), NEW k \in DOMAIN Data(d[f])
        PROVE  k \in good[f] <=> k \in ok[f]
    <3>1. Data(Data(x)[f]) = table[f] /\ DOMAIN table[f] = DOMAIN Data(d[f])
      BY <2>1, <2>3, Tagged
    <3>2. k \in ok[f] <=> /\ Kind(table[f][k]) = "dict"
                          /\ FineInner(Inner(proto, f), Data(table[f][k]))
      <4>1. PICK z : z = Data(x)
        OBVIOUS
      <4>2. k \in ok[f] <=> /\ k \in DOMAIN Data(z[f]) /\ Kind(Data(z[f])[k]) = "dict"
                            /\ FineInner(Inner(proto, f), DictIn(z, f, k))
        BY <1>5, <4>1 DEF InnerOk
      <4> QED BY <3>1, <4>1, <4>2 DEF DictIn
    <3>3. Kind(Crash) # "dict"
      BY DEF Kind, Crash
    <3> QED BY <2>2, <2>3, <3>2, <3>3
  <2> QED BY <2>1, <2>2, <2>3
<1>9. FitsWith(proto, d, good) <=> x # Crash /\ FineWith(proto, Data(x), ok)
  <2>1. Filling(proto, d, table, x, good, ok)
    BY <1>7, <1>8 DEF Filling
  <2> QED BY <1>1, <1>3, <2>1, FilledFits
<1>10. Fits(proto, Dict(d)) <=> FitsWith(proto, d, good)
  BY <1>1, <1>4, FitsInner
<1>11. Fine(proto, Data(x)) <=> FineWith(proto, Data(x), ok)
  BY <1>1, <1>5, FineOuterLayer
<1> QED BY <1>9, <1>10, <1>11

-----------------------------------------------------------------------------
(* The schema: the columns of each table, by the visits they come from.    *)

Entry(table, column, kind) == <<table, column, kind>>

LEMMA EntryParts ==
  \A t, c, k : /\ Entry(t, c, k)[1] = t /\ Entry(t, c, k)[2] = c /\ Entry(t, c, k)[3] = k
               /\ \A u, d, l : Entry(t, c, k) = Entry(u, d, l) => t = u /\ c = d /\ k = l
BY DEF Entry

ColumnNames       == ToSet(FieldNames) \cup PositionNames \cup {"id"}
EntriesOf(table)  == {Entry(table, c, k) : c \in ColumnNames, k \in Simple}
EntriesFor(table, names, kinds) ==
  [n \in DOMAIN names |-> Entry(table, names[n], kinds[n])]

\* A sequence of entries, one for each of some names.
LEMMA EachEntered ==
  ASSUME NEW table, NEW names \in Seq(ColumnNames), NEW kinds,
         \A n \in DOMAIN names : kinds[n] \in Simple
  PROVE  /\ EntriesFor(table, names, kinds) \in Seq(EntriesOf(table))
         /\ \A x : x \in ToSet(EntriesFor(table, names, kinds)) <=>
              \E n \in DOMAIN names : x = Entry(table, names[n], kinds[n])
<1> DEFINE s == EntriesFor(table, names, kinds)
<1>1. PICK len \in Nat : DOMAIN names = 1 .. len /\ \A n \in 1 .. len : names[n] \in ColumnNames
  OBVIOUS
<1>2. /\ s = [n \in 1 .. len |-> s[n]] /\ DOMAIN s = 1 .. len
      /\ \A n \in 1 .. len : s[n] = Entry(table, names[n], kinds[n])
  BY <1>1 DEF EntriesFor
<1> HIDE DEF s
<1>3. \A n \in 1 .. len : s[n] \in EntriesOf(table)
  BY <1>1, <1>2 DEF EntriesOf
<1>4. s \in Seq(EntriesOf(table))
  BY <1>2, <1>3
<1>5. \A x : x \in ToSet(s) <=> \E n \in 1 .. len : x = s[n]
  BY <1>2 DEF ToSet
<1>6. \A x : x \in ToSet(s) <=> \E n \in DOMAIN names : x = Entry(table, names[n], kinds[n])
  BY <1>1, <1>2, <1>5
<1> QED BY <1>4, <1>6 DEF s

\* The same kind for each of the names.
OfKind(table, names, kind) == [n \in DOMAIN names |-> <<table, names[n], kind>>]

LEMMA EachOfKind ==
  ASSUME NEW table, NEW names \in Seq(ColumnNames), NEW kind \in Simple
  PROVE  /\ OfKind(table, names, kind) \in Seq(EntriesOf(table))
         /\ \A x : x \in ToSet(OfKind(table, names, kind)) <=>
              \E n \in ToSet(names) : x = Entry(table, n, kind)
<1>1. PICK kinds : kinds = [n \in DOMAIN names |-> kind]
  OBVIOUS
<1>2. OfKind(table, names, kind) = EntriesFor(table, names, kinds)
  BY <1>1 DEF OfKind, EntriesFor, Entry
<1>3. \A n \in DOMAIN names : kinds[n] \in Simple /\ kinds[n] = kind
  BY <1>1
<1>4. \A x : (\E n \in DOMAIN names : x = Entry(table, names[n], kinds[n]))
               <=> \E n \in ToSet(names) : x = Entry(table, n, kind)
  BY <1>3 DEF ToSet
<1>5. /\ EntriesFor(table, names, kinds) \in Seq(EntriesOf(table))
      /\ \A x : x \in ToSet(EntriesFor(table, names, kinds)) <=>
           \E n \in DOMAIN names : x = Entry(table, names[n], kinds[n])
  BY <1>3, EachEntered
<1>6. PICK s : s = OfKind(table, names, kind)
  OBVIOUS
<1>7. s \in Seq(EntriesOf(table)) /\ \A x : x \in ToSet(s) <=>
           \E n \in DOMAIN names : x = Entry(table, names[n], kinds[n])
  BY ONLY <1>2, <1>5, <1>6
<1>8. \A x : x \in ToSet(s) <=> \E n \in ToSet(names) : x = Entry(table, n, kind)
  BY ONLY <1>4, <1>7
<1> QED BY ONLY <1>6, <1>7, <1>8

\* The columns of simple fields, each of the kind of its field.
OfFields(table, names, proto) == [n \in DOMAIN names |-> <<table, names[n], Kind(proto[names[n]])>>]

LEMMA EachOfField ==
  ASSUME NEW table, NEW proto, DOMAIN proto \subseteq ToSet(FieldNames)
  PROVE  /\ OfFields(table, SimpleColumns(proto), proto) \in Seq(EntriesOf(table))
         /\ \A x : x \in ToSet(OfFields(table, SimpleColumns(proto), proto)) <=>
              \E c \in SimpleFields(proto) : x = Entry(table, c, Kind(proto[c]))
<1>1. PICK names : names = SimpleColumns(proto)
  OBVIOUS
<1>2. names \in Seq(SimpleFields(proto)) /\ ToSet(names) = SimpleFields(proto)
  BY <1>1, FieldsInOrder
<1>3. /\ SimpleFields(proto) \subseteq ColumnNames
      /\ \A c \in SimpleFields(proto) : Kind(proto[c]) \in Simple
  BY DEF SimpleFields, ColumnNames
<1>4. PICK kinds : kinds = [n \in DOMAIN names |-> Kind(proto[names[n]])]
  OBVIOUS
<1>5. OfFields(table, names, proto) = EntriesFor(table, names, kinds)
  BY <1>4 DEF OfFields, EntriesFor, Entry
<1>6. \A n \in DOMAIN names : names[n] \in SimpleFields(proto)
  BY <1>2
<1>7. \A n \in DOMAIN names : kinds[n] = Kind(proto[names[n]]) /\ kinds[n] \in Simple
  BY <1>3, <1>4, <1>6
<1>8. names \in Seq(ColumnNames)
  BY <1>2, <1>3
<1>9. \A x : (\E n \in DOMAIN names : x = Entry(table, names[n], kinds[n]))
               <=> \E c \in ToSet(names) : x = Entry(table, c, Kind(proto[c]))
  BY <1>7 DEF ToSet
<1>10. /\ EntriesFor(table, names, kinds) \in Seq(EntriesOf(table))
       /\ \A x : x \in ToSet(EntriesFor(table, names, kinds)) <=>
            \E n \in DOMAIN names : x = Entry(table, names[n], kinds[n])
  BY <1>7, <1>8, EachEntered
<1>11. PICK s : s = OfFields(table, names, proto)
  OBVIOUS
<1>12. s \in Seq(EntriesOf(table)) /\ \A x : x \in ToSet(s) <=>
            \E n \in DOMAIN names : x = Entry(table, names[n], kinds[n])
  BY ONLY <1>5, <1>10, <1>11
<1>13. \A x : x \in ToSet(s) <=> \E c \in SimpleFields(proto) : x = Entry(table, c, Kind(proto[c]))
  BY ONLY <1>2, <1>9, <1>12
<1> QED BY ONLY <1>1, <1>11, <1>12, <1>13

\* Of a list: the id, the positions, and the rest.
ListEntries(table, positions, rest) ==
  OfKind(table, <<"id">>, "str") \o OfKind(table, positions, "num") \o rest

LEMMA ListEntered ==
  ASSUME NEW table, NEW positions \in Seq(PositionNames), NEW rest \in Seq(EntriesOf(table))
  PROVE  /\ ListEntries(table, positions, rest) \in Seq(EntriesOf(table))
         /\ \A x : x \in ToSet(ListEntries(table, positions, rest)) <=>
              \/ x = Entry(table, "id", "str")
              \/ \E n \in ToSet(positions) : x = Entry(table, n, "num")
              \/ x \in ToSet(rest)
<1>1. PICK T, a, b :
        /\ T = EntriesOf(table) /\ a = OfKind(table, <<"id">>, "str")
        /\ b = OfKind(table, positions, "num")
  OBVIOUS
<1>2. "id" \in ColumnNames /\ PositionNames \subseteq ColumnNames
      /\ "str" \in Simple /\ "num" \in Simple
  BY DEF ColumnNames, Simple
<1>3. <<"id">> \in Seq(ColumnNames) /\ ToSet(<<"id">>) = {"id"}
  <2>1. <<"id">> \in Seq(ColumnNames)
    BY <1>2
  <2>2. DOMAIN <<"id">> = {1} /\ <<"id">>[1] = "id"
    OBVIOUS
  <2> QED BY <2>1, <2>2 DEF ToSet
<1>4. a \in Seq(T) /\ \A x : x \in ToSet(a) <=> x = Entry(table, "id", "str")
  <2>1. PICK ids : ids = <<"id">>
    OBVIOUS
  <2>2. ids \in Seq(ColumnNames) /\ ToSet(ids) = {"id"} /\ a = OfKind(table, ids, "str")
    BY <1>1, <1>3, <2>1
  <2>3. a \in Seq(T) /\ \A x : x \in ToSet(a) <=> \E n \in ToSet(ids) : x = Entry(table, n, "str")
    BY ONLY <1>1, <1>2, <2>2, EachOfKind
  <2> QED BY ONLY <2>2, <2>3
<1>5. positions \in Seq(ColumnNames)
  BY <1>2
<1>6. b \in Seq(T) /\ \A x : x \in ToSet(b) <=> \E n \in ToSet(positions) : x = Entry(table, n, "num")
  <2>1. PICK num : num = "num"
    OBVIOUS
  <2>2. num \in Simple /\ b = OfKind(table, positions, num)
    BY <1>1, <1>2, <2>1
  <2>3. /\ OfKind(table, positions, num) \in Seq(EntriesOf(table))
        /\ \A x : x \in ToSet(OfKind(table, positions, num)) <=>
             \E n \in ToSet(positions) : x = Entry(table, n, num)
    <3>1. num \in Simple
      BY <2>2
    <3> QED BY <1>5, <3>1, EachOfKind
  <2> QED BY ONLY <1>1, <2>1, <2>2, <2>3
<1>7. a \o b \in Seq(T) /\ ToSet(a \o b) = ToSet(a) \cup ToSet(b)
  BY <1>4, <1>6, RangeOfJoined
<1>8. PICK ab : ab = a \o b
  OBVIOUS
<1>9. ab \o rest \in Seq(T) /\ ToSet(ab \o rest) = ToSet(ab) \cup ToSet(rest)
  <2>1. ab \in Seq(T) /\ rest \in Seq(T)
    BY <1>1, <1>7, <1>8
  <2> QED BY ONLY <2>1, RangeOfJoined
<1>10. ListEntries(table, positions, rest) = ab \o rest
  BY <1>1, <1>8 DEF ListEntries
<1> QED BY <1>1, <1>4, <1>6, <1>7, <1>8, <1>9, <1>10

ThreePath(f, g, s) == <<f, g, s>>

\* Where the strings in a dict of a list in a list would be.
ThirdTable(main, f, g, s, issub) ==
  TableOf(main, IF issub THEN TwoPath(f, g) ELSE ThreePath(f, g, s))

LEMMA SchemaTables ==
  ASSUME NEW main, NEW issub \in BOOLEAN, NEW f, NEW g, NEW s
  PROVE  /\ SchemaTable(main, NoPath, issub) = TableOf(main, NoPath)
         /\ SchemaTable(main, OnePath(f), issub) = TableOf(main, OnePath(f))
         /\ SchemaTable(main, TwoPath(f, g), issub) = TableOf(main, TwoPath(f, g))
         /\ SchemaTable(main, ThreePath(f, g, s), issub) = ThirdTable(main, f, g, s, issub)
<1>1. ASSUME NEW n \in Nat PROVE Min({2, n}) = IF n < 2 THEN n ELSE 2
  BY DEF Min
<1>2. ASSUME NEW p, SubSeq(p, 1, Min({2, Len(p)})) = p
      PROVE  SchemaTable(main, p, issub) = TableOf(main, p)
  BY <1>2 DEF SchemaTable
<1>3. SubSeq(NoPath, 1, Min({2, Len(NoPath)})) = NoPath
  <2>1. Min({2, Len(NoPath)}) = 0
    BY <1>1 DEF NoPath
  <2> QED BY <2>1 DEF NoPath
<1>4. SubSeq(OnePath(f), 1, Min({2, Len(OnePath(f))})) = OnePath(f)
  <2>1. Min({2, Len(OnePath(f))}) = 1
    BY <1>1 DEF OnePath
  <2>2. PICK p, S : p = OnePath(f) /\ S = {f}
    OBVIOUS
  <2>3. p \in Seq(S) /\ Len(p) = 1
    BY <2>2 DEF OnePath
  <2> QED BY <2>1, <2>2, <2>3
<1>5. SubSeq(TwoPath(f, g), 1, Min({2, Len(TwoPath(f, g))})) = TwoPath(f, g)
  <2>1. Min({2, Len(TwoPath(f, g))}) = 2
    BY <1>1 DEF TwoPath
  <2>2. PICK p, S : p = TwoPath(f, g) /\ S = {f, g}
    OBVIOUS
  <2>3. p \in Seq(S) /\ Len(p) = 2
    BY <2>2 DEF TwoPath
  <2> QED BY <2>1, <2>2, <2>3
<1>6. SubSeq(ThreePath(f, g, s), 1, Min({2, Len(ThreePath(f, g, s))})) = TwoPath(f, g)
  <2>1. Min({2, Len(ThreePath(f, g, s))}) = 2
    BY <1>1 DEF ThreePath
  <2>2. PICK p, q, S : p = ThreePath(f, g, s) /\ q = TwoPath(f, g) /\ S = {f, g, s}
    OBVIOUS
  <2>3. p \in Seq(S) /\ Len(p) = 3 /\ q \in Seq(S) /\ Len(q) = 2 /\ p[1] = q[1] /\ p[2] = q[2]
    BY <2>2 DEF TwoPath, ThreePath
  <2>4. SubSeq(p, 1, 2) = q
    BY <2>3
  <2> QED BY <2>1, <2>2, <2>4
<1> QED BY <1>2, <1>3, <1>4, <1>5, <1>6 DEF SchemaTable, ThirdTable

StrListCalls == {"str list", "dict's str list", "inner dict's str list"}

FieldsOf(proto, main, issub, v) ==
  OfFields(SchemaTable(main, v.path, issub), v.columns, PartOf(proto, FirstPart(v)))
ListOfFields(proto, main, issub, v) ==
  ListEntries(SchemaTable(main, v.path, issub), PositionColumns(v), FieldsOf(proto, main, issub, v))
ListOfStrings(main, issub, v) ==
  ListEntries(SchemaTable(main, v.path, issub), PositionColumns(v),
    OfKind(SchemaTable(main, v.path, issub), <<Last(v.path)>>, "str"))

LEMMA ColumnsByCall ==
  ASSUME NEW proto, NEW main, NEW issub, NEW v
  PROVE  /\ v.call = "main dict" =>
              ColumnsAt(proto, main, issub, v) = FieldsOf(proto, main, issub, v)
         /\ v.call \in {"dict list", "inner dict list"} =>
              ColumnsAt(proto, main, issub, v) = ListOfFields(proto, main, issub, v)
         /\ v.call \in StrListCalls =>
              ColumnsAt(proto, main, issub, v) = ListOfStrings(main, issub, v)
         /\ v.call \in {"dict in list", "dict in inner list"} =>
              ColumnsAt(proto, main, issub, v) = <<>>
BY DEF ColumnsAt, ListEntries, OfFields, OfKind, FieldsOf, ListOfFields, ListOfStrings,
       StrListCalls

LEMMA PositionSets ==
  /\ <<"list_pos">> \in Seq(PositionNames) /\ ToSet(<<"list_pos">>) = {"list_pos"}
  /\ <<"dict_list_pos", "list_pos">> \in Seq(PositionNames)
  /\ ToSet(<<"dict_list_pos", "list_pos">>) = {"dict_list_pos", "list_pos"}
  /\ <<"dict_list_pos", "list_pos", "str_list_pos">> \in Seq(PositionNames)
  /\ ToSet(<<"dict_list_pos", "list_pos", "str_list_pos">>) = PositionNames
<1>1. "list_pos" \in PositionNames /\ "dict_list_pos" \in PositionNames
      /\ "str_list_pos" \in PositionNames
  BY DEF PositionNames
<1>2. \A a : ToSet(<<a>>) = {a}
  BY DEF ToSet
<1>3. \A a, b : ToSet(<<a, b>>) = {a, b}
  <2>1. ASSUME NEW a, NEW b PROVE ToSet(<<a, b>>) = {a, b}
    <3>1. DOMAIN <<a, b>> = {1, 2} /\ <<a, b>>[1] = a /\ <<a, b>>[2] = b
      OBVIOUS
    <3> QED BY <3>1 DEF ToSet
  <2> QED BY <2>1
<1>4. \A a, b, c : ToSet(<<a, b, c>>) = {a, b, c}
  <2>1. ASSUME NEW a, NEW b, NEW c PROVE ToSet(<<a, b, c>>) = {a, b, c}
    <3>1. DOMAIN <<a, b, c>> = {1, 2, 3} /\ <<a, b, c>>[1] = a /\ <<a, b, c>>[2] = b
          /\ <<a, b, c>>[3] = c
      OBVIOUS
    <3> QED BY <3>1 DEF ToSet
  <2> QED BY <2>1
<1>5. {"dict_list_pos", "list_pos", "str_list_pos"} = PositionNames
  BY DEF PositionNames
<1>6. /\ <<"list_pos">> \in Seq(PositionNames)
      /\ <<"dict_list_pos", "list_pos">> \in Seq(PositionNames)
      /\ <<"dict_list_pos", "list_pos", "str_list_pos">> \in Seq(PositionNames)
  BY <1>1
<1>7. ToSet(<<"list_pos">>) = {"list_pos"}
  BY <1>2
<1>8. ToSet(<<"dict_list_pos", "list_pos">>) = {"dict_list_pos", "list_pos"}
  BY <1>3
<1>9. ToSet(<<"dict_list_pos", "list_pos", "str_list_pos">>) = PositionNames
  BY <1>4, <1>5
<1> QED BY <1>6, <1>7, <1>8, <1>9

IsField(table, proto, x) == \E c \in SimpleFields(proto) : x = Entry(table, c, Kind(proto[c]))
IsPosition(table, positions, x) ==
  x = Entry(table, "id", "str") \/ \E n \in positions : x = Entry(table, n, "num")
IsStrings(table, s, x) == x = Entry(table, s, "str")

\* A visit to a list of dicts.
IsFieldVisit(q, main, issub, v, table, proto, positions) ==
  /\ v.call \in {"dict list", "inner dict list"}
  /\ table = SchemaTable(main, v.path, issub)
  /\ proto = PartOf(q, FirstPart(v)) /\ DOMAIN proto \subseteq ToSet(FieldNames)
  /\ v.columns = SimpleColumns(proto) /\ positions \in Seq(PositionNames)
  /\ positions = PositionColumns(v)

LEMMA FieldsEntered ==
  ASSUME NEW q, NEW main, NEW issub, NEW v, NEW table, NEW proto, NEW positions,
         IsFieldVisit(q, main, issub, v, table, proto, positions)
  PROVE  /\ ColumnsAt(q, main, issub, v) \in Seq(EntriesOf(table))
         /\ \A x : x \in ToSet(ColumnsAt(q, main, issub, v)) <=>
              IsPosition(table, ToSet(positions), x) \/ IsField(table, proto, x)
<1>1. /\ v.call \in {"dict list", "inner dict list"}
      /\ table = SchemaTable(main, v.path, issub)
      /\ proto = PartOf(q, FirstPart(v)) /\ DOMAIN proto \subseteq ToSet(FieldNames)
      /\ v.columns = SimpleColumns(proto) /\ positions \in Seq(PositionNames)
      /\ positions = PositionColumns(v)
  BY DEF IsFieldVisit
<1>2. PICK rest : rest = OfFields(table, SimpleColumns(proto), proto)
  OBVIOUS
<1>3. rest \in Seq(EntriesOf(table)) /\ \A x : x \in ToSet(rest) <=> IsField(table, proto, x)
  <2>1. /\ OfFields(table, SimpleColumns(proto), proto) \in Seq(EntriesOf(table))
        /\ \A x : x \in ToSet(OfFields(table, SimpleColumns(proto), proto)) <=>
             \E c \in SimpleFields(proto) : x = Entry(table, c, Kind(proto[c]))
    <3>1. DOMAIN proto \subseteq ToSet(FieldNames)
      BY <1>1
    <3> QED BY ONLY <3>1, EachOfField
  <2> QED BY ONLY <1>2, <2>1 DEF IsField
<1>4. ColumnsAt(q, main, issub, v) = ListEntries(table, positions, rest)
  <2>1. ColumnsAt(q, main, issub, v) = ListOfFields(q, main, issub, v)
    BY <1>1, ColumnsByCall
  <2> QED BY <1>1, <1>2, <2>1 DEF ListOfFields, FieldsOf
<1>5. /\ ListEntries(table, positions, rest) \in Seq(EntriesOf(table))
      /\ \A x : x \in ToSet(ListEntries(table, positions, rest)) <=>
           \/ x = Entry(table, "id", "str")
           \/ \E n \in ToSet(positions) : x = Entry(table, n, "num")
           \/ x \in ToSet(rest)
  <2>1. rest \in Seq(EntriesOf(table)) /\ positions \in Seq(PositionNames)
    BY <1>1, <1>3
  <2> QED BY ONLY <2>1, ListEntered
<1> QED BY ONLY <1>3, <1>4, <1>5 DEF IsPosition

LEMMA StringsEntered ==
  ASSUME NEW q, NEW main, NEW issub, NEW v,
         v.call \in StrListCalls,
         NEW table, table = SchemaTable(main, v.path, issub),
         NEW s \in ColumnNames, s = Last(v.path), NEW positions \in Seq(PositionNames),
         positions = PositionColumns(v)
  PROVE  /\ ColumnsAt(q, main, issub, v) \in Seq(EntriesOf(table))
         /\ \A x : x \in ToSet(ColumnsAt(q, main, issub, v)) <=>
              IsPosition(table, ToSet(positions), x) \/ IsStrings(table, s, x)
<1>1. PICK names, rest : names = <<s>> /\ rest = OfKind(table, names, "str")
  OBVIOUS
<1>2. names \in Seq(ColumnNames) /\ ToSet(names) = {s} /\ "str" \in Simple
  <2>1. names \in Seq(ColumnNames) /\ DOMAIN names = {1} /\ names[1] = s
    <3>1. <<s>> \in Seq(ColumnNames) /\ DOMAIN <<s>> = {1} /\ <<s>>[1] = s
      OBVIOUS
    <3> QED BY ONLY <1>1, <3>1
  <2>2. "str" \in Simple
    BY DEF Simple
  <2>3. ToSet(names) = {s}
    BY ONLY <2>1 DEF ToSet
  <2> QED BY <2>1, <2>2, <2>3
<1>3. /\ OfKind(table, names, "str") \in Seq(EntriesOf(table))
      /\ \A x : x \in ToSet(OfKind(table, names, "str")) <=>
           \E n \in ToSet(names) : x = Entry(table, n, "str")
  <2>1. PICK str : str = "str" /\ str \in Simple
    BY <1>2
  <2>2. /\ OfKind(table, names, str) \in Seq(EntriesOf(table))
        /\ \A x : x \in ToSet(OfKind(table, names, str)) <=>
             \E n \in ToSet(names) : x = Entry(table, n, str)
    <3>1. names \in Seq(ColumnNames) /\ str \in Simple
      BY <1>2, <2>1
    <3> QED BY ONLY <3>1, EachOfKind
  <2> QED BY ONLY <2>1, <2>2
<1>4. rest \in Seq(EntriesOf(table)) /\ \A x : x \in ToSet(rest) <=> IsStrings(table, s, x)
  BY ONLY <1>1, <1>2, <1>3 DEF IsStrings
<1>5. ColumnsAt(q, main, issub, v) = ListEntries(table, positions, rest)
  <2>1. ColumnsAt(q, main, issub, v) = ListOfStrings(main, issub, v)
    BY ColumnsByCall
  <2> QED BY <1>1, <2>1 DEF ListOfStrings
<1>6. /\ ListEntries(table, positions, rest) \in Seq(EntriesOf(table))
      /\ \A x : x \in ToSet(ListEntries(table, positions, rest)) <=>
           \/ x = Entry(table, "id", "str")
           \/ \E n \in ToSet(positions) : x = Entry(table, n, "num")
           \/ x \in ToSet(rest)
  <2>1. rest \in Seq(EntriesOf(table)) /\ positions \in Seq(PositionNames)
    BY <1>4
  <2> QED BY ONLY <2>1, ListEntered
<1> QED BY ONLY <1>4, <1>5, <1>6 DEF IsPosition

LEMMA FirstAt ==
  ASSUME NEW c, NEW path, NEW at, NEW columns, NEW v, v = Visit(c, path, at, columns)
  PROVE  /\ FirstPart(v).path = path
         /\ Len(path) = 0 => FirstPart(v).at = <<>>
         /\ Len(path) = 1 => FirstPart(v).at = <<1>>
         /\ Len(path) = 2 => FirstPart(v).at = <<1, 1>>
<1>1. v = [call |-> c, path |-> path, at |-> at, columns |-> columns]
  BY DEF Visit
<1>2. \A x : [v EXCEPT !.at = x].at = x /\ [v EXCEPT !.at = x].path = path
  BY <1>1
<1>3. v.path = path
  BY <1>1
<1>4. /\ Len(path) = 0 => FirstPart(v) = [v EXCEPT !.at = <<>>]
      /\ Len(path) = 1 => FirstPart(v) = [v EXCEPT !.at = <<1>>]
      /\ Len(path) = 2 => FirstPart(v) = [v EXCEPT !.at = <<1, 1>>]
  BY <1>3 DEF FirstPart
<1>5. \E x : FirstPart(v) = [v EXCEPT !.at = x]
  BY <1>3 DEF FirstPart
<1> QED BY <1>2, <1>4, <1>5

LEMMA FirstParts ==
  ASSUME NEW q, NEW p, NEW f, NEW g
  PROVE  /\ PartOf(q, FirstPart(MainVisit(p))) = q
         /\ PartOf(q, FirstPart(DictListVisit(f, p))) = Inner(q, f)
         /\ PartOf(q, FirstPart(InnerListVisit(f, g, p))) = Inner(Inner(q, f), g)
<1>1. FirstPart(MainVisit(p)).at = <<>>
  <2>1. PICK v, path : v = MainVisit(p) /\ path = <<>>
    OBVIOUS
  <2>2. \E c, at, columns : v = Visit(c, path, at, columns)
    BY <2>1 DEF MainVisit
  <2>3. Len(path) = 0
    BY <2>1
  <2>4. FirstPart(v).at = <<>>
    BY ONLY <2>2, <2>3, FirstAt
  <2> QED BY <2>1, <2>4
<1>2. FirstPart(DictListVisit(f, p)).at = <<1>> /\ FirstPart(DictListVisit(f, p)).path = <<f>>
  <2>1. PICK v, path : v = DictListVisit(f, p) /\ path = <<f>>
    OBVIOUS
  <2>2. \E c, at, columns : v = Visit(c, path, at, columns)
    BY <2>1 DEF DictListVisit
  <2>3. Len(path) = 1
    BY <2>1
  <2>4. FirstPart(v).at = <<1>> /\ FirstPart(v).path = path
    BY ONLY <2>2, <2>3, FirstAt
  <2> QED BY <2>1, <2>4
<1>3. /\ FirstPart(InnerListVisit(f, g, p)).at = <<1, 1>>
      /\ FirstPart(InnerListVisit(f, g, p)).path = <<f, g>>
  <2>1. PICK v, path : v = InnerListVisit(f, g, p) /\ path = <<f, g>>
    OBVIOUS
  <2>2. \E c, at, columns : v = Visit(c, path, at, columns)
    BY <2>1 DEF InnerListVisit
  <2>3. Len(path) = 2
    BY <2>1
  <2>4. FirstPart(v).at = <<1, 1>> /\ FirstPart(v).path = path
    BY ONLY <2>2, <2>3, FirstAt
  <2> QED BY <2>1, <2>4
<1>4. PICK u, v, w : /\ u = FirstPart(MainVisit(p)) /\ v = FirstPart(DictListVisit(f, p))
                     /\ w = FirstPart(InnerListVisit(f, g, p))
  OBVIOUS
<1>5. PartOf(q, u) = q
  <2>1. Len(u.at) = 0
    BY <1>1, <1>4
  <2> QED BY <2>1, Parts
<1>6. PartOf(q, v) = Inner(q, f)
  <2>1. v.at[1] = 1 /\ v.path[1] = f /\ Len(v.at) = 1
    BY <1>2, <1>4
  <2> QED BY <2>1, Parts DEF Inner
<1>7. PartOf(q, w) = Inner(Inner(q, f), g)
  <2>1. w.at[1] = 1 /\ w.at[2] = 1 /\ w.path[1] = f /\ w.path[2] = g /\ Len(w.at) = 2
    BY <1>3, <1>4
  <2> QED BY <2>1, Parts DEF Inner
<1> QED BY <1>4, <1>5, <1>6, <1>7

LEMMA OneTwoTables ==
  ASSUME NEW main, NEW issub \in BOOLEAN
  PROVE  /\ \A f : SchemaTable(main, OnePath(f), issub) = TableOf(main, OnePath(f))
         /\ \A f, g : SchemaTable(main, TwoPath(f, g), issub) = TableOf(main, TwoPath(f, g))
<1>1. ASSUME NEW f, NEW g
      PROVE  /\ SchemaTable(main, OnePath(f), issub) = TableOf(main, OnePath(f))
             /\ SchemaTable(main, TwoPath(f, g), issub) = TableOf(main, TwoPath(f, g))
  <2>1. PICK s : s = f
    OBVIOUS
  <2>2. /\ SchemaTable(main, NoPath, issub) = TableOf(main, NoPath)
        /\ SchemaTable(main, OnePath(f), issub) = TableOf(main, OnePath(f))
        /\ SchemaTable(main, TwoPath(f, g), issub) = TableOf(main, TwoPath(f, g))
        /\ SchemaTable(main, ThreePath(f, g, s), issub) = ThirdTable(main, f, g, s, issub)
    BY SchemaTables
  <2> QED BY <2>2
<1> QED BY <1>1

\* A visit adds these columns.
Adds(q, main, issub, v, table, columns) ==
  /\ ColumnsAt(q, main, issub, v) \in Seq(EntriesOf(table))
  /\ ToSet(ColumnsAt(q, main, issub, v)) = columns

FieldEntries(table, proto)         == {Entry(table, c, Kind(proto[c])) : c \in SimpleFields(proto)}
PositionEntries(table, positions)  ==
  {Entry(table, "id", "str")} \cup {Entry(table, n, "num") : n \in positions}
StringEntries(table, s)            == {Entry(table, s, "str")}

LEMMA EntrySets ==
  ASSUME NEW table, NEW proto, NEW positions, NEW s
  PROVE  \A x : /\ x \in FieldEntries(table, proto) <=> IsField(table, proto, x)
                /\ x \in PositionEntries(table, positions) <=> IsPosition(table, positions, x)
                /\ x \in StringEntries(table, s) <=> IsStrings(table, s, x)
BY DEF FieldEntries, PositionEntries, StringEntries, IsField, IsPosition, IsStrings

LEMMA MainAdds ==
  ASSUME NEW q, DOMAIN q \subseteq ToSet(FieldNames), NEW main, NEW issub \in BOOLEAN
  PROVE  Adds(q, main, issub, MainVisit(q), TableOf(main, NoPath),
              FieldEntries(TableOf(main, NoPath), q))
<1>1. PICK v, table : v = MainVisit(q) /\ table = TableOf(main, NoPath)
  OBVIOUS
<1>2. v.call = "main dict" /\ v.path = NoPath /\ v.columns = SimpleColumns(q)
  BY <1>1 DEF MainVisit, Visit, NoPath
<1>3. ColumnsAt(q, main, issub, v) = FieldsOf(q, main, issub, v)
  BY <1>2, ColumnsByCall
<1>4. SchemaTable(main, v.path, issub) = table
  BY <1>1, <1>2, SchemaTables
<1>5. PartOf(q, FirstPart(v)) = q
  BY <1>1, FirstParts
<1>6. FieldsOf(q, main, issub, v) = OfFields(table, SimpleColumns(q), q)
  BY <1>2, <1>4, <1>5 DEF FieldsOf
<1>7. /\ OfFields(table, SimpleColumns(q), q) \in Seq(EntriesOf(table))
      /\ \A x : x \in ToSet(OfFields(table, SimpleColumns(q), q)) <=>
           \E c \in SimpleFields(q) : x = Entry(table, c, Kind(q[c]))
  BY EachOfField
<1>8. PICK s : s = OfFields(table, SimpleColumns(q), q)
  OBVIOUS
<1>9. s \in Seq(EntriesOf(table)) /\ ToSet(s) = FieldEntries(table, q)
  BY <1>7, <1>8 DEF FieldEntries
<1> QED BY <1>1, <1>3, <1>6, <1>8, <1>9 DEF Adds

LEMMA FieldsAdd ==
  ASSUME NEW q, NEW main, NEW issub, NEW v, NEW table, NEW proto, NEW positions,
         IsFieldVisit(q, main, issub, v, table, proto, positions)
  PROVE  Adds(q, main, issub, v, table,
              PositionEntries(table, ToSet(positions)) \cup FieldEntries(table, proto))
<1>2. /\ ColumnsAt(q, main, issub, v) \in Seq(EntriesOf(table))
      /\ \A x : x \in ToSet(ColumnsAt(q, main, issub, v)) <=>
           IsPosition(table, ToSet(positions), x) \/ IsField(table, proto, x)
  BY FieldsEntered
<1>3. ToSet(ColumnsAt(q, main, issub, v))
        = PositionEntries(table, ToSet(positions)) \cup FieldEntries(table, proto)
  BY ONLY <1>2, EntrySets
<1> QED BY <1>2, <1>3 DEF Adds

LEMMA ListAdds ==
  ASSUME NEW q, NEW main, NEW issub \in BOOLEAN, NEW f, NEW proto, proto = Inner(q, f),
         DOMAIN proto \subseteq ToSet(FieldNames),
         NEW table, table = TableOf(main, OnePath(f))
  PROVE  Adds(q, main, issub, DictListVisit(f, proto), table,
              PositionEntries(table, {"list_pos"}) \cup FieldEntries(table, proto))
<1>1. PICK v, positions : v = DictListVisit(f, proto) /\ positions = <<"list_pos">>
  OBVIOUS
<1>2. v.call = "dict list" /\ v.path = OnePath(f) /\ v.columns = SimpleColumns(proto)
  BY <1>1 DEF DictListVisit, Visit, OnePath
<1>3. table = SchemaTable(main, v.path, issub)
  <2>1. PICK path : path = OnePath(f)
    OBVIOUS
  <2>2. SchemaTable(main, path, issub) = TableOf(main, path)
    BY <2>1, OneTwoTables
  <2> QED BY <1>2, <2>1, <2>2
<1>4. proto = PartOf(q, FirstPart(v))
  BY <1>1, FirstParts
<1>5. positions \in Seq(PositionNames) /\ ToSet(positions) = {"list_pos"}
  BY <1>1, PositionSets
<1>6. positions = PositionColumns(v)
  BY <1>1, <1>2 DEF PositionColumns
<1>7. IsFieldVisit(q, main, issub, v, table, proto, positions)
  BY <1>2, <1>3, <1>4, <1>5, <1>6 DEF IsFieldVisit
<1>8. Adds(q, main, issub, v, table,
           PositionEntries(table, ToSet(positions)) \cup FieldEntries(table, proto))
  BY ONLY <1>7, FieldsAdd
<1> QED BY <1>1, <1>5, <1>8

Two == {"dict_list_pos", "list_pos"}

LEMMA InnerListAdds ==
  ASSUME NEW q, NEW main, NEW issub \in BOOLEAN, NEW f, NEW g,
         NEW proto, proto = Inner(Inner(q, f), g),
         DOMAIN proto \subseteq ToSet(FieldNames),
         NEW table, table = TableOf(main, TwoPath(f, g))
  PROVE  Adds(q, main, issub, InnerListVisit(f, g, proto), table,
              PositionEntries(table, Two) \cup FieldEntries(table, proto))
<1>1. PICK v, positions : v = InnerListVisit(f, g, proto)
                          /\ positions = <<"dict_list_pos", "list_pos">>
  OBVIOUS
<1>2. v.call = "inner dict list" /\ v.path = TwoPath(f, g) /\ v.columns = SimpleColumns(proto)
  BY <1>1 DEF InnerListVisit, Visit, TwoPath
<1>3. table = SchemaTable(main, v.path, issub)
  <2>1. PICK path : path = TwoPath(f, g)
    OBVIOUS
  <2>2. SchemaTable(main, path, issub) = TableOf(main, path)
    BY <2>1, OneTwoTables
  <2> QED BY <1>2, <2>1, <2>2
<1>4. proto = PartOf(q, FirstPart(v))
  BY <1>1, FirstParts
<1>5. positions \in Seq(PositionNames) /\ ToSet(positions) = Two
  BY <1>1, PositionSets DEF Two
<1>6. positions = PositionColumns(v)
  BY <1>1, <1>2 DEF PositionColumns
<1>7. IsFieldVisit(q, main, issub, v, table, proto, positions)
  BY <1>2, <1>3, <1>4, <1>5, <1>6 DEF IsFieldVisit
<1>8. Adds(q, main, issub, v, table,
           PositionEntries(table, ToSet(positions)) \cup FieldEntries(table, proto))
  BY ONLY <1>7, FieldsAdd
<1> QED BY <1>1, <1>5, <1>8

LEMMA LastOfPaths ==
  \A f, g, s : Last(OnePath(f)) = f /\ Last(TwoPath(f, g)) = g /\ Last(ThreePath(f, g, s)) = s
BY DEF Last, OnePath, TwoPath, ThreePath

\* The calls and paths of visits to lists of strings.
LEMMA StringVisits ==
  ASSUME NEW f, NEW g, NEW s, NEW i, NEW j
  PROVE  /\ StrListVisit(f).call \in StrListCalls /\ StrListVisit(f).path = OnePath(f)
         /\ PositionColumns(StrListVisit(f)) = <<"list_pos">>
         /\ DictStrVisit(f, s, i).call \in StrListCalls
         /\ DictStrVisit(f, s, i).path = TwoPath(f, s)
         /\ PositionColumns(DictStrVisit(f, s, i)) = <<"dict_list_pos", "list_pos">>
         /\ InnerStrVisit(f, g, s, i, j).call \in StrListCalls
         /\ InnerStrVisit(f, g, s, i, j).path = ThreePath(f, g, s)
         /\ PositionColumns(InnerStrVisit(f, g, s, i, j))
              = <<"dict_list_pos", "list_pos", "str_list_pos">>
<1>1. /\ StrListVisit(f).call \in StrListCalls /\ StrListVisit(f).path = OnePath(f)
      /\ DictStrVisit(f, s, i).call \in StrListCalls
      /\ DictStrVisit(f, s, i).path = TwoPath(f, s)
      /\ InnerStrVisit(f, g, s, i, j).call \in StrListCalls
      /\ InnerStrVisit(f, g, s, i, j).path = ThreePath(f, g, s)
  BY ZenonT(30) DEF StrListVisit, DictStrVisit, InnerStrVisit, Visit, OnePath, TwoPath, ThreePath,
       StrListCalls
<1>2. PositionColumns(StrListVisit(f)) = <<"list_pos">>
  BY DEF StrListVisit, Visit, PositionColumns
<1>3. PositionColumns(DictStrVisit(f, s, i)) = <<"dict_list_pos", "list_pos">>
  BY DEF DictStrVisit, Visit, PositionColumns
<1>4. PositionColumns(InnerStrVisit(f, g, s, i, j))
        = <<"dict_list_pos", "list_pos", "str_list_pos">>
  BY DEF InnerStrVisit, Visit, PositionColumns
<1> QED BY <1>1, <1>2, <1>3, <1>4

LEMMA StringsAdd ==
  ASSUME NEW q, NEW main, NEW issub, NEW v, v.call \in StrListCalls,
         NEW table, table = SchemaTable(main, v.path, issub),
         NEW s \in ColumnNames, s = Last(v.path), NEW positions \in Seq(PositionNames),
         positions = PositionColumns(v), NEW P, P = ToSet(positions)
  PROVE  Adds(q, main, issub, v, table, PositionEntries(table, P) \cup StringEntries(table, s))
<1>1. /\ ColumnsAt(q, main, issub, v) \in Seq(EntriesOf(table))
      /\ \A x : x \in ToSet(ColumnsAt(q, main, issub, v)) <=>
           IsPosition(table, ToSet(positions), x) \/ IsStrings(table, s, x)
  BY StringsEntered
<1>2. ToSet(ColumnsAt(q, main, issub, v)) = PositionEntries(table, P) \cup StringEntries(table, s)
  BY <1>1, EntrySets
<1> QED BY <1>1, <1>2 DEF Adds

LEMMA StringsAddedBy ==
  ASSUME NEW q, NEW main, NEW issub \in BOOLEAN, NEW f, NEW g, NEW s, NEW i, NEW j,
         f \in ToSet(FieldNames), s \in ToSet(FieldNames),
         NEW a, a = TableOf(main, OnePath(f)), NEW b, b = TableOf(main, TwoPath(f, s)),
         NEW c, c = ThirdTable(main, f, g, s, issub)
  PROVE  /\ Adds(q, main, issub, StrListVisit(f), a,
                 PositionEntries(a, {"list_pos"}) \cup StringEntries(a, f))
         /\ Adds(q, main, issub, DictStrVisit(f, s, i), b,
                 PositionEntries(b, Two) \cup StringEntries(b, s))
         /\ Adds(q, main, issub, InnerStrVisit(f, g, s, i, j), c,
                 PositionEntries(c, PositionNames) \cup StringEntries(c, s))
<1>1. f \in ColumnNames /\ s \in ColumnNames
  BY DEF ColumnNames
<1>2. PICK u : u = StrListVisit(f)
  OBVIOUS
<1>3. PICK v : v = DictStrVisit(f, s, i)
  OBVIOUS
<1>4. PICK w : w = InnerStrVisit(f, g, s, i, j)
  OBVIOUS
<1>5. PICK ps : ps = <<"list_pos">>
  OBVIOUS
<1>6. PICK qs : qs = <<"dict_list_pos", "list_pos">>
  OBVIOUS
<1>7. PICK rs : rs = <<"dict_list_pos", "list_pos", "str_list_pos">>
  OBVIOUS
<1>8. PICK one : one = {"list_pos"}
  OBVIOUS
<1>9. /\ u.call \in StrListCalls /\ a = SchemaTable(main, u.path, issub) /\ f = Last(u.path)
      /\ ps \in Seq(PositionNames) /\ ps = PositionColumns(u) /\ one = ToSet(ps)
  <2>1. u.call \in StrListCalls /\ u.path = OnePath(f) /\ PositionColumns(u) = ps
    BY ONLY <1>2, <1>5, StringVisits
  <2> QED BY <2>1, <1>5, <1>8, PositionSets, SchemaTables, LastOfPaths
<1>10. /\ v.call \in StrListCalls /\ b = SchemaTable(main, v.path, issub) /\ s = Last(v.path)
       /\ qs \in Seq(PositionNames) /\ qs = PositionColumns(v) /\ Two = ToSet(qs)
  <2>1. v.call \in StrListCalls /\ v.path = TwoPath(f, s) /\ PositionColumns(v) = qs
    BY ONLY <1>3, <1>6, StringVisits
  <2> QED BY <2>1, <1>6, PositionSets, SchemaTables, LastOfPaths DEF Two
<1>11. /\ w.call \in StrListCalls /\ c = SchemaTable(main, w.path, issub) /\ s = Last(w.path)
       /\ rs \in Seq(PositionNames) /\ rs = PositionColumns(w) /\ PositionNames = ToSet(rs)
  <2>1. w.call \in StrListCalls /\ w.path = ThreePath(f, g, s) /\ PositionColumns(w) = rs
    BY ONLY <1>4, <1>7, StringVisits
  <2> QED BY <2>1, <1>7, PositionSets, SchemaTables, LastOfPaths
<1>12. Adds(q, main, issub, u, a, PositionEntries(a, one) \cup StringEntries(a, f))
  BY ONLY <1>1, <1>9, StringsAdd
<1>13. Adds(q, main, issub, v, b, PositionEntries(b, Two) \cup StringEntries(b, s))
  BY ONLY <1>1, <1>10, StringsAdd
<1>14. Adds(q, main, issub, w, c, PositionEntries(c, PositionNames) \cup StringEntries(c, s))
  BY ONLY <1>1, <1>11, StringsAdd
<1> QED BY <1>2, <1>3, <1>4, <1>8, <1>12, <1>13, <1>14

\* A schema has the id of items, too.
WithId(proto) == Merged(proto, Field("id", Str("")))

LEMMA IdAdded ==
  ASSUME NEW proto, Layers(proto), "id" \in ToSet(FieldNames), NEW q, q = WithId(proto)
  PROVE  /\ \A f \in DOMAIN proto : q[f] = proto[f]
         /\ DOMAIN q = DOMAIN proto \cup {"id"} /\ DOMAIN q \subseteq ToSet(FieldNames)
         /\ "id" \notin DOMAIN proto => Kind(q["id"]) = "str"
         /\ SimpleFields(q) = SimpleFields(proto) \cup {"id"}
         /\ StrFields(q) = StrFields(proto) /\ DictFields(q) = DictFields(proto)
         /\ \A f \in DictFields(proto) : Inner(q, f) = Inner(proto, f)
         /\ CanWalk(q, q)
<1>1. PICK e, id : e = Str("") /\ id = "id"
  OBVIOUS
<1>2. q = Merged(proto, Field(id, e)) /\ Kind(e) = "str"
  BY <1>1, Tagged DEF WithId
<1>3. /\ DOMAIN q = DOMAIN proto \cup {id} /\ \A f \in DOMAIN proto : q[f] = proto[f]
      /\ id \notin DOMAIN proto => q[id] = e
  BY <1>2 DEF Merged, Field
<1>4. Layer(proto) /\ DOMAIN proto \subseteq ToSet(FieldNames)
  BY DEF Layers, Layer
<1>5. id \notin StrFields(proto) /\ id \notin DictFields(proto)
      /\ (id \in DOMAIN proto => id \in SimpleFields(proto))
  BY <1>1, <1>4 DEF Layer
<1>6. id \in SimpleFields(q)
  <2>1. CASE id \in DOMAIN proto
    BY <1>3, <1>5, <2>1 DEF SimpleFields
  <2>2. CASE id \notin DOMAIN proto
    BY <1>2, <1>3, <2>2 DEF SimpleFields, Simple
  <2> QED BY <2>1, <2>2
<1>7. Kind(q[id]) # "list"
  <2>1. Kind(q[id]) \in Simple
    BY <1>6 DEF SimpleFields
  <2> QED BY <2>1 DEF Simple
<1>8. SimpleFields(q) = SimpleFields(proto) \cup {id}
  BY <1>3, <1>6 DEF SimpleFields
<1>9. StrFields(q) = StrFields(proto) /\ DictFields(q) = DictFields(proto)
  BY <1>3, <1>7 DEF StrFields, DictFields, ListFields
<1>10. DictFields(proto) \subseteq DOMAIN proto
  BY DEF DictFields, ListFields
<1>11. \A f \in DictFields(proto) : Inner(q, f) = Inner(proto, f)
  BY <1>3, <1>10 DEF Inner, DictIn
<1>12. CanWalk(q, q)
  <2>1. CanWalk(proto, proto)
    BY PrototypesAreFormed, FormedCanBeWalked
  <2>2. DOMAIN q \subseteq ToSet(FieldNames)
    BY <1>1, <1>3, <1>4
  <2>3. ASSUME NEW f \in DictFields(proto) PROVE Walkable(q, f, Inner(q, f))
    <3>1. Walkable(proto, f, Inner(proto, f))
      BY <2>1 DEF CanWalk
    <3>2. q[f] = proto[f] /\ Inner(q, f) = Inner(proto, f)
      BY <1>3, <1>10, <1>11
    <3>3. \A i : DictIn(q, f, i) = DictIn(proto, f, i)
      BY <3>2 DEF DictIn
    <3> QED BY <3>1, <3>2, <3>3 DEF Walkable
  <2> QED BY <1>9, <2>2, <2>3 DEF CanWalk
<1> QED BY <1>1, <1>2, <1>3, <1>4, <1>8, <1>9, <1>11, <1>12

\* The visits to a list of dicts in a prototype.
IsSchemaVisit(f, p, v) ==
  \/ v = DictListVisit(f, p)
  \/ v = DictVisit(f, 1, p)
  \/ \E s \in StrFields(p) : v = DictStrVisit(f, s, 1)
  \/ \E g \in DictFields(p) :
       \/ v = InnerListVisit(f, g, Inner(p, g))
       \/ v = InnerVisit(f, g, 1, 1, Inner(p, g))
       \/ \E s \in StrFields(Inner(p, g)) : v = InnerStrVisit(f, g, s, 1, 1)

LEMMA OneInPrototype ==
  ASSUME NEW proto, Layer(proto), NEW f \in DictFields(proto)
  PROVE  DOMAIN Data(proto[f]) = {1} /\ DOMAIN InnerListOf(proto, f) = {1}
<1>1. proto[f] = List(<<Dict(Inner(proto, f))>>) /\ f \in DOMAIN proto
  BY DEF Layer, DictFields, ListFields
<1>2. DOMAIN Data(proto[f]) = 1 .. 1
  BY <1>1, OneIsListed
<1> QED BY <1>1, <1>2 DEF InnerListOf

LEMMA SchemaVisits ==
  ASSUME NEW proto, Layers(proto), "id" \in ToSet(FieldNames), NEW q, q = WithId(proto)
  PROVE  /\ Walk(q, q) \in Seq(AnyVisit)
         /\ \A v : v \in ToSet(Walk(q, q)) <=>
              \/ v = MainVisit(q)
              \/ \E f \in StrFields(proto) : v = StrListVisit(f)
              \/ \E f \in DictFields(proto) : IsSchemaVisit(f, Inner(proto, f), v)
<1>1. /\ CanWalk(q, q) /\ \A f \in DOMAIN proto : q[f] = proto[f]
      /\ StrFields(q) = StrFields(proto) /\ DictFields(q) = DictFields(proto)
      /\ \A f \in DictFields(proto) : Inner(q, f) = Inner(proto, f)
  BY IdAdded
<1>2. Walk(q, q) \in Seq(AnyVisit) /\ \A v : v \in ToSet(Walk(q, q)) <=> IsVisit(q, q, v)
  BY <1>1, WalkVisits
<1>3. \A v : IsVisit(q, q, v) <=>
        \/ v = MainVisit(q)
        \/ \E f \in StrFields(q) : v = StrListVisit(f)
        \/ \E f \in DictFields(q) : IsListVisit(q, f, Inner(q, f), v)
  BY DEF IsVisit, MainVisit, StrListVisit
<1>4. ASSUME NEW f \in DictFields(proto), NEW v
      PROVE  IsListVisit(q, f, Inner(q, f), v) <=> IsSchemaVisit(f, Inner(proto, f), v)
  <2>1. PICK p : p = Inner(proto, f)
    OBVIOUS
  <2>2. /\ Inner(q, f) = p /\ DOMAIN Data(q[f]) = {1} /\ DictIn(q, f, 1) = p
    <3>1. f \in DOMAIN proto
      BY DEF DictFields, ListFields
    <3>2. DOMAIN Data(proto[f]) = {1}
      BY OneInPrototype DEF Layers
    <3> QED BY <1>1, <2>1, <3>1, <3>2 DEF Inner
  <2>3. Layer(p)
    BY <2>1 DEF Layers, InnerLayer
  <2>4. IsListVisit(q, f, p, v) <=>
          \/ v = DictListVisit(f, p)
          \/ \E g \in DictFields(p) : v = InnerListVisit(f, g, Inner(p, g))
          \/ \E i \in DOMAIN Data(q[f]) :
               \/ v = DictVisit(f, i, p)
               \/ \E s \in StrFields(p) : v = DictStrVisit(f, s, i)
               \/ \E g \in DictFields(p) :
                    IsInnerVisit(DictIn(q, f, i), f, i, g, Inner(p, g), v)
    BY ListVisitsNamed
  <2>5. \A g \in DictFields(p) : IsInnerVisit(p, f, 1, g, Inner(p, g), v) <=>
          \/ v = InnerVisit(f, g, 1, 1, Inner(p, g))
          \/ \E s \in StrFields(Inner(p, g)) : v = InnerStrVisit(f, g, s, 1, 1)
    <3>1. ASSUME NEW g \in DictFields(p)
          PROVE  IsInnerVisit(p, f, 1, g, Inner(p, g), v) <=>
                   \/ v = InnerVisit(f, g, 1, 1, Inner(p, g))
                   \/ \E s \in StrFields(Inner(p, g)) : v = InnerStrVisit(f, g, s, 1, 1)
      <4>1. DOMAIN InnerListOf(p, g) = {1}
        BY <2>3, OneInPrototype
      <4> QED BY <4>1 DEF IsInnerVisit, InnerVisit, InnerStrVisit
    <3> QED BY <3>1
  <2>6. IsListVisit(q, f, p, v) <=>
          \/ v = DictListVisit(f, p)
          \/ \E g \in DictFields(p) : v = InnerListVisit(f, g, Inner(p, g))
          \/ v = DictVisit(f, 1, p)
          \/ \E s \in StrFields(p) : v = DictStrVisit(f, s, 1)
          \/ \E g \in DictFields(p) : IsInnerVisit(p, f, 1, g, Inner(p, g), v)
    BY <2>2, <2>4
  <2> QED BY <2>1, <2>2, <2>5, <2>6 DEF IsSchemaVisit
<1> QED BY <1>1, <1>2, <1>3, <1>4

\* The columns of a list of dicts, and of one of strings.
DictColumns(table, positions, proto) == PositionEntries(table, positions) \cup FieldEntries(table, proto)
StrColumns(table, positions, s)      == PositionEntries(table, positions) \cup StringEntries(table, s)

IsListColumn(main, f, p, issub, x) ==
  \/ x \in DictColumns(TableOf(main, OnePath(f)), {"list_pos"}, p)
  \/ \E s \in StrFields(p) : x \in StrColumns(TableOf(main, TwoPath(f, s)), Two, s)
  \/ \E g \in DictFields(p) :
       \/ x \in DictColumns(TableOf(main, TwoPath(f, g)), Two, Inner(p, g))
       \/ \E s \in StrFields(Inner(p, g)) :
            x \in StrColumns(ThirdTable(main, f, g, s, issub), PositionNames, s)

IsColumn(main, proto, issub, x) ==
  \/ x \in FieldEntries(TableOf(main, NoPath), WithId(proto))
  \/ \E f \in StrFields(proto) : x \in StrColumns(TableOf(main, OnePath(f)), {"list_pos"}, f)
  \/ \E f \in DictFields(proto) : IsListColumn(main, f, Inner(proto, f), issub, x)

\* What the visits of a schema add.
VisitAdds(q, main, issub, v, columns) == \E table : Adds(q, main, issub, v, table, columns)

\* The calls of visits to dicts, which add nothing.
DictCalls == {"dict in list", "dict in inner list"}

LEMMA NoColumns ==
  ASSUME NEW q, NEW main, NEW issub, NEW v, v.call \in DictCalls
  PROVE  ColumnsAt(q, main, issub, v) = <<>>
BY ColumnsByCall DEF DictCalls

LEMMA NothingAddedBy ==
  ASSUME NEW q, NEW main, NEW issub, NEW v, v.call \in DictCalls
  PROVE  VisitAdds(q, main, issub, v, {})
<1>1. ColumnsAt(q, main, issub, v) = <<>>
  BY NoColumns
<1>2. PICK none, table, S : none = <<>> /\ S = EntriesOf(table)
  OBVIOUS
<1>3. none \in Seq(S) /\ DOMAIN none = {}
  BY <1>2
<1>4. ToSet(none) = {}
  BY <1>3 DEF ToSet
<1>5. Adds(q, main, issub, v, table, {})
  BY <1>1, <1>2, <1>3, <1>4 DEF Adds
<1> QED BY <1>5 DEF VisitAdds

LEMMA NothingAdded ==
  ASSUME NEW q, NEW main, NEW issub, NEW f, NEW g, NEW i, NEW j, NEW p
  PROVE  /\ VisitAdds(q, main, issub, DictVisit(f, i, p), {})
         /\ VisitAdds(q, main, issub, InnerVisit(f, g, i, j, p), {})
<1>1. DictVisit(f, i, p).call \in DictCalls
  BY DEF DictVisit, Visit, DictCalls
<1>2. InnerVisit(f, g, i, j, p).call \in DictCalls
  BY DEF InnerVisit, Visit, DictCalls
<1>3. VisitAdds(q, main, issub, DictVisit(f, i, p), {})
  BY <1>1, NothingAddedBy
<1>4. VisitAdds(q, main, issub, InnerVisit(f, g, i, j, p), {})
  BY <1>2, NothingAddedBy
<1> QED BY <1>3, <1>4

LEMMA ListVisitsAdd ==
  ASSUME NEW q, NEW main, NEW issub \in BOOLEAN, NEW f \in ToSet(FieldNames),
         NEW p, p = Inner(q, f), InnerLayer(p)
  PROVE  /\ VisitAdds(q, main, issub, DictListVisit(f, p),
              DictColumns(TableOf(main, OnePath(f)), {"list_pos"}, p))
         /\ \A s \in StrFields(p) : VisitAdds(q, main, issub, DictStrVisit(f, s, 1),
              StrColumns(TableOf(main, TwoPath(f, s)), Two, s))
         /\ \A g \in DictFields(p) :
              /\ VisitAdds(q, main, issub, InnerListVisit(f, g, Inner(p, g)),
                   DictColumns(TableOf(main, TwoPath(f, g)), Two, Inner(p, g)))
              /\ \A s \in StrFields(Inner(p, g)) :
                   VisitAdds(q, main, issub, InnerStrVisit(f, g, s, 1, 1),
                     StrColumns(ThirdTable(main, f, g, s, issub), PositionNames, s))
<1>1. /\ DOMAIN p \subseteq ToSet(FieldNames) /\ StrFields(p) \subseteq DOMAIN p
      /\ DictFields(p) \subseteq DOMAIN p
      /\ \A g \in DictFields(p) : DOMAIN Inner(p, g) \subseteq ToSet(FieldNames)
      /\ \A g : StrFields(Inner(p, g)) \subseteq DOMAIN Inner(p, g)
  BY DEF InnerLayer, InnermostLayer, Layer, StrFields, DictFields, ListFields
<1>2. VisitAdds(q, main, issub, DictListVisit(f, p),
        DictColumns(TableOf(main, OnePath(f)), {"list_pos"}, p))
  <2>1. PICK table : table = TableOf(main, OnePath(f))
    OBVIOUS
  <2>2. Adds(q, main, issub, DictListVisit(f, p), table,
             PositionEntries(table, {"list_pos"}) \cup FieldEntries(table, p))
    BY <1>1, <2>1, ListAdds
  <2> QED BY <2>1, <2>2 DEF VisitAdds, DictColumns
<1>3. ASSUME NEW s \in StrFields(p)
      PROVE  VisitAdds(q, main, issub, DictStrVisit(f, s, 1),
               StrColumns(TableOf(main, TwoPath(f, s)), Two, s))
  <2>1. PICK a, b, c, g : /\ a = TableOf(main, OnePath(f)) /\ b = TableOf(main, TwoPath(f, s))
                          /\ c = ThirdTable(main, f, g, s, issub)
    OBVIOUS
  <2>2. f \in ToSet(FieldNames) /\ s \in ToSet(FieldNames) /\ issub \in BOOLEAN
    BY <1>1
  <2>3. /\ Adds(q, main, issub, StrListVisit(f), a,
                PositionEntries(a, {"list_pos"}) \cup StringEntries(a, f))
        /\ Adds(q, main, issub, DictStrVisit(f, s, 1), b,
                PositionEntries(b, Two) \cup StringEntries(b, s))
        /\ Adds(q, main, issub, InnerStrVisit(f, g, s, 1, 1), c,
                PositionEntries(c, PositionNames) \cup StringEntries(c, s))
    BY ONLY <2>1, <2>2, StringsAddedBy
  <2> QED BY <2>1, <2>3 DEF VisitAdds, StrColumns
<1>4. ASSUME NEW g \in DictFields(p)
      PROVE  VisitAdds(q, main, issub, InnerListVisit(f, g, Inner(p, g)),
               DictColumns(TableOf(main, TwoPath(f, g)), Two, Inner(p, g)))
  <2>1. PICK table, proto : table = TableOf(main, TwoPath(f, g)) /\ proto = Inner(p, g)
    OBVIOUS
  <2>2. proto = Inner(Inner(q, f), g) /\ DOMAIN proto \subseteq ToSet(FieldNames)
    BY <1>1, <2>1
  <2>3. Adds(q, main, issub, InnerListVisit(f, g, proto), table,
             PositionEntries(table, Two) \cup FieldEntries(table, proto))
    BY <2>1, <2>2, InnerListAdds
  <2> QED BY <2>1, <2>3 DEF VisitAdds, DictColumns
<1>5. ASSUME NEW g \in DictFields(p), NEW s \in StrFields(Inner(p, g))
      PROVE  VisitAdds(q, main, issub, InnerStrVisit(f, g, s, 1, 1),
               StrColumns(ThirdTable(main, f, g, s, issub), PositionNames, s))
  <2>1. PICK a, b, c : /\ a = TableOf(main, OnePath(f)) /\ b = TableOf(main, TwoPath(f, s))
                       /\ c = ThirdTable(main, f, g, s, issub)
    OBVIOUS
  <2>2. f \in ToSet(FieldNames) /\ s \in ToSet(FieldNames) /\ issub \in BOOLEAN
    BY <1>1
  <2>3. /\ Adds(q, main, issub, StrListVisit(f), a,
                PositionEntries(a, {"list_pos"}) \cup StringEntries(a, f))
        /\ Adds(q, main, issub, DictStrVisit(f, s, 1), b,
                PositionEntries(b, Two) \cup StringEntries(b, s))
        /\ Adds(q, main, issub, InnerStrVisit(f, g, s, 1, 1), c,
                PositionEntries(c, PositionNames) \cup StringEntries(c, s))
    BY ONLY <2>1, <2>2, StringsAddedBy
  <2> QED BY <2>1, <2>3 DEF VisitAdds, StrColumns
<1> QED BY <1>2, <1>3, <1>4, <1>5

\* A sequence is one of what is in it.
LEMMA SequenceOfIts ==
  ASSUME NEW S, NEW s \in Seq(S), NEW T, ToSet(s) \subseteq T
  PROVE  s \in Seq(T)
<1>1. PICK n \in Nat : DOMAIN s = 1 .. n /\ s = [i \in 1 .. n |-> s[i]]
  OBVIOUS
<1>2. \A i \in 1 .. n : s[i] \in T
  BY <1>1 DEF ToSet
<1> QED BY <1>1, <1>2

LEMMA VisitsJoined ==
  ASSUME NEW proto, NEW main, NEW issub, NEW q, q = WithId(proto),
         Walk(q, q) \in Seq(AnyVisit),
         \A v \in ToSet(Walk(q, q)) : \E columns : VisitAdds(q, main, issub, v, columns)
  PROVE  \A x : x \in ToSet(SchemaFromPrototype(proto, main, issub)) <=>
           \E v \in ToSet(Walk(q, q)) : x \in ToSet(ColumnsAt(q, main, issub, v))
<1>1. PICK walk : walk = Walk(q, q)
  OBVIOUS
<1>2. PICK n \in Nat : DOMAIN walk = 1 .. n
  BY <1>1
<1>3. PICK ss : ss = [i \in 1 .. n |-> ColumnsAt(q, main, issub, walk[i])]
  OBVIOUS
<1>4. PICK T : T = UNION {ToSet(ss[i]) : i \in 1 .. n}
  OBVIOUS
<1>5. ASSUME NEW i \in 1 .. n PROVE ss[i] \in Seq(T)
  <2>1. walk[i] \in ToSet(Walk(q, q))
    BY <1>1, <1>2 DEF ToSet
  <2>2. PICK columns, table : Adds(q, main, issub, walk[i], table, columns)
    BY <2>1 DEF VisitAdds
  <2>3. ss[i] \in Seq(EntriesOf(table))
    BY <1>3, <2>2 DEF Adds
  <2>4. ToSet(ss[i]) \subseteq T
    BY <1>4
  <2> QED BY <2>3, <2>4, SequenceOfIts
<1>6. ss = [i \in 1 .. n |-> ss[i]]
  BY <1>3
<1>7. \A x : x \in ToSet(FlattenSeq(ss)) <=> \E i \in 1 .. n : x \in ToSet(ss[i])
  BY <1>5, <1>6, JoinedRange
<1>8. SchemaFromPrototype(proto, main, issub) = FlattenSeq(ss)
  BY <1>1, <1>2, <1>3 DEF SchemaFromPrototype, WithId, ForEach
<1>9. \A x : (\E i \in 1 .. n : x \in ToSet(ss[i])) <=>
             \E v \in ToSet(Walk(q, q)) : x \in ToSet(ColumnsAt(q, main, issub, v))
  <2>1. \A v : v \in ToSet(walk) <=> \E i \in 1 .. n : v = walk[i]
    BY <1>2 DEF ToSet
  <2>2. \A i \in 1 .. n : ss[i] = ColumnsAt(q, main, issub, walk[i])
    BY <1>3
  <2> QED BY <1>1, <2>1, <2>2
<1> QED BY <1>7, <1>8, <1>9

LEMMA AddedColumns ==
  ASSUME NEW q, NEW main, NEW issub, NEW v, NEW columns, VisitAdds(q, main, issub, v, columns)
  PROVE  ToSet(ColumnsAt(q, main, issub, v)) = columns
BY DEF VisitAdds, Adds

LEMMA SchemaColumns ==
  ASSUME NEW proto, Layers(proto), "id" \in ToSet(FieldNames), NEW main, NEW issub \in BOOLEAN
  PROVE  \A x : x \in ToSet(SchemaFromPrototype(proto, main, issub)) <=>
                IsColumn(main, proto, issub, x)
<1>1. PICK q : q = WithId(proto)
  OBVIOUS
<1>2. /\ Walk(q, q) \in Seq(AnyVisit)
      /\ \A v : v \in ToSet(Walk(q, q)) <=>
           \/ v = MainVisit(q)
           \/ \E f \in StrFields(proto) : v = StrListVisit(f)
           \/ \E f \in DictFields(proto) : IsSchemaVisit(f, Inner(proto, f), v)
  BY <1>1, SchemaVisits
<1>3. /\ DOMAIN q \subseteq ToSet(FieldNames)
      /\ \A f \in DictFields(proto) : Inner(q, f) = Inner(proto, f)
      /\ StrFields(proto) \subseteq ToSet(FieldNames)
      /\ DictFields(proto) \subseteq ToSet(FieldNames)
  <2>1. DOMAIN q \subseteq ToSet(FieldNames)
        /\ \A f \in DictFields(proto) : Inner(q, f) = Inner(proto, f)
    BY <1>1, IdAdded
  <2>2. DOMAIN proto \subseteq ToSet(FieldNames)
    BY DEF Layers, Layer
  <2>3. StrFields(proto) \subseteq DOMAIN proto /\ DictFields(proto) \subseteq DOMAIN proto
    BY DEF StrFields, DictFields, ListFields
  <2> QED BY <2>1, <2>2, <2>3
<1>4. VisitAdds(q, main, issub, MainVisit(q), FieldEntries(TableOf(main, NoPath), q))
  BY <1>3, MainAdds DEF VisitAdds
<1>5. ASSUME NEW f \in StrFields(proto)
      PROVE  VisitAdds(q, main, issub, StrListVisit(f),
               StrColumns(TableOf(main, OnePath(f)), {"list_pos"}, f))
  <2>1. PICK a, b, c, g : /\ a = TableOf(main, OnePath(f)) /\ b = TableOf(main, TwoPath(f, f))
                          /\ c = ThirdTable(main, f, g, f, issub)
    OBVIOUS
  <2>2. f \in ToSet(FieldNames) /\ issub \in BOOLEAN
    BY <1>3
  <2>3. /\ Adds(q, main, issub, StrListVisit(f), a,
                PositionEntries(a, {"list_pos"}) \cup StringEntries(a, f))
        /\ Adds(q, main, issub, DictStrVisit(f, f, 1), b,
                PositionEntries(b, Two) \cup StringEntries(b, f))
        /\ Adds(q, main, issub, InnerStrVisit(f, g, f, 1, 1), c,
                PositionEntries(c, PositionNames) \cup StringEntries(c, f))
    BY ONLY <2>1, <2>2, StringsAddedBy
  <2> QED BY <2>1, <2>3 DEF VisitAdds, StrColumns
<1>6. ASSUME NEW f \in DictFields(proto), NEW p, p = Inner(proto, f)
      PROVE  /\ VisitAdds(q, main, issub, DictListVisit(f, p),
                  DictColumns(TableOf(main, OnePath(f)), {"list_pos"}, p))
             /\ \A s \in StrFields(p) : VisitAdds(q, main, issub, DictStrVisit(f, s, 1),
                  StrColumns(TableOf(main, TwoPath(f, s)), Two, s))
             /\ \A g \in DictFields(p) :
                  /\ VisitAdds(q, main, issub, InnerListVisit(f, g, Inner(p, g)),
                       DictColumns(TableOf(main, TwoPath(f, g)), Two, Inner(p, g)))
                  /\ \A s \in StrFields(Inner(p, g)) :
                       VisitAdds(q, main, issub, InnerStrVisit(f, g, s, 1, 1),
                         StrColumns(ThirdTable(main, f, g, s, issub), PositionNames, s))
  <2>1. f \in ToSet(FieldNames) /\ p = Inner(q, f) /\ InnerLayer(p)
    BY <1>3, <1>6 DEF Layers
  <2> QED BY <2>1, ListVisitsAdd
<1>7. ASSUME NEW f \in DictFields(proto), NEW p, p = Inner(proto, f), NEW x
      PROVE  (\E v : IsSchemaVisit(f, p, v) /\ x \in ToSet(ColumnsAt(q, main, issub, v)))
               <=> IsListColumn(main, f, p, issub, x)
  <2>1. ToSet(ColumnsAt(q, main, issub, DictListVisit(f, p)))
          = DictColumns(TableOf(main, OnePath(f)), {"list_pos"}, p)
    BY <1>6, <1>7, AddedColumns
  <2>2. \A s \in StrFields(p) : ToSet(ColumnsAt(q, main, issub, DictStrVisit(f, s, 1)))
          = StrColumns(TableOf(main, TwoPath(f, s)), Two, s)
    BY <1>6, <1>7, AddedColumns
  <2>3. \A g \in DictFields(p) :
          ToSet(ColumnsAt(q, main, issub, InnerListVisit(f, g, Inner(p, g))))
            = DictColumns(TableOf(main, TwoPath(f, g)), Two, Inner(p, g))
    BY <1>6, <1>7, AddedColumns
  <2>4. \A g \in DictFields(p) : \A s \in StrFields(Inner(p, g)) :
          ToSet(ColumnsAt(q, main, issub, InnerStrVisit(f, g, s, 1, 1)))
            = StrColumns(ThirdTable(main, f, g, s, issub), PositionNames, s)
    BY <1>6, <1>7, AddedColumns
  <2>5. ToSet(ColumnsAt(q, main, issub, DictVisit(f, 1, p))) = {}
    BY NothingAdded, AddedColumns
  <2>6. \A g : ToSet(ColumnsAt(q, main, issub, InnerVisit(f, g, 1, 1, Inner(p, g)))) = {}
    BY NothingAdded, AddedColumns
  <2>7. (\E v : IsSchemaVisit(f, p, v) /\ x \in ToSet(ColumnsAt(q, main, issub, v))) <=>
          \/ x \in ToSet(ColumnsAt(q, main, issub, DictListVisit(f, p)))
          \/ x \in ToSet(ColumnsAt(q, main, issub, DictVisit(f, 1, p)))
          \/ \E s \in StrFields(p) : x \in ToSet(ColumnsAt(q, main, issub, DictStrVisit(f, s, 1)))
          \/ \E g \in DictFields(p) :
               \/ x \in ToSet(ColumnsAt(q, main, issub, InnerListVisit(f, g, Inner(p, g))))
               \/ x \in ToSet(ColumnsAt(q, main, issub, InnerVisit(f, g, 1, 1, Inner(p, g))))
               \/ \E s \in StrFields(Inner(p, g)) :
                    x \in ToSet(ColumnsAt(q, main, issub, InnerStrVisit(f, g, s, 1, 1)))
    BY DEF IsSchemaVisit
  <2> QED BY <2>1, <2>2, <2>3, <2>4, <2>5, <2>6, <2>7 DEF IsListColumn
<1>8. \A v \in ToSet(Walk(q, q)) : \E columns : VisitAdds(q, main, issub, v, columns)
  <2>1. ASSUME NEW f \in DictFields(proto), NEW v, IsSchemaVisit(f, Inner(proto, f), v)
        PROVE  \E columns : VisitAdds(q, main, issub, v, columns)
    <3>1. PICK p : p = Inner(proto, f)
      OBVIOUS
    <3> QED BY <1>6, <2>1, <3>1, NothingAdded DEF IsSchemaVisit
  <2> QED BY <1>2, <1>4, <1>5, <2>1
<1>9. \A x : x \in ToSet(SchemaFromPrototype(proto, main, issub)) <=>
             \E v \in ToSet(Walk(q, q)) : x \in ToSet(ColumnsAt(q, main, issub, v))
  BY <1>1, <1>2, <1>8, VisitsJoined
<1>10. ToSet(ColumnsAt(q, main, issub, MainVisit(q))) = FieldEntries(TableOf(main, NoPath), q)
  BY <1>4, AddedColumns
<1>11. \A f \in StrFields(proto) : ToSet(ColumnsAt(q, main, issub, StrListVisit(f)))
         = StrColumns(TableOf(main, OnePath(f)), {"list_pos"}, f)
  BY <1>5, AddedColumns
<1>12. ASSUME NEW x
       PROVE  (\E v \in ToSet(Walk(q, q)) : x \in ToSet(ColumnsAt(q, main, issub, v))) <=>
                IsColumn(main, proto, issub, x)
  <2>1. (\E v \in ToSet(Walk(q, q)) : x \in ToSet(ColumnsAt(q, main, issub, v))) <=>
          \/ x \in ToSet(ColumnsAt(q, main, issub, MainVisit(q)))
          \/ \E f \in StrFields(proto) : x \in ToSet(ColumnsAt(q, main, issub, StrListVisit(f)))
          \/ \E f \in DictFields(proto) : \E v :
               IsSchemaVisit(f, Inner(proto, f), v) /\ x \in ToSet(ColumnsAt(q, main, issub, v))
    BY <1>2
  <2> QED BY <1>1, <1>7, <1>10, <1>11, <2>1 DEF IsColumn
<1> QED BY <1>9, <1>12

LEMMA FieldEntriesOf ==
  ASSUME NEW table, NEW proto, NEW x \in FieldEntries(table, proto)
  PROVE  /\ x[1] = table /\ x[2] \in SimpleFields(proto)
         /\ x = Entry(table, x[2], Kind(proto[x[2]]))
BY EntryParts DEF FieldEntries

LEMMA PositionEntriesOf ==
  ASSUME NEW table, NEW positions, NEW x \in PositionEntries(table, positions)
  PROVE  x[1] = table /\ x[2] \in positions \cup {"id"}
BY EntryParts DEF PositionEntries

LEMMA DictColumnsOf ==
  ASSUME NEW table, NEW positions, NEW proto, NEW x \in DictColumns(table, positions, proto)
  PROVE  /\ x[1] = table /\ x[2] \in SimpleFields(proto) \cup positions \cup {"id"}
         /\ x[2] \notin positions \cup {"id"} => x = Entry(table, x[2], Kind(proto[x[2]]))
<1>1. CASE x \in FieldEntries(table, proto)
  BY <1>1, FieldEntriesOf
<1>2. CASE x \in PositionEntries(table, positions)
  BY <1>2, PositionEntriesOf
<1> QED BY <1>1, <1>2 DEF DictColumns

LEMMA StrColumnsOf ==
  ASSUME NEW table, NEW positions, NEW s, NEW x \in StrColumns(table, positions, s)
  PROVE  x[1] = table /\ x[2] \in {s} \cup positions \cup {"id"}
<1>1. CASE x \in StringEntries(table, s)
  BY <1>1, EntryParts DEF StringEntries
<1>2. CASE x \in PositionEntries(table, positions)
  BY <1>2, PositionEntriesOf
<1> QED BY <1>1, <1>2 DEF StrColumns

\* The columns of the table at a path.
PathColumn(main, proto, issub, p, x) ==
  \/ p = NoPath /\ x \in FieldEntries(TableOf(main, p), WithId(proto))
  \/ \E f \in StrFields(proto) :
       p = OnePath(f) /\ x \in StrColumns(TableOf(main, p), {"list_pos"}, f)
  \/ \E f \in DictFields(proto) :
       \/ p = OnePath(f) /\ x \in DictColumns(TableOf(main, p), {"list_pos"}, Inner(proto, f))
       \/ \E s \in StrFields(Inner(proto, f)) :
            p = TwoPath(f, s) /\ x \in StrColumns(TableOf(main, p), Two, s)
       \/ \E g \in DictFields(Inner(proto, f)) :
            /\ p = TwoPath(f, g)
            /\ \/ x \in DictColumns(TableOf(main, p), Two, Inner(Inner(proto, f), g))
               \/ issub /\ \E s \in StrFields(Inner(Inner(proto, f), g)) :
                             x \in StrColumns(TableOf(main, p), PositionNames, s)

LEMMA ThreePaths ==
  ASSUME NEW proto, Layers(proto), NEW f \in DictFields(proto),
         NEW g \in DictFields(Inner(proto, f)), NEW s \in StrFields(Inner(Inner(proto, f), g))
  PROVE  ThreePath(f, g, s) \in PathsOf(proto)
<1>1. PICK p, d : p = Inner(proto, f) /\ d = DictIn(proto, f, 1)
  OBVIOUS
<1>2. p = d /\ 1 \in DOMAIN Data(proto[f])
  BY <1>1, OneInPrototype DEF Layers, Inner
<1>3. 1 \in DOMAIN InnerListOf(d, g)
  BY <1>1, <1>2, OneInPrototype DEF Layers, InnerLayer
<1>4. PICK v : v = InnerStrVisit(f, g, s, 1, 1)
  OBVIOUS
<1>5. v.path = ThreePath(f, g, s)
  BY <1>4 DEF InnerStrVisit, Visit, ThreePath
<1>6. IsInnerVisit(d, f, 1, g, Inner(p, g), v)
  BY <1>1, <1>3, <1>4 DEF IsInnerVisit, InnerStrVisit
<1>7. IsListVisit(proto, f, p, v)
  BY <1>1, <1>2, <1>6, ListVisitsNamed
<1>8. IsVisit(proto, proto, v)
  BY <1>1, <1>7 DEF IsVisit
<1>9. CanWalk(proto, proto)
  BY PrototypesAreFormed, FormedCanBeWalked
<1>10. v \in ToSet(Walk(proto, proto))
  BY <1>8, <1>9, WalkVisits
<1> QED BY <1>5, <1>10 DEF PathsOf

LEMMA ThreeIsLong ==
  \A f, g, s, h, k : /\ ThreePath(f, g, s) # NoPath /\ ThreePath(f, g, s) # OnePath(h)
                     /\ ThreePath(f, g, s) # TwoPath(h, k)
BY DEF ThreePath, NoPath, OnePath, TwoPath

LEMMA ThirdApart ==
  ASSUME NEW main, NEW proto, Layers(proto), OwnTables(main, proto),
         NEW p, IsRowPath(proto, p), NEW f \in DictFields(proto),
         NEW g \in DictFields(Inner(proto, f)), NEW s \in StrFields(Inner(Inner(proto, f), g)),
         NEW issub \in BOOLEAN, ThirdTable(main, f, g, s, issub) = TableOf(main, p)
  PROVE  issub /\ p = TwoPath(f, g)
<1>1. IsRowPath(proto, TwoPath(f, g))
  BY DEF IsRowPath, Lists
<1>2. CASE issub
  BY <1>1, <1>2, TablesApart DEF ThirdTable
<1>3. CASE ~issub
  <2>1. TableOf(main, ThreePath(f, g, s)) = TableOf(main, p)
    BY <1>3 DEF ThirdTable
  <2>2. ThreePath(f, g, s) \in PathsOf(proto) /\ p \in PathsOf(proto)
    BY ThreePaths, RowTables
  <2>3. ThreePath(f, g, s) = p
    BY <2>1, <2>2 DEF OwnTables
  <2> QED BY <2>3, ThreeIsLong DEF IsRowPath
<1> QED BY <1>2, <1>3

LEMMA ColumnsOfPath ==
  ASSUME NEW main, NEW proto, Layers(proto), OwnTables(main, proto), NEW issub \in BOOLEAN,
         NEW p, IsRowPath(proto, p), NEW x, IsColumn(main, proto, issub, x),
         x[1] = TableOf(main, p)
  PROVE  PathColumn(main, proto, issub, p, x)
<1>1. CASE x \in FieldEntries(TableOf(main, NoPath), WithId(proto))
  <2>1. x[1] = TableOf(main, NoPath)
    BY <1>1, FieldEntriesOf
  <2>2. p = NoPath
    BY <2>1, TablesApart DEF IsRowPath
  <2> QED BY <1>1, <2>2 DEF PathColumn
<1>2. ASSUME NEW f \in StrFields(proto),
             x \in StrColumns(TableOf(main, OnePath(f)), {"list_pos"}, f)
      PROVE  PathColumn(main, proto, issub, p, x)
  <2>1. x[1] = TableOf(main, OnePath(f))
    BY <1>2, StrColumnsOf
  <2>2. p = OnePath(f)
    <3>1. IsRowPath(proto, OnePath(f))
      BY DEF IsRowPath, Lists
    <3> QED BY <2>1, <3>1, TablesApart
  <2> QED BY <1>2, <2>2 DEF PathColumn
<1>3. ASSUME NEW f \in DictFields(proto), IsListColumn(main, f, Inner(proto, f), issub, x)
      PROVE  PathColumn(main, proto, issub, p, x)
  <2>1. CASE x \in DictColumns(TableOf(main, OnePath(f)), {"list_pos"}, Inner(proto, f))
    <3>1. x[1] = TableOf(main, OnePath(f))
      BY <2>1, DictColumnsOf
    <3>2. p = OnePath(f)
      <4>1. IsRowPath(proto, OnePath(f))
        BY DEF IsRowPath, Lists
      <4> QED BY <3>1, <4>1, TablesApart
    <3> QED BY <2>1, <3>2 DEF PathColumn
  <2>2. ASSUME NEW s \in StrFields(Inner(proto, f)),
               x \in StrColumns(TableOf(main, TwoPath(f, s)), Two, s)
        PROVE  PathColumn(main, proto, issub, p, x)
    <3>1. x[1] = TableOf(main, TwoPath(f, s))
      BY <2>2, StrColumnsOf
    <3>2. p = TwoPath(f, s)
      <4>1. IsRowPath(proto, TwoPath(f, s))
        BY DEF IsRowPath, Lists
      <4> QED BY <3>1, <4>1, TablesApart
    <3> QED BY <2>2, <3>2 DEF PathColumn
  <2>3. ASSUME NEW g \in DictFields(Inner(proto, f)),
               x \in DictColumns(TableOf(main, TwoPath(f, g)), Two, Inner(Inner(proto, f), g))
        PROVE  PathColumn(main, proto, issub, p, x)
    <3>1. x[1] = TableOf(main, TwoPath(f, g))
      BY <2>3, DictColumnsOf
    <3>2. p = TwoPath(f, g)
      <4>1. IsRowPath(proto, TwoPath(f, g))
        BY DEF IsRowPath, Lists
      <4> QED BY <3>1, <4>1, TablesApart
    <3> QED BY <2>3, <3>2 DEF PathColumn
  <2>4. ASSUME NEW g \in DictFields(Inner(proto, f)),
               NEW s \in StrFields(Inner(Inner(proto, f), g)),
               x \in StrColumns(ThirdTable(main, f, g, s, issub), PositionNames, s)
        PROVE  PathColumn(main, proto, issub, p, x)
    <3>1. x[1] = ThirdTable(main, f, g, s, issub)
      BY <2>4, StrColumnsOf
    <3>2. issub /\ p = TwoPath(f, g)
      <4>1. ThirdTable(main, f, g, s, issub) = TableOf(main, p)
        BY <3>1
      <4> QED BY <4>1, ThirdApart
    <3>3. x \in StrColumns(TableOf(main, p), PositionNames, s)
      BY <2>4, <3>1
    <3> QED BY <3>2, <3>3 DEF PathColumn
  <2> QED BY <1>3, <2>1, <2>2, <2>3, <2>4 DEF IsListColumn
<1> QED BY <1>1, <1>2, <1>3 DEF IsColumn

\* A schema that has the columns of a part.
HasPart(schema, main, proto, issub) ==
  \A x : x[1] \in Tables(main, proto) => (x \in schema <=> IsColumn(main, proto, issub, x))

\* The columns of simple fields, and others that are there.
HasFields(schema, table, proto, others) ==
  /\ \A c \in SimpleFields(proto) : \A x :
       x \in schema /\ x[1] = table /\ x[2] = c <=> x = Entry(table, c, Kind(proto[c]))
  /\ others \subseteq schema

IsSchema(schema, main, proto, issub) ==
  /\ Layers(proto) /\ OwnTables(main, proto) /\ issub \in BOOLEAN /\ "id" \in ToSet(FieldNames)
  /\ HasPart(schema, main, proto, issub)

LEMMA SchemaAtPath ==
  ASSUME NEW schema, NEW main, NEW proto, NEW issub, IsSchema(schema, main, proto, issub),
         NEW p, IsRowPath(proto, p), NEW x, x[1] = TableOf(main, p)
  PROVE  /\ x \in schema => PathColumn(main, proto, issub, p, x)
         /\ IsColumn(main, proto, issub, x) => x \in schema
<1>1. x[1] \in Tables(main, proto)
  BY RowTables DEF IsSchema, IsRowTable
<1> QED BY <1>1, ColumnsOfPath DEF IsSchema, HasPart

LEMMA MainHasFields ==
  ASSUME NEW schema, NEW main, NEW proto, NEW issub, IsSchema(schema, main, proto, issub),
         NEW table, table = TableOf(main, NoPath)
  PROVE  /\ HasFields(schema, table, proto, {})
         /\ "id" \notin DOMAIN proto => Entry(table, "id", "str") \in schema
<1>1. PICK q : q = WithId(proto)
  OBVIOUS
<1>2. /\ \A f \in DOMAIN proto : q[f] = proto[f]
      /\ "id" \notin DOMAIN proto => Kind(q["id"]) = "str"
      /\ SimpleFields(q) = SimpleFields(proto) \cup {"id"}
  BY <1>1, IdAdded DEF IsSchema
<1>3. IsRowPath(proto, NoPath)
  BY DEF IsRowPath
<1>4. \A x : x[1] = table /\ x \in schema => x \in FieldEntries(table, q)
  <2>1. ASSUME NEW x, x[1] = table, x \in schema PROVE x \in FieldEntries(table, q)
    <3>1. PathColumn(main, proto, issub, NoPath, x)
      BY <1>3, <2>1, SchemaAtPath
    <3> QED BY <1>1, <3>1, PathsDiffer DEF PathColumn
  <2> QED BY <2>1
<1>5. \A x \in FieldEntries(table, q) : x[1] = table /\ x \in schema
  <2>1. ASSUME NEW x \in FieldEntries(table, q) PROVE x[1] = table /\ x \in schema
    <3>1. x[1] = table
      BY FieldEntriesOf
    <3>2. IsColumn(main, proto, issub, x)
      BY <1>1 DEF IsColumn
    <3> QED BY <1>3, <3>1, <3>2, SchemaAtPath
  <2> QED BY <2>1
<1>6. SimpleFields(proto) \subseteq DOMAIN proto
  BY DEF SimpleFields
<1>7. ASSUME NEW c \in SimpleFields(proto), NEW x
      PROVE  x \in schema /\ x[1] = table /\ x[2] = c <=> x = Entry(table, c, Kind(proto[c]))
  <2>1. c \in SimpleFields(q) /\ q[c] = proto[c]
    BY <1>2, <1>6
  <2>2. Entry(table, c, Kind(q[c])) \in FieldEntries(table, q)
    BY <2>1 DEF FieldEntries
  <2>3. x \in schema /\ x[1] = table /\ x[2] = c => x = Entry(table, c, Kind(q[c]))
    BY <1>4, FieldEntriesOf
  <2> QED BY <1>5, <2>1, <2>2, <2>3, EntryParts
<1>8. "id" \notin DOMAIN proto => Entry(table, "id", "str") \in schema
  <2>1. Entry(table, "id", Kind(q["id"])) \in FieldEntries(table, q)
    BY <1>2 DEF FieldEntries
  <2> QED BY <1>2, <1>5, <2>1
<1> QED BY <1>7, <1>8 DEF HasFields

LEMMA NamesApart ==
  ASSUME NEW proto, Layer(proto), NEW f \in DictFields(proto), NEW p, p = Inner(proto, f),
         Layer(p)
  PROVE  /\ SimpleFields(p) \cap (PositionNames \cup {"id"}) = {}
         /\ SimpleFields(p) \cap StrFields(p) = {}
<1>1. "id" \notin DOMAIN p /\ DOMAIN p \cap PositionNames = {}
  BY DEF Layer
<1>2. SimpleFields(p) \subseteq DOMAIN p
  BY DEF SimpleFields
<1> QED BY <1>1, <1>2, FieldsAreDisjoint

LEMMA ListHasFields ==
  ASSUME NEW schema, NEW main, NEW proto, NEW issub, IsSchema(schema, main, proto, issub),
         NEW f \in DictFields(proto), NEW p, p = Inner(proto, f),
         NEW table, table = TableOf(main, OnePath(f))
  PROVE  HasFields(schema, table, p, PositionEntries(table, {"list_pos"}))
<1>1. Layers(proto) /\ Layer(proto) /\ Layer(p)
  BY DEF IsSchema, Layers, InnerLayer
<1>2. IsRowPath(proto, OnePath(f))
  BY DEF IsRowPath, Lists
<1>3. \A x : x[1] = table /\ x \in schema => x \in DictColumns(table, {"list_pos"}, p)
  <2>1. ASSUME NEW x, x[1] = table, x \in schema PROVE x \in DictColumns(table, {"list_pos"}, p)
    <3>1. PathColumn(main, proto, issub, OnePath(f), x)
      BY <1>2, <2>1, SchemaAtPath
    <3>2. f \notin StrFields(proto)
      BY FieldsAreDisjoint
    <3> QED BY <3>1, <3>2, PathsDiffer DEF PathColumn
  <2> QED BY <2>1
<1>4. \A x \in DictColumns(table, {"list_pos"}, p) : x[1] = table /\ x \in schema
  <2>1. ASSUME NEW x \in DictColumns(table, {"list_pos"}, p) PROVE x[1] = table /\ x \in schema
    <3>1. x[1] = table
      BY DictColumnsOf
    <3>2. IsColumn(main, proto, issub, x)
      BY DEF IsColumn, IsListColumn
    <3> QED BY <1>2, <3>1, <3>2, SchemaAtPath
  <2> QED BY <2>1
<1>5. SimpleFields(p) \cap (PositionNames \cup {"id"}) = {} /\ "list_pos" \in PositionNames
  BY <1>1, NamesApart DEF PositionNames
<1>6. ASSUME NEW c \in SimpleFields(p), NEW x
      PROVE  x \in schema /\ x[1] = table /\ x[2] = c <=> x = Entry(table, c, Kind(p[c]))
  <2>1. Entry(table, c, Kind(p[c])) \in DictColumns(table, {"list_pos"}, p)
    BY DEF FieldEntries, DictColumns
  <2>2. c \notin {"list_pos"} \cup {"id"}
    BY <1>5
  <2>3. x \in schema /\ x[1] = table /\ x[2] = c => x = Entry(table, c, Kind(p[c]))
    BY <1>3, <2>2, DictColumnsOf
  <2> QED BY <1>4, <2>1, <2>3, EntryParts
<1>7. PositionEntries(table, {"list_pos"}) \subseteq schema
  BY <1>4 DEF DictColumns
<1> QED BY <1>6, <1>7 DEF HasFields

LEMMA InnerHasFields ==
  ASSUME NEW schema, NEW main, NEW proto, NEW issub, IsSchema(schema, main, proto, issub),
         NEW f \in DictFields(proto), NEW g \in DictFields(Inner(proto, f)),
         NEW p, p = Inner(Inner(proto, f), g), NEW table, table = TableOf(main, TwoPath(f, g))
  PROVE  HasFields(schema, table, p, PositionEntries(table, Two))
<1>1. Layers(proto) /\ Layer(Inner(proto, f)) /\ Layer(p)
  BY DEF IsSchema, Layers, InnerLayer, InnermostLayer
<1>2. IsRowPath(proto, TwoPath(f, g))
  BY DEF IsRowPath, Lists
<1>3. ASSUME NEW x, x[1] = table, x \in schema
      PROVE  \/ x \in DictColumns(table, Two, p)
             \/ \E s \in StrFields(p) : x \in StrColumns(table, PositionNames, s)
  <2>1. PathColumn(main, proto, issub, TwoPath(f, g), x)
    BY <1>2, <1>3, SchemaAtPath
  <2>2. g \notin StrFields(Inner(proto, f))
    BY FieldsAreDisjoint
  <2> QED BY <2>1, <2>2, PathsDiffer DEF PathColumn
<1>4. \A x \in DictColumns(table, Two, p) : x[1] = table /\ x \in schema
  <2>1. ASSUME NEW x \in DictColumns(table, Two, p) PROVE x[1] = table /\ x \in schema
    <3>1. x[1] = table
      BY DictColumnsOf
    <3>2. IsColumn(main, proto, issub, x)
      BY DEF IsColumn, IsListColumn
    <3> QED BY <1>2, <3>1, <3>2, SchemaAtPath
  <2> QED BY <2>1
<1>5. /\ SimpleFields(p) \cap (PositionNames \cup {"id"}) = {} /\ Two \subseteq PositionNames
      /\ SimpleFields(p) \cap StrFields(p) = {}
  BY <1>1, NamesApart DEF PositionNames, Two
<1>6. ASSUME NEW c \in SimpleFields(p), NEW x
      PROVE  x \in schema /\ x[1] = table /\ x[2] = c <=> x = Entry(table, c, Kind(p[c]))
  <2>1. Entry(table, c, Kind(p[c])) \in DictColumns(table, Two, p)
    BY DEF FieldEntries, DictColumns
  <2>2. c \notin Two \cup {"id"}
    BY <1>5
  <2>3. \A s \in StrFields(p) : x \in StrColumns(table, PositionNames, s) => x[2] # c
    BY <1>5, StrColumnsOf
  <2>4. x \in DictColumns(table, Two, p) /\ x[2] = c => x = Entry(table, c, Kind(p[c]))
    BY <2>2, DictColumnsOf
  <2>5. x \in schema /\ x[1] = table /\ x[2] = c => x = Entry(table, c, Kind(p[c]))
    BY <1>3, <2>3, <2>4
  <2> QED BY <1>4, <2>1, <2>5, EntryParts
<1>7. PositionEntries(table, Two) \subseteq schema
  BY <1>4 DEF DictColumns
<1> QED BY <1>6, <1>7 DEF HasFields

LEMMA StringsHaveColumns ==
  ASSUME NEW schema, NEW main, NEW proto, NEW issub, IsSchema(schema, main, proto, issub)
  PROVE  /\ \A f \in StrFields(proto) :
              StrColumns(TableOf(main, OnePath(f)), {"list_pos"}, f) \subseteq schema
         /\ \A f \in DictFields(proto) : \A s \in StrFields(Inner(proto, f)) :
              StrColumns(TableOf(main, TwoPath(f, s)), Two, s) \subseteq schema
<1>1. ASSUME NEW f \in StrFields(proto),
             NEW x \in StrColumns(TableOf(main, OnePath(f)), {"list_pos"}, f)
      PROVE  x \in schema
  <2>1. x[1] = TableOf(main, OnePath(f))
    BY StrColumnsOf
  <2>2. IsColumn(main, proto, issub, x)
    BY DEF IsColumn
  <2>3. IsRowPath(proto, OnePath(f))
    BY DEF IsRowPath, Lists
  <2> QED BY <2>1, <2>2, <2>3, SchemaAtPath
<1>2. ASSUME NEW f \in DictFields(proto), NEW s \in StrFields(Inner(proto, f)),
             NEW x \in StrColumns(TableOf(main, TwoPath(f, s)), Two, s)
      PROVE  x \in schema
  <2>1. x[1] = TableOf(main, TwoPath(f, s))
    BY StrColumnsOf
  <2>2. IsColumn(main, proto, issub, x)
    BY DEF IsColumn, IsListColumn
  <2>3. IsRowPath(proto, TwoPath(f, s))
    BY DEF IsRowPath, Lists
  <2> QED BY <2>1, <2>2, <2>3, SchemaAtPath
<1> QED BY <1>1, <1>2

-----------------------------------------------------------------------------
(* What the database takes: the rows of items whose values are of the kind *)
(* of their columns.                                                       *)

CellFits(schema, table, c, v) ==
  \E e \in schema : e[1] = table /\ e[2] = c /\ Kind(v) \in {e[3], "null"}

RowFits(schema, r) == \A c \in DOMAIN r[2] : CellFits(schema, r[1], c, r[2][c])

CellsFit(schema, table, cells) == \A c \in DOMAIN cells : CellFits(schema, table, c, cells[c])

LEMMA InsertableRows ==
  ASSUME NEW schema, NEW new
  PROVE  Insertable(schema, new) <=> \A r \in new : RowFits(schema, r)
BY DEF Insertable, RowFits, CellFits

LEMMA CellsOfRow ==
  ASSUME NEW schema, NEW table, NEW cells
  PROVE  RowFits(schema, Row(table, cells)) <=> CellsFit(schema, table, cells)
BY DEF RowFits, CellsFit, Row

LEMMA EntryFits ==
  ASSUME NEW schema, NEW table, NEW c, NEW k, Entry(table, c, k) \in schema, NEW v, Kind(v) = k
  PROVE  CellFits(schema, table, c, v)
BY EntryParts DEF CellFits

LEMMA FieldFits ==
  ASSUME NEW schema, NEW table, NEW p, NEW others, HasFields(schema, table, p, others),
         NEW c \in SimpleFields(p), NEW v
  PROVE  CellFits(schema, table, c, v) <=> Kind(v) \in {"null", Kind(p[c])}
<1>1. \A x : x \in schema /\ x[1] = table /\ x[2] = c <=> x = Entry(table, c, Kind(p[c]))
  BY DEF HasFields
<1>2. PICK e : e = Entry(table, c, Kind(p[c]))
  OBVIOUS
<1>3. e \in schema /\ e[1] = table /\ e[2] = c /\ e[3] = Kind(p[c])
  BY <1>1, <1>2, EntryParts
<1>4. CellFits(schema, table, c, v) <=> Kind(v) \in {e[3], "null"}
  BY <1>1, <1>2, <1>3 DEF CellFits
<1> QED BY <1>3, <1>4

LEMMA FieldsFit ==
  ASSUME NEW schema, NEW table, NEW p, NEW others, HasFields(schema, table, p, others),
         NEW cells, NEW extra, DOMAIN cells = SimpleFields(p) \cup extra,
         NEW d, \A c \in SimpleFields(p) : cells[c] = d[c],
         \A c \in extra : c \notin SimpleFields(p) => CellFits(schema, table, c, cells[c])
  PROVE  CellsFit(schema, table, cells) <=> KindsFit(d, p)
<1>1. \A c \in SimpleFields(p) :
        CellFits(schema, table, c, cells[c]) <=> Kind(d[c]) \in {"null", Kind(p[c])}
  BY FieldFits
<1> QED BY <1>1 DEF CellsFit, KindsFit

\* The other columns.
LEMMA PositionsFit ==
  ASSUME NEW schema, NEW table, NEW positions, PositionEntries(table, positions) \subseteq schema
  PROVE  /\ \A v : Kind(v) = "str" => CellFits(schema, table, "id", v)
         /\ \A n \in positions : \A v : Kind(v) = "num" => CellFits(schema, table, n, v)
<1>1. Entry(table, "id", "str") \in schema
  BY DEF PositionEntries
<1>2. \A n \in positions : Entry(table, n, "num") \in schema
  BY DEF PositionEntries
<1>3. ASSUME NEW v, Kind(v) = "str" PROVE CellFits(schema, table, "id", v)
  BY <1>1, <1>3, EntryFits
<1>4. ASSUME NEW n \in positions, NEW v, Kind(v) = "num" PROVE CellFits(schema, table, n, v)
  BY <1>2, <1>4, EntryFits
<1> QED BY <1>3, <1>4

LEMMA Domains ==
  /\ \A a, b : DOMAIN Merged(a, b) = DOMAIN a \cup DOMAIN b
  /\ \A x, v : DOMAIN Field(x, v) = {x}
  /\ \A p, d : DOMAIN ColumnsOf(p, d) = SimpleFields(p)
BY DEF Merged, Field, ColumnsOf

LEMMA OwnDomains ==
  /\ \A id : DOMAIN Own(id) = {"id"}
  /\ \A k : DOMAIN ListPos(k) = {"list_pos"}
  /\ \A k : DOMAIN DictPos(k) = {"dict_list_pos"}
BY DEF Own, ListPos, DictPos, Field

LEMMA MainRowDomain ==
  ASSUME NEW p, NEW id, NEW d
  PROVE  DOMAIN MainRow(p, id, d) = SimpleFields(p) \cup {"id"}
<1>1. PICK a, b : a = ColumnsOf(p, d) /\ b = Own(id)
  OBVIOUS
<1>2. MainRow(p, id, d) = Merged(a, b)
  BY <1>1 DEF MainRow
<1>3. DOMAIN a = SimpleFields(p)
  BY <1>1, Domains
<1>4. DOMAIN b = {"id"}
  BY <1>1, OwnDomains
<1>5. DOMAIN Merged(a, b) = DOMAIN a \cup DOMAIN b
  BY Domains
<1> QED BY ONLY <1>2, <1>3, <1>4, <1>5

LEMMA StrRowDomain ==
  ASSUME NEW id, NEW f, NEW d, NEW k
  PROVE  DOMAIN StrRow(id, f, d, k)
           = {f} \cup {"list_pos", "id"}
<1>1. PICK m1, m2, m3 : m1 = Field(f, Data(d[f])[k]) /\ m2 = ListPos(k) /\ m3 = Own(id)
  OBVIOUS
<1>2. StrRow(id, f, d, k) = Merged(m1, Merged(m2, m3))
  BY <1>1 DEF StrRow
<1>3. DOMAIN m1 = {f}
  BY <1>1, Domains
<1>4. DOMAIN m2 = {"list_pos"}
  BY <1>1, OwnDomains
<1>5. DOMAIN m3 = {"id"}
  BY <1>1, OwnDomains
<1>6. DOMAIN Merged(m2, m3) = {"list_pos"} \cup {"id"}
  <2>1. DOMAIN Merged(m2, m3) = DOMAIN m2 \cup DOMAIN m3
    BY Domains
  <2> QED BY <1>4, <1>5, <2>1
<1>7. DOMAIN Merged(m1, Merged(m2, m3)) = {f} \cup ({"list_pos"} \cup {"id"})
  <2>1. DOMAIN Merged(m1, Merged(m2, m3)) = DOMAIN m1 \cup DOMAIN Merged(m2, m3)
    BY Domains
  <2> QED BY <1>3, <1>6, <2>1
<1> QED BY <1>2, <1>7

LEMMA DictRowDomain ==
  ASSUME NEW p, NEW id, NEW d, NEW i
  PROVE  DOMAIN DictRow(p, id, d, i)
           = SimpleFields(p) \cup {"list_pos", "id"}
<1>1. PICK m1, m2, m3 : m1 = ColumnsOf(p, d) /\ m2 = ListPos(i) /\ m3 = Own(id)
  OBVIOUS
<1>2. DictRow(p, id, d, i) = Merged(m1, Merged(m2, m3))
  BY <1>1 DEF DictRow
<1>3. DOMAIN m1 = SimpleFields(p)
  BY <1>1, Domains
<1>4. DOMAIN m2 = {"list_pos"}
  BY <1>1, OwnDomains
<1>5. DOMAIN m3 = {"id"}
  BY <1>1, OwnDomains
<1>6. DOMAIN Merged(m2, m3) = {"list_pos"} \cup {"id"}
  <2>1. DOMAIN Merged(m2, m3) = DOMAIN m2 \cup DOMAIN m3
    BY Domains
  <2> QED BY <1>4, <1>5, <2>1
<1>7. DOMAIN Merged(m1, Merged(m2, m3)) = SimpleFields(p) \cup ({"list_pos"} \cup {"id"})
  <2>1. DOMAIN Merged(m1, Merged(m2, m3)) = DOMAIN m1 \cup DOMAIN Merged(m2, m3)
    BY Domains
  <2> QED BY <1>3, <1>6, <2>1
<1> QED BY <1>2, <1>7

DictStrNames(s) == {s} \cup {"list_pos", "dict_list_pos", "id"}

LEMMA DictStrRowDomain ==
  ASSUME NEW id, NEW s, NEW d, NEW i, NEW k
  PROVE  DOMAIN DictStrRow(id, s, d, i, k) = DictStrNames(s)
<1>1. PICK m1, m2, m3, m4 : m1 = Field(s, Data(d[s])[k]) /\ m2 = ListPos(k) /\ m3 = DictPos(i) /\ m4 = Own(id)
  OBVIOUS
<1>2. DictStrRow(id, s, d, i, k) = Merged(m1, Merged(m2, Merged(m3, m4)))
  BY <1>1 DEF DictStrRow
<1>3. DOMAIN m1 = {s}
  BY <1>1, Domains
<1>4. DOMAIN m2 = {"list_pos"}
  BY <1>1, OwnDomains
<1>5. DOMAIN m3 = {"dict_list_pos"}
  BY <1>1, OwnDomains
<1>6. DOMAIN m4 = {"id"}
  BY <1>1, OwnDomains
<1>7. DOMAIN Merged(m3, m4) = {"dict_list_pos"} \cup {"id"}
  <2>1. DOMAIN Merged(m3, m4) = DOMAIN m3 \cup DOMAIN m4
    BY Domains
  <2> QED BY <1>5, <1>6, <2>1
<1>8. DOMAIN Merged(m2, Merged(m3, m4)) = {"list_pos"} \cup ({"dict_list_pos"} \cup {"id"})
  <2>1. DOMAIN Merged(m2, Merged(m3, m4)) = DOMAIN m2 \cup DOMAIN Merged(m3, m4)
    BY Domains
  <2> QED BY <1>4, <1>7, <2>1
<1>9. DOMAIN Merged(m1, Merged(m2, Merged(m3, m4))) = {s} \cup ({"list_pos"} \cup ({"dict_list_pos"} \cup {"id"}))
  <2>1. DOMAIN Merged(m1, Merged(m2, Merged(m3, m4))) = DOMAIN m1 \cup DOMAIN Merged(m2, Merged(m3, m4))
    BY Domains
  <2> QED BY <1>3, <1>8, <2>1
<1> QED BY <1>2, <1>9 DEF DictStrNames

LEMMA InnerRowDomain ==
  ASSUME NEW p, NEW id, NEW d, NEW i, NEW j
  PROVE  DOMAIN InnerRow(p, id, d, i, j)
           = SimpleFields(p) \cup {"list_pos", "dict_list_pos", "id"}
<1>1. PICK m1, m2, m3, m4 : m1 = ColumnsOf(p, d) /\ m2 = DictPos(i) /\ m3 = ListPos(j) /\ m4 = Own(id)
  OBVIOUS
<1>2. InnerRow(p, id, d, i, j) = Merged(m1, Merged(m2, Merged(m3, m4)))
  BY <1>1 DEF InnerRow
<1>3. DOMAIN m1 = SimpleFields(p)
  BY <1>1, Domains
<1>4. DOMAIN m2 = {"dict_list_pos"}
  BY <1>1, OwnDomains
<1>5. DOMAIN m3 = {"list_pos"}
  BY <1>1, OwnDomains
<1>6. DOMAIN m4 = {"id"}
  BY <1>1, OwnDomains
<1>7. DOMAIN Merged(m3, m4) = {"list_pos"} \cup {"id"}
  <2>1. DOMAIN Merged(m3, m4) = DOMAIN m3 \cup DOMAIN m4
    BY Domains
  <2> QED BY <1>5, <1>6, <2>1
<1>8. DOMAIN Merged(m2, Merged(m3, m4)) = {"dict_list_pos"} \cup ({"list_pos"} \cup {"id"})
  <2>1. DOMAIN Merged(m2, Merged(m3, m4)) = DOMAIN m2 \cup DOMAIN Merged(m3, m4)
    BY Domains
  <2> QED BY <1>4, <1>7, <2>1
<1>9. DOMAIN Merged(m1, Merged(m2, Merged(m3, m4))) = SimpleFields(p) \cup ({"dict_list_pos"} \cup ({"list_pos"} \cup {"id"}))
  <2>1. DOMAIN Merged(m1, Merged(m2, Merged(m3, m4))) = DOMAIN m1 \cup DOMAIN Merged(m2, Merged(m3, m4))
    BY Domains
  <2> QED BY <1>3, <1>8, <2>1
<1> QED BY <1>2, <1>9

LEMMA MainRowFits ==
  ASSUME NEW schema, NEW main, NEW proto, NEW issub, IsSchema(schema, main, proto, issub),
         NEW id, NEW item, NEW table, table = TableOf(main, NoPath)
  PROVE  CellsFit(schema, table, MainRow(proto, id, item)) <=> KindsFit(item, proto)
<1>1. PICK cells : cells = MainRow(proto, id, item)
  OBVIOUS
<1>2. HasFields(schema, table, proto, {})
      /\ ("id" \notin DOMAIN proto => Entry(table, "id", "str") \in schema)
  BY MainHasFields
<1>3. DOMAIN cells = SimpleFields(proto) \cup {"id"}
  BY <1>1, MainRowDomain
<1>4. /\ \A c \in SimpleFields(proto) : cells[c] = item[c]
      /\ "id" \notin SimpleFields(proto) => cells["id"] = Str(id)
  BY <1>1, MainCells
<1>5. "id" \in DOMAIN proto => "id" \in SimpleFields(proto)
  BY DEF IsSchema, Layers, Layer
<1>6. "id" \notin SimpleFields(proto) => CellFits(schema, table, "id", cells["id"])
  BY <1>2, <1>4, <1>5, EntryFits, Tagged
<1>7. \A c \in {"id"} : c \notin SimpleFields(proto) => CellFits(schema, table, c, cells[c])
  BY <1>6
<1>8. CellsFit(schema, table, cells) <=> KindsFit(item, proto)
  <2>1. PICK extra : extra = {"id"}
    OBVIOUS
  <2>2. DOMAIN cells = SimpleFields(proto) \cup extra
        /\ \A c \in extra : c \notin SimpleFields(proto) => CellFits(schema, table, c, cells[c])
    BY <1>3, <1>7, <2>1
  <2> QED BY <1>2, <1>4, <2>2, FieldsFit
<1> QED BY <1>1, <1>8

LEMMA StrRowFits ==
  ASSUME NEW schema, NEW main, NEW proto, NEW issub, IsSchema(schema, main, proto, issub),
         NEW id, NEW f \in StrFields(proto), NEW item, NEW k, Kind(Data(item[f])[k]) = "str",
         NEW table, table = TableOf(main, OnePath(f))
  PROVE  CellsFit(schema, table, StrRow(id, f, item, k))
<1>1. PICK cells : cells = StrRow(id, f, item, k)
  OBVIOUS
<1>2. StrColumns(table, {"list_pos"}, f) \subseteq schema
  BY StringsHaveColumns
<1>3. PICK one : one = {"list_pos"}
  OBVIOUS
<1>4. PositionEntries(table, one) \subseteq schema /\ Entry(table, f, "str") \in schema
  BY <1>2, <1>3 DEF StrColumns, StringEntries
<1>5. f \notin {"id"} \cup PositionNames
  BY LayerNames DEF Lists, IsSchema, Layers
<1>6. /\ cells[f] = Data(item[f])[k] /\ cells["list_pos"] = Num(k - 1)
      /\ cells["id"] = Str(id)
  <2>1. /\ StrRow(id, f, item, k)[f] = Data(item[f])[k]
        /\ StrRow(id, f, item, k)["list_pos"] = Num(k - 1)
        /\ StrRow(id, f, item, k)["id"] = Str(id)
    BY <1>5, StrCells
  <2> QED BY <1>1, <2>1
<1>7. DOMAIN cells = {f} \cup {"list_pos", "id"}
  BY <1>1, StrRowDomain
<1>8. CellFits(schema, table, "id", cells["id"])
      /\ CellFits(schema, table, "list_pos", cells["list_pos"])
  BY <1>3, <1>4, <1>6, PositionsFit, Tagged
<1>9. CellFits(schema, table, f, cells[f])
  BY <1>4, <1>6, EntryFits
<1> QED BY <1>1, <1>7, <1>8, <1>9 DEF CellsFit

LEMMA DictRowFits ==
  ASSUME NEW schema, NEW main, NEW proto, NEW issub, IsSchema(schema, main, proto, issub),
         NEW id, NEW f \in DictFields(proto), NEW p, p = Inner(proto, f), NEW d, NEW i,
         NEW table, table = TableOf(main, OnePath(f))
  PROVE  CellsFit(schema, table, DictRow(p, id, d, i)) <=> KindsFit(d, p)
<1>1. PICK cells : cells = DictRow(p, id, d, i)
  OBVIOUS
<1>2. PICK one, others : one = {"list_pos"} /\ others = PositionEntries(table, one)
  OBVIOUS
<1>3. HasFields(schema, table, p, others)
  BY <1>2, ListHasFields
<1>4. others \subseteq schema
  BY <1>3 DEF HasFields
<1>5. Layer(proto) /\ Layer(p)
  BY DEF IsSchema, Layers, InnerLayer
<1>6. DOMAIN p \cap ({"id"} \cup PositionNames) = {}
  BY <1>5 DEF Layer
<1>7. /\ \A c \in SimpleFields(p) : cells[c] = d[c]
      /\ cells["list_pos"] = Num(i - 1) /\ cells["id"] = Str(id)
  BY <1>1, <1>6, DictCells
<1>8. CellFits(schema, table, "id", cells["id"])
      /\ CellFits(schema, table, "list_pos", cells["list_pos"])
  BY <1>2, <1>4, <1>7, PositionsFit, Tagged
<1>9. PICK extra : extra = {"list_pos", "id"}
  OBVIOUS
<1>10. DOMAIN cells = SimpleFields(p) \cup extra
  BY <1>1, <1>9, DictRowDomain
<1>11. \A c \in extra : c \notin SimpleFields(p) => CellFits(schema, table, c, cells[c])
  BY <1>8, <1>9
<1>12. CellsFit(schema, table, cells) <=> KindsFit(d, p)
  BY <1>3, <1>7, <1>10, <1>11, FieldsFit
<1> QED BY <1>1, <1>12

LEMMA DictStrRowFits ==
  ASSUME NEW schema, NEW main, NEW proto, NEW issub, IsSchema(schema, main, proto, issub),
         NEW id, NEW f \in DictFields(proto), NEW s \in StrFields(Inner(proto, f)),
         NEW d, NEW i, NEW k, Kind(Data(d[s])[k]) = "str",
         NEW table, table = TableOf(main, TwoPath(f, s))
  PROVE  CellsFit(schema, table, DictStrRow(id, s, d, i, k))
<1>1. PICK cells : cells = DictStrRow(id, s, d, i, k)
  OBVIOUS
<1>2. StrColumns(table, Two, s) \subseteq schema
  BY StringsHaveColumns
<1>3. PositionEntries(table, Two) \subseteq schema /\ Entry(table, s, "str") \in schema
  BY <1>2 DEF StrColumns, StringEntries
<1>4. Layer(proto) /\ s \in DOMAIN Inner(proto, f) /\ Layer(Inner(proto, f))
  BY DEF IsSchema, Layers, InnerLayer, StrFields, ListFields
<1>5. s \notin {"id"} \cup PositionNames
  BY <1>4 DEF Layer
<1>6. /\ cells[s] = Data(d[s])[k] /\ cells["list_pos"] = Num(k - 1)
      /\ cells["dict_list_pos"] = Num(i - 1) /\ cells["id"] = Str(id)
  <2>1. /\ DictStrRow(id, s, d, i, k)[s] = Data(d[s])[k]
        /\ DictStrRow(id, s, d, i, k)["list_pos"] = Num(k - 1)
        /\ DictStrRow(id, s, d, i, k)["dict_list_pos"] = Num(i - 1)
        /\ DictStrRow(id, s, d, i, k)["id"] = Str(id)
    BY <1>5, DictStrCells
  <2> QED BY <1>1, <2>1
<1>7. DOMAIN cells = {s} \cup {"list_pos", "dict_list_pos", "id"}
  <2>1. DOMAIN DictStrRow(id, s, d, i, k) = DictStrNames(s)
    BY ONLY DictStrRowDomain
  <2> QED BY <1>1, <2>1 DEF DictStrNames
<1>8. "list_pos" \in Two /\ "dict_list_pos" \in Two
  BY DEF Two
<1>9. /\ CellFits(schema, table, "id", cells["id"])
      /\ CellFits(schema, table, "list_pos", cells["list_pos"])
      /\ CellFits(schema, table, "dict_list_pos", cells["dict_list_pos"])
  BY <1>3, <1>6, <1>8, PositionsFit, Tagged
<1>10. CellFits(schema, table, s, cells[s])
  BY <1>3, <1>6, EntryFits
<1> QED BY <1>1, <1>7, <1>9, <1>10 DEF CellsFit

LEMMA InnerRowFits ==
  ASSUME NEW schema, NEW main, NEW proto, NEW issub, IsSchema(schema, main, proto, issub),
         NEW id, NEW f \in DictFields(proto), NEW g \in DictFields(Inner(proto, f)),
         NEW p, p = Inner(Inner(proto, f), g), NEW d, NEW i, NEW j,
         NEW table, table = TableOf(main, TwoPath(f, g))
  PROVE  CellsFit(schema, table, InnerRow(p, id, d, i, j)) <=> KindsFit(d, p)
<1>1. PICK cells : cells = InnerRow(p, id, d, i, j)
  OBVIOUS
<1>2. PICK others : others = PositionEntries(table, Two)
  OBVIOUS
<1>3. HasFields(schema, table, p, others)
  BY <1>2, InnerHasFields
<1>4. others \subseteq schema
  BY <1>3 DEF HasFields
<1>5. Layer(Inner(proto, f)) /\ Layer(p)
  BY DEF IsSchema, Layers, InnerLayer, InnermostLayer
<1>6. DOMAIN p \cap ({"id"} \cup PositionNames) = {}
  BY <1>5 DEF Layer
<1>7. /\ \A c \in SimpleFields(p) : cells[c] = d[c]
      /\ cells["list_pos"] = Num(j - 1) /\ cells["dict_list_pos"] = Num(i - 1)
      /\ cells["id"] = Str(id)
  BY <1>1, <1>6, InnerCells
<1>8. "list_pos" \in Two /\ "dict_list_pos" \in Two
  BY DEF Two
<1>9. /\ CellFits(schema, table, "id", cells["id"])
      /\ CellFits(schema, table, "list_pos", cells["list_pos"])
      /\ CellFits(schema, table, "dict_list_pos", cells["dict_list_pos"])
  BY <1>2, <1>4, <1>7, <1>8, PositionsFit, Tagged
<1>10. PICK extra : extra = {"list_pos", "dict_list_pos", "id"}
  OBVIOUS
<1>11. DOMAIN cells = SimpleFields(p) \cup extra
  BY <1>1, <1>10, InnerRowDomain
<1>12. \A c \in extra : c \notin SimpleFields(p) => CellFits(schema, table, c, cells[c])
  BY <1>9, <1>10
<1>13. CellsFit(schema, table, cells) <=> KindsFit(d, p)
  BY <1>3, <1>7, <1>11, <1>12, FieldsFit
<1> QED BY <1>1, <1>13

\* Lists of strings are of strings.
StringsIn(d, p) ==
  \A f \in StrFields(p) : \A k \in DOMAIN Data(d[f]) : Kind(Data(d[f])[k]) = "str"

HasStrings(d, proto) ==
  /\ StringsIn(d, proto)
  /\ \A f \in DictFields(proto) : \A k \in DOMAIN Data(d[f]) :
       StringsIn(DictIn(d, f, k), Inner(proto, f))

LEMMA ItemFits ==
  ASSUME NEW schema, NEW main, NEW proto, NEW issub, IsSchema(schema, main, proto, issub),
         NEW id, NEW item, Formed(item, proto), HasStrings(item, proto)
  PROVE  Insertable(schema, WriteWalker(main, proto, id, item)) <=> Sound(item, proto)
<1>1. CanWalk(item, proto)
  BY FormedCanBeWalked DEF IsSchema
<1>2. \A r : r \in WriteWalker(main, proto, id, item) <=> IsItemRow(main, proto, id, item, r)
  BY <1>1, WalkerRows
<1>3. Insertable(schema, WriteWalker(main, proto, id, item)) <=>
        \A r : IsItemRow(main, proto, id, item, r) => RowFits(schema, r)
  BY <1>2, InsertableRows
<1>4. RowFits(schema, Row(TableOf(main, NoPath), MainRow(proto, id, item)))
        <=> KindsFit(item, proto)
  BY MainRowFits, CellsOfRow
<1>5. \A f \in StrFields(proto) : \A k \in DOMAIN Data(item[f]) :
        RowFits(schema, Row(TableOf(main, OnePath(f)), StrRow(id, f, item, k)))
  BY StrRowFits, CellsOfRow DEF HasStrings, StringsIn
<1>6. \A f \in DictFields(proto) : \A i \in DOMAIN Data(item[f]) :
        RowFits(schema, Row(TableOf(main, OnePath(f)),
                            DictRow(Inner(proto, f), id, DictIn(item, f, i), i)))
          <=> KindsFit(DictIn(item, f, i), Inner(proto, f))
  BY DictRowFits, CellsOfRow
<1>7. \A f \in DictFields(proto) : \A i \in DOMAIN Data(item[f]) :
      \A s \in StrFields(Inner(proto, f)) : \A k \in DOMAIN Data(DictIn(item, f, i)[s]) :
        RowFits(schema, Row(TableOf(main, TwoPath(f, s)),
                            DictStrRow(id, s, DictIn(item, f, i), i, k)))
  BY DictStrRowFits, CellsOfRow DEF HasStrings, StringsIn
<1>8. \A f \in DictFields(proto) : \A i \in DOMAIN Data(item[f]) :
      \A g \in DictFields(Inner(proto, f)) : \A j :
        RowFits(schema, Row(TableOf(main, TwoPath(f, g)),
                            InnerRow(Inner(Inner(proto, f), g), id,
                                     DictIn(DictIn(item, f, i), g, j), i, j)))
          <=> KindsFit(DictIn(DictIn(item, f, i), g, j), Inner(Inner(proto, f), g))
  BY InnerRowFits, CellsOfRow
<1>9. ASSUME NEW f \in DictFields(proto), NEW i \in DOMAIN Data(item[f]),
             NEW g \in DictFields(Inner(proto, f))
      PROVE  InnerListOf(DictIn(item, f, i), g) = Data(DictIn(item, f, i)[g])
  <2>1. DOMAIN DictIn(item, f, i) = DOMAIN Inner(proto, f)
    BY DEF Formed, FormedInner, Shaped
  <2>2. g \in DOMAIN Inner(proto, f)
    BY DEF DictFields, ListFields
  <2> QED BY <2>1, <2>2 DEF InnerListOf
<1>10. ASSUME Sound(item, proto), NEW r, IsItemRow(main, proto, id, item, r)
       PROVE  RowFits(schema, r)
  <2>1. /\ KindsFit(item, proto)
        /\ \A f \in DictFields(proto) : \A i \in DOMAIN Data(item[f]) :
             /\ KindsFit(DictIn(item, f, i), Inner(proto, f))
             /\ \A g \in DictFields(Inner(proto, f)) :
                  \A j \in DOMAIN Data(DictIn(item, f, i)[g]) :
                    KindsFit(DictIn(DictIn(item, f, i), g, j), Inner(Inner(proto, f), g))
    BY <1>10 DEF Sound, SoundInner
  <2> QED BY <1>4, <1>5, <1>6, <1>7, <1>8, <1>9, <1>10, <2>1, TableOfRow
<1>11. ASSUME \A r : IsItemRow(main, proto, id, item, r) => RowFits(schema, r)
       PROVE  Sound(item, proto)
  <2>1. KindsFit(item, proto)
    BY <1>4, <1>11, TableOfRow
  <2>2. ASSUME NEW f \in DictFields(proto), NEW i \in DOMAIN Data(item[f])
        PROVE  KindsFit(DictIn(item, f, i), Inner(proto, f))
    <3>1. PICK r : r = Row(TableOf(main, OnePath(f)),
                           DictRow(Inner(proto, f), id, DictIn(item, f, i), i))
      OBVIOUS
    <3>2. IsItemRow(main, proto, id, item, r)
      BY <3>1, TableOfRow
    <3> QED BY <1>6, <1>11, <3>1, <3>2
  <2>3. ASSUME NEW f \in DictFields(proto), NEW i \in DOMAIN Data(item[f]),
               NEW g \in DictFields(Inner(proto, f)),
               NEW j \in DOMAIN Data(DictIn(item, f, i)[g])
        PROVE  KindsFit(DictIn(DictIn(item, f, i), g, j), Inner(Inner(proto, f), g))
    <3>1. PICK r : r = Row(TableOf(main, TwoPath(f, g)),
                           InnerRow(Inner(Inner(proto, f), g), id,
                                    DictIn(DictIn(item, f, i), g, j), i, j))
      OBVIOUS
    <3>2. j \in DOMAIN InnerListOf(DictIn(item, f, i), g)
      BY <1>9
    <3>3. IsItemRow(main, proto, id, item, r)
      BY <3>1, <3>2, TableOfRow
    <3> QED BY <1>8, <1>11, <3>1, <3>3
  <2> QED BY <2>1, <2>2, <2>3 DEF Sound, SoundInner
<1> QED BY <1>3, <1>10, <1>11

-----------------------------------------------------------------------------
(* The schema of a resource type has the columns of each of its parts.     *)

LEMMA ColumnTables ==
  ASSUME NEW main, NEW proto, Layers(proto), NEW issub \in BOOLEAN,
         NEW x, IsColumn(main, proto, issub, x)
  PROVE  x[1] \in Tables(main, proto)
<1>1. \A p : IsRowPath(proto, p) \/ p \in PathsOf(proto) => TableOf(main, p) \in Tables(main, proto)
  BY RowTables DEF Tables
<1>2. CASE x \in FieldEntries(TableOf(main, NoPath), WithId(proto))
  <2>1. x[1] = TableOf(main, NoPath) /\ IsRowPath(proto, NoPath)
    BY <1>2, FieldEntriesOf DEF IsRowPath
  <2> QED BY <1>1, <2>1
<1>3. ASSUME NEW f \in StrFields(proto),
             x \in StrColumns(TableOf(main, OnePath(f)), {"list_pos"}, f)
      PROVE  x[1] \in Tables(main, proto)
  <2>1. x[1] = TableOf(main, OnePath(f)) /\ IsRowPath(proto, OnePath(f))
    BY <1>3, StrColumnsOf DEF IsRowPath, Lists
  <2> QED BY <1>1, <2>1
<1>4. ASSUME NEW f \in DictFields(proto), IsListColumn(main, f, Inner(proto, f), issub, x)
      PROVE  x[1] \in Tables(main, proto)
  <2>1. CASE x \in DictColumns(TableOf(main, OnePath(f)), {"list_pos"}, Inner(proto, f))
    <3>1. x[1] = TableOf(main, OnePath(f)) /\ IsRowPath(proto, OnePath(f))
      BY <2>1, DictColumnsOf DEF IsRowPath, Lists
    <3> QED BY <1>1, <3>1
  <2>2. ASSUME NEW s \in StrFields(Inner(proto, f)),
               x \in StrColumns(TableOf(main, TwoPath(f, s)), Two, s)
        PROVE  x[1] \in Tables(main, proto)
    <3>1. x[1] = TableOf(main, TwoPath(f, s)) /\ IsRowPath(proto, TwoPath(f, s))
      BY <2>2, StrColumnsOf DEF IsRowPath, Lists
    <3> QED BY <1>1, <3>1
  <2>3. ASSUME NEW g \in DictFields(Inner(proto, f)),
               x \in DictColumns(TableOf(main, TwoPath(f, g)), Two, Inner(Inner(proto, f), g))
        PROVE  x[1] \in Tables(main, proto)
    <3>1. x[1] = TableOf(main, TwoPath(f, g)) /\ IsRowPath(proto, TwoPath(f, g))
      BY <2>3, DictColumnsOf DEF IsRowPath, Lists
    <3> QED BY <1>1, <3>1
  <2>4. ASSUME NEW g \in DictFields(Inner(proto, f)),
               NEW s \in StrFields(Inner(Inner(proto, f), g)),
               x \in StrColumns(ThirdTable(main, f, g, s, issub), PositionNames, s)
        PROVE  x[1] \in Tables(main, proto)
    <3>1. x[1] = ThirdTable(main, f, g, s, issub)
      BY <2>4, StrColumnsOf
    <3>2. IsRowPath(proto, TwoPath(f, g))
      BY DEF IsRowPath, Lists
    <3>3. ThreePath(f, g, s) \in PathsOf(proto)
      BY ThreePaths
    <3> QED BY <1>1, <3>1, <3>2, <3>3 DEF ThirdTable
  <2> QED BY <1>4, <2>1, <2>2, <2>3, <2>4 DEF IsListColumn
<1> QED BY <1>2, <1>3, <1>4 DEF IsColumn

ItemColumns(t) == ToSet(SchemaFromPrototype(t.proto, MainTable(t.name), FALSE))
PartColumns(t, proto, s) == ToSet(SchemaFromPrototype(proto, SubTable(t.name, s), TRUE))

SubColumns(t)  == UNION {PartColumns(t, t.subs[s], s) : s \in DOMAIN t.subs}
FileColumns(t) == UNION {PartColumns(t, t.files[f], f) : f \in DOMAIN t.files}

SchemaOf(t) == ItemColumns(t) \cup SubColumns(t) \cup FileColumns(t)

LEMMA InSchema ==
  ASSUME NEW t, NEW x
  PROVE  x \in SchemaOf(t) <=>
           \/ x \in ItemColumns(t)
           \/ \E s \in DOMAIN t.subs : x \in PartColumns(t, t.subs[s], s)
           \/ \E f \in DOMAIN t.files : x \in PartColumns(t, t.files[f], f)
<1>1. x \in SubColumns(t) <=> \E s \in DOMAIN t.subs : x \in PartColumns(t, t.subs[s], s)
  BY DEF SubColumns
<1>2. x \in FileColumns(t) <=> \E f \in DOMAIN t.files : x \in PartColumns(t, t.files[f], f)
  BY DEF FileColumns
<1> QED BY <1>1, <1>2 DEF SchemaOf

LEMMA SchemasOf ==
  ASSUME NEW t \in Resources
  PROVE  TypeSchema[t] = SchemaOf(t)
<1>1. TypeSchema = [u \in Resources |-> SchemaOf(u)]
  BY Zenon DEF TypeSchema, SchemaOf, ItemColumns, SubColumns, FileColumns, PartColumns
<1> QED BY <1>1

LEMMA TypeColumns ==
  ASSUME NEW t \in Resources, NEW x
  PROVE  x \in TypeSchema[t] <=>
           \/ IsColumn(MainTable(t.name), t.proto, FALSE, x)
           \/ \E s \in DOMAIN t.subs : IsColumn(SubTable(t.name, s), t.subs[s], TRUE, x)
           \/ \E f \in DOMAIN t.files : IsColumn(SubTable(t.name, f), t.files[f], TRUE, x)
<1>1. "id" \in ToSet(FieldNames)
  <2>1. Layers(t.proto) /\ ServerFields \subseteq DOMAIN t.proto
    BY MainPart DEF PartTables, SimpleFields
  <2> QED BY <2>1 DEF Layers, Layer, ServerFields
<1>2. x \in ItemColumns(t) <=> IsColumn(MainTable(t.name), t.proto, FALSE, x)
  BY <1>1, MainPart, SchemaColumns DEF PartTables, ItemColumns
<1>3. \A s \in DOMAIN t.subs : x \in PartColumns(t, t.subs[s], s)
        <=> IsColumn(SubTable(t.name, s), t.subs[s], TRUE, x)
  BY <1>1, SubitemPart, SchemaColumns DEF PartTables, PartColumns
<1>4. \A f \in DOMAIN t.files : x \in PartColumns(t, t.files[f], f)
        <=> IsColumn(SubTable(t.name, f), t.files[f], TRUE, x)
  BY <1>1, FileTable, SchemaColumns DEF PartColumns
<1>5. TypeSchema[t] = SchemaOf(t)
  BY SchemasOf
<1> QED BY <1>2, <1>3, <1>4, <1>5, InSchema

LEMMA TypeSchemas ==
  ASSUME NEW t \in Resources
  PROVE  /\ IsSchema(TypeSchema[t], MainTable(t.name), t.proto, FALSE)
         /\ \A s \in DOMAIN t.subs : IsSchema(TypeSchema[t], SubTable(t.name, s), t.subs[s], TRUE)
<1> DEFINE M == Tables(MainTable(t.name), t.proto)
           S(s) == Tables(SubTable(t.name, s), t.subs[s])
           F(f) == Tables(SubTable(t.name, f), t.files[f])
           InM(x) == IsColumn(MainTable(t.name), t.proto, FALSE, x)
           InS(s, x) == IsColumn(SubTable(t.name, s), t.subs[s], TRUE, x)
           InF(f, x) == IsColumn(SubTable(t.name, f), t.files[f], TRUE, x)
<1>1. \A x : x \in TypeSchema[t] <=>
        InM(x) \/ (\E s \in DOMAIN t.subs : InS(s, x)) \/ (\E f \in DOMAIN t.files : InF(f, x))
  BY TypeColumns
<1>2. \A x : InM(x) => x[1] \in M
  BY MainPart, ColumnTables DEF PartTables
<1>3. \A s \in DOMAIN t.subs : \A x : InS(s, x) => x[1] \in S(s)
  BY SubitemPart, ColumnTables DEF PartTables
<1>4. \A f \in DOMAIN t.files : \A x : InF(f, x) => x[1] \in F(f)
  BY FileTable, ColumnTables
<1>5. \A s \in DOMAIN t.subs :
        /\ S(s) \cap M = {}
        /\ \A u \in DOMAIN t.subs : u # s => S(s) \cap S(u) = {}
        /\ \A f \in DOMAIN t.files : S(s) \cap F(f) = {}
  BY TablesAssumption
<1>6. \A f \in DOMAIN t.files : F(f) \cap M = {}
  BY TablesAssumption
<1>7. "id" \in ToSet(FieldNames)
  <2>1. Layers(t.proto) /\ ServerFields \subseteq DOMAIN t.proto
    BY MainPart DEF PartTables, SimpleFields
  <2> QED BY <2>1 DEF Layers, Layer, ServerFields
<1>8. HasPart(TypeSchema[t], MainTable(t.name), t.proto, FALSE)
  <2> HIDE DEF M, S, F, InM, InS, InF
  <2>1. \A x : x[1] \in M => (x \in TypeSchema[t] <=> InM(x))
    BY <1>1, <1>2, <1>3, <1>4, <1>5, <1>6
  <2> QED BY <2>1 DEF HasPart, M, InM
<1>9. ASSUME NEW s \in DOMAIN t.subs
      PROVE  HasPart(TypeSchema[t], SubTable(t.name, s), t.subs[s], TRUE)
  <2> HIDE DEF M, S, F, InM, InS, InF
  <2>1. \A x : x[1] \in S(s) => (x \in TypeSchema[t] <=> InS(s, x))
    BY <1>1, <1>2, <1>3, <1>4, <1>5
  <2> QED BY <2>1 DEF HasPart, S, InS
<1> QED BY <1>7, <1>8, <1>9, MainPart, SubitemPart DEF IsSchema, PartTables

-----------------------------------------------------------------------------
(* What is accepted is what fits.                                          *)

LEMMA LayerOfStrings ==
  ASSUME NEW proto, NEW d, ValidLayer(proto, d)
  PROVE  StringsIn(d, proto)
<1>1. \A f \in StrFields(proto) : /\ f \in DOMAIN proto /\ Kind(proto[f]) = "list"
                                  /\ Kind(Data(proto[f])[1]) = "str"
  BY DEF StrFields, ListFields
<1> QED BY <1>1 DEF StringsIn, ValidLayer

LEMMA ValidHasStrings ==
  ASSUME NEW proto, NEW d, ValidDict(proto, d)
  PROVE  HasStrings(d, proto)
<1>1. ValidLayer(proto, d)
  BY ValidLayers
<1>2. ASSUME NEW f \in DictFields(proto), NEW k \in DOMAIN Data(d[f])
      PROVE  StringsIn(DictIn(d, f, k), Inner(proto, f))
  <2>1. f \in DOMAIN proto /\ Kind(proto[f]) = "list" /\ Kind(Data(proto[f])[1]) = "dict"
    BY DEF DictFields, ListFields
  <2>2. Kind(Data(d[f])[k]) = "dict"
    BY <1>1, <2>1 DEF ValidLayer
  <2>3. ValidInner(Inner(proto, f), DictIn(d, f, k))
    BY <2>1, <2>2, ValidLayers DEF DictIn
  <2>4. ValidLayer(Inner(proto, f), DictIn(d, f, k))
    BY <2>3, ValidLayers
  <2> QED BY <2>4, LayerOfStrings
<1> QED BY <1>1, <1>2, LayerOfStrings DEF HasStrings

LEMMA LayerIsSound ==
  ASSUME NEW proto, Layer(proto)
  PROVE  /\ KindsFit(proto, proto) /\ StringsIn(proto, proto)
         /\ \A f \in DictFields(proto) : \A k \in DOMAIN Data(proto[f]) :
              DictIn(proto, f, k) = Inner(proto, f)
<1>1. ASSUME NEW f \in StrFields(proto), NEW k \in DOMAIN Data(proto[f])
      PROVE  Kind(Data(proto[f])[k]) = "str"
  <2>1. proto[f] = List(<<Str("")>>)
    BY DEF Layer
  <2>2. PICK e : e = Str("")
    OBVIOUS
  <2>3. proto[f] = List(<<e>>) /\ Kind(e) = "str"
    BY <2>1, <2>2, Tagged
  <2>4. Data(proto[f])[k] = e
    BY <2>3, OneIsListed
  <2> QED BY <2>3, <2>4
<1> QED BY <1>1, LayerIsShaped DEF KindsFit, StringsIn

\* The prototypes that new items get for subitems.
LEMMA PrototypeIsSound ==
  ASSUME NEW proto, Layers(proto)
  PROVE  Sound(proto, proto) /\ HasStrings(proto, proto)
<1>1. ASSUME NEW p, InnerLayer(p) PROVE SoundInner(p, p) /\ StringsIn(p, p)
  <2>1. Layer(p) /\ \A f \in DictFields(p) : Layer(Inner(p, f))
    BY <1>1 DEF InnerLayer, InnermostLayer
  <2> QED BY <2>1, LayerIsSound DEF SoundInner
<1>2. Layer(proto) /\ \A f \in DictFields(proto) :
        SoundInner(Inner(proto, f), Inner(proto, f)) /\ StringsIn(Inner(proto, f), Inner(proto, f))
  BY <1>1 DEF Layers
<1> QED BY <1>2, LayerIsSound DEF Sound, HasStrings

LEMMA SoundAlike ==
  ASSUME NEW proto, NEW d, NEW e, \A f \in Lists(proto) : e[f] = d[f]
  PROVE  /\ HasStrings(d, proto) => HasStrings(e, proto)
         /\ KindsFit(d, proto) /\ KindsFit(e, proto) => (Sound(d, proto) <=> Sound(e, proto))
<1>1. \A f \in StrFields(proto) \cup DictFields(proto) : e[f] = d[f]
  BY DEF Lists
<1>2. \A f \in DictFields(proto) : \A k : DictIn(e, f, k) = DictIn(d, f, k)
  BY <1>1 DEF DictIn
<1>3. StringsIn(d, proto) => StringsIn(e, proto)
  BY <1>1 DEF StringsIn
<1>4. HasStrings(d, proto) => HasStrings(e, proto)
  BY <1>1, <1>2, <1>3 DEF HasStrings
<1> QED BY <1>1, <1>2, <1>4 DEF Sound

\* Whether a dict fits is decided field by field.
FieldFitsIn(proto, f, v) == Fits(proto, Dict([g \in {f} |-> v]))

LEMMA FitsByField ==
  ASSUME NEW proto, NEW body
  PROVE  Fits(proto, body) <=>
           /\ Kind(body) = "dict"
           /\ \A f \in DOMAIN Data(body) : FieldFitsIn(proto, f, Data(body)[f])
<1> DEFINE Good(f, v) ==
       /\ f \in DOMAIN proto
       /\ LET p == proto[f]
          IN \/ Kind(p) # "list" /\ Kind(v) \in {Kind(p), "null"}
             \/ /\ Kind(p) = "list" /\ Kind(v) = "list"
                /\ \A k \in DOMAIN Data(v) :
                     \/ Kind(Data(p)[1]) = "str" /\ Kind(Data(v)[k]) = "str"
                     \/ /\ Kind(Data(p)[1]) = "dict"
                        /\ InnerFits(Inner(proto, f), Data(v)[k])
<1>1. \A b : Fits(proto, b) <=> Kind(b) = "dict" /\ \A f \in DOMAIN Data(b) : Good(f, Data(b)[f])
  BY DEF Fits, FitsIn
<1> HIDE DEF Good
<1>2. ASSUME NEW f, NEW v PROVE FieldFitsIn(proto, f, v) <=> Good(f, v)
  <2>1. PICK d : d = [g \in {f} |-> v]
    OBVIOUS
  <2>2. DOMAIN d = {f} /\ d[f] = v
    BY <2>1
  <2>3. Kind(Dict(d)) = "dict" /\ Data(Dict(d)) = d
    BY Tagged
  <2> QED BY <1>1, <2>1, <2>2, <2>3 DEF FieldFitsIn
<1> QED BY <1>1, <1>2

LEMMA SimpleFieldFits ==
  ASSUME NEW proto, NEW f \in DOMAIN proto, Kind(proto[f]) # "list", NEW v, Kind(v) = Kind(proto[f])
  PROVE  FieldFitsIn(proto, f, v)
<1>1. PICK d : d = [g \in {f} |-> v]
  OBVIOUS
<1>2. DOMAIN d = {f} /\ d[f] = v
  BY <1>1
<1>3. Kind(Dict(d)) = "dict" /\ Data(Dict(d)) = d
  BY Tagged
<1>4. Fits(proto, Dict(d))
  BY <1>2, <1>3 DEF Fits, FitsIn
<1> QED BY <1>1, <1>4 DEF FieldFitsIn

\* The type that a body does not name is its resource's.
LEMMA DefaultFits ==
  ASSUME NEW proto, NEW f \in DOMAIN proto, Kind(proto[f]) # "list",
         NEW v, Kind(v) = Kind(proto[f]), NEW body, Kind(body) = "dict",
         NEW d, DOMAIN d = DOMAIN Data(body) \cup {f},
         \A g \in DOMAIN Data(body) : d[g] = Data(body)[g],
         f \notin DOMAIN Data(body) => d[f] = v
  PROVE  Fits(proto, Dict(d)) /\ d[f] = v <=>
           Fits(proto, body) /\ (f \in DOMAIN Data(body) => Data(body)[f] = v)
<1>1. PICK b : b = Data(body)
  OBVIOUS
<1>2. /\ DOMAIN d = DOMAIN b \cup {f} /\ \A g \in DOMAIN b : d[g] = b[g]
      /\ f \notin DOMAIN b => d[f] = v
  BY <1>1
<1>3. Kind(Dict(d)) = "dict" /\ Data(Dict(d)) = d
  BY Tagged
<1>4. Fits(proto, Dict(d)) <=> \A g \in DOMAIN d : FieldFitsIn(proto, g, d[g])
  BY <1>3, FitsByField
<1>5. Fits(proto, body) <=> \A g \in DOMAIN b : FieldFitsIn(proto, g, b[g])
  BY <1>1, FitsByField
<1>6. FieldFitsIn(proto, f, v)
  BY SimpleFieldFits
<1> QED BY <1>1, <1>2, <1>4, <1>5, <1>6

\* Of items.
LEMMA ItemAccepted ==
  ASSUME NEW name, NEW proto, Layers(proto), AllPlain(proto), "type" \in DOMAIN proto, Kind(proto["type"]) = "str",
         NEW body, Kind(body) = "dict", JsonDict(Data(body)),
         NEW x, x = AddMissingItemFields(name, proto, body)
  PROVE  Fits(proto, body) /\ ("type" \in DOMAIN Data(body) => Data(body)["type"] = Str(name))
           <=> x # Crash /\ Valid(name, proto, x) /\ Sound(Data(x), proto)
<1>1. PICK names : names = {"type"} \cap DOMAIN proto
  OBVIOUS
<1>2. names = {"type"}
  BY <1>1
<1>3. PICK d : d = Merged(Data(body), [f \in names |-> Str(name)])
  OBVIOUS
<1>4. x = FillInDictFields(proto, d)
  BY <1>1, <1>3 DEF AddMissingItemFields
<1>5. JsonDict(d)
  BY <1>3, JsonMerged
<1>6. Fits(proto, Dict(d)) <=> x # Crash /\ Fine(proto, Data(x))
  BY <1>4, <1>5, FilledFitsOuter
<1>7. Kind(proto["type"]) # "list" /\ Kind(Str(name)) = Kind(proto["type"])
  BY Tagged
<1>8. Fits(proto, Dict(d)) /\ d["type"] = Str(name) <=>
        Fits(proto, body) /\ ("type" \in DOMAIN Data(body) => Data(body)["type"] = Str(name))
  <2>1. PICK v, f : v = Str(name) /\ f = "type"
    OBVIOUS
  <2>2. /\ DOMAIN d = DOMAIN Data(body) \cup {f}
        /\ \A g \in DOMAIN Data(body) : d[g] = Data(body)[g]
        /\ f \notin DOMAIN Data(body) => d[f] = v
    BY <1>2, <1>3, <2>1 DEF Merged
  <2>3. f \in DOMAIN proto /\ Kind(proto[f]) # "list" /\ Kind(v) = Kind(proto[f])
    BY <1>7, <2>1
  <2>4. Kind(body) = "dict"
    OBVIOUS
  <2>5. Fits(proto, Dict(d)) /\ d[f] = v <=>
          Fits(proto, body) /\ (f \in DOMAIN Data(body) => Data(body)[f] = v)
    BY ONLY <2>2, <2>3, <2>4, DefaultFits
  <2> QED BY <2>1, <2>5
<1>9. "type" \in DOMAIN d
  BY <1>2, <1>3 DEF Merged
<1>10. "type" \notin DictFields(proto)
  BY <1>7 DEF DictFields, ListFields
<1>11. x # Crash => /\ Kind(x) = "dict" /\ "type" \in DOMAIN Data(x)
                    /\ Data(x)["type"] = d["type"]
  <2>1. ASSUME x # Crash
        PROVE  /\ x = Dict(Data(x)) /\ DOMAIN Data(x) = DOMAIN d \cup DOMAIN proto
               /\ \A f \in DOMAIN d : f \notin DictFields(proto) => Data(x)[f] = d[f]
    BY <1>4, <1>5, <2>1, FilledOuter
  <2>2. \A e : Kind(Dict(e)) = "dict"
    BY Tagged
  <2>3. ASSUME x # Crash PROVE Kind(x) = "dict"
    BY <2>1, <2>2, <2>3
  <2> QED BY <1>9, <1>10, <2>1, <2>3
<1>12. x # Crash =>
         (Valid(name, proto, x) <=> d["type"] = Str(name) /\ ValidDict(proto, Data(x)))
  BY <1>11 DEF Valid
<1> QED BY <1>6, <1>8, <1>12 DEF Fine

\* The revision that comes with a subitem makes no difference.
FilledOver(proto, d, x, table, names) ==
  x = FillWith(proto, d, table) /\ names = DOMAIN d \cup DOMAIN proto

LEMMA FilledByField ==
  ASSUME NEW proto, NEW d, NEW x, NEW table, NEW names, FilledOver(proto, d, x, table, names)
  PROVE  /\ x = Crash <=> \E f \in names : FilledField(proto, d, table, f) = Crash
         /\ x # Crash => /\ IsFunction(Data(x)) /\ DOMAIN Data(x) = names /\ x = Dict(Data(x))
                         /\ \A f \in names : Data(x)[f] = FilledField(proto, d, table, f)
<1>1. x = FillWith(proto, d, table)
  BY DEF FilledOver
<1>2. DOMAIN WithDefaults(proto, d) = names
  BY DEF FilledOver, WithDefaults, Merged
<1>3. PICK r : r = FilledFields(proto, d, table)
  OBVIOUS
<1>4. IsFunction(r) /\ DOMAIN r = names /\ \A f \in names : r[f] = FilledField(proto, d, table, f)
  BY <1>2, <1>3 DEF FilledFields, IsFunction
<1>5. x = IF \E f \in names : r[f] = Crash THEN Crash ELSE Dict(r)
  BY <1>1, <1>2, <1>3 DEF FillWith
<1>6. Dict(r) # Crash /\ Data(Dict(r)) = r
  <2>1. Kind(Dict(r)) = "dict" /\ Kind(Crash) = "crash"
    BY Tagged DEF Crash, Kind
  <2> QED BY <2>1, Tagged
<1> QED BY <1>4, <1>5, <1>6

LEMMA FieldIsFilled ==
  ASSUME NEW proto, NEW d, NEW e, NEW f, f \in DOMAIN d \cup DOMAIN proto,
         f \in DOMAIN e <=> f \in DOMAIN d, f \in DOMAIN d => e[f] = d[f],
         NEW s, s = OuterTable(proto, d), NEW t, t = OuterTable(proto, e)
  PROVE  FilledField(proto, e, t, f) = FilledField(proto, d, s, f)
<1>1. PICK a, b : a = WithDefaults(proto, d) /\ b = WithDefaults(proto, e)
  OBVIOUS
<1>2. f \in DOMAIN a /\ f \in DOMAIN b /\ b[f] = a[f]
  BY <1>1 DEF WithDefaults, Merged
<1>3. t[f] = s[f]
  <2>1. s[f] = [k \in DOMAIN Data(a[f]) |->
                  IF Kind(Data(a[f])[k]) = "dict"
                  THEN FillInInner(Inner(proto, f), Data(Data(a[f])[k])) ELSE Data(a[f])[k]]
    BY <1>1, <1>2 DEF OuterTable, FillTable
  <2>2. t[f] = [k \in DOMAIN Data(b[f]) |->
                  IF Kind(Data(b[f])[k]) = "dict"
                  THEN FillInInner(Inner(proto, f), Data(Data(b[f])[k])) ELSE Data(b[f])[k]]
    BY <1>1, <1>2 DEF OuterTable, FillTable
  <2> QED BY <1>2, <2>1, <2>2
<1> QED BY <1>1, <1>2, <1>3 DEF FilledField

LEMMA RevisionLeftOut ==
  ASSUME NEW proto, Layers(proto), "revision" \notin DOMAIN proto, NEW d,
         "revision" \in DOMAIN d => d["revision"] # Crash,
         NEW e, e = Without(d, {"revision"}),
         NEW x, x = FillInDictFields(proto, d), NEW y, y = FillInDictFields(proto, e)
  PROVE  /\ y = Crash <=> x = Crash
         /\ x # Crash => y = Dict(Without(Data(x), {"revision"}))
<1>1. PICK s, t : s = OuterTable(proto, d) /\ t = OuterTable(proto, e)
  OBVIOUS
<1>2. PICK all, most : all = DOMAIN d \cup DOMAIN proto /\ most = DOMAIN e \cup DOMAIN proto
  OBVIOUS
<1>3. /\ DOMAIN e = DOMAIN d \ {"revision"} /\ \A f \in DOMAIN e : e[f] = d[f]
  BY DEF Without
<1>4. most = all \ {"revision"}
  BY <1>2, <1>3
<1>5. \A f \in most : FilledField(proto, e, t, f) = FilledField(proto, d, s, f)
  BY <1>1, <1>2, <1>3, FieldIsFilled
<1>6. "revision" \in all => FilledField(proto, d, s, "revision") # Crash
  <2>1. ToSet(DictLists(proto)) \subseteq DOMAIN proto
    <3>1. DOMAIN proto \subseteq ToSet(FieldNames)
      BY DEF Layers, Layer
    <3>2. ToSet(DictLists(proto)) = DictFields(proto)
      BY <3>1, FieldsInOrder
    <3> QED BY <3>2 DEF DictFields, ListFields
  <2>2. "revision" \in all => WithDefaults(proto, d)["revision"] = d["revision"]
    BY <1>2 DEF WithDefaults, Merged
  <2> QED BY <1>2, <2>1, <2>2 DEF FilledField
<1>7. /\ x = Crash <=> \E f \in all : FilledField(proto, d, s, f) = Crash
      /\ x # Crash => /\ IsFunction(Data(x)) /\ DOMAIN Data(x) = all
                      /\ \A f \in all : Data(x)[f] = FilledField(proto, d, s, f)
  <2>1. FilledOver(proto, d, x, s, all)
    BY <1>1, <1>2, FillsOuter DEF FilledOver
  <2> QED BY <2>1, FilledByField
<1>8. /\ y = Crash <=> \E f \in most : FilledField(proto, e, t, f) = Crash
      /\ y # Crash => /\ IsFunction(Data(y)) /\ DOMAIN Data(y) = most /\ y = Dict(Data(y))
                      /\ \A f \in most : Data(y)[f] = FilledField(proto, e, t, f)
  <2>1. FilledOver(proto, e, y, t, most)
    BY <1>1, <1>2, FillsOuter DEF FilledOver
  <2> QED BY <2>1, FilledByField
<1>9. y = Crash <=> x = Crash
  BY <1>4, <1>5, <1>6, <1>7, <1>8
<1>10. ASSUME x # Crash PROVE Data(y) = Without(Data(x), {"revision"})
  <2>1. DOMAIN Data(y) = DOMAIN Data(x) \ {"revision"} /\ IsFunction(Data(y))
        /\ \A f \in DOMAIN Data(y) : Data(y)[f] = Data(x)[f]
    BY <1>4, <1>5, <1>7, <1>8, <1>9, <1>10
  <2> QED BY <2>1 DEF Without, IsFunction
<1> QED BY <1>8, <1>9, <1>10

LEMMA Untyped ==
  ASSUME NEW name, NEW proto, "type" \notin DOMAIN proto, NEW b, IsFunction(b)
  PROVE  Merged(b, [f \in {"type"} \cap DOMAIN proto |-> Str(name)]) = b
<1>1. PICK e : e = [f \in {"type"} \cap DOMAIN proto |-> Str(name)]
  OBVIOUS
<1>2. DOMAIN e = {}
  BY <1>1
<1>3. PICK m : m = Merged(b, e)
  OBVIOUS
<1>4. m = [f \in DOMAIN b |-> b[f]]
  BY <1>2, <1>3 DEF Merged
<1> QED BY <1>1, <1>3, <1>4 DEF IsFunction

\* Of subitems, which come with the revision of the item.
LEMMA SubitemAccepted ==
  ASSUME NEW name, NEW proto, Layers(proto), AllPlain(proto),
         DOMAIN proto \cap ServerFields = {},
         NEW body, Kind(body) = "dict", JsonDict(Data(body)),
         NEW filled, filled = AddMissingItemFields(name, proto, body),
         NEW x, x = IF filled = Crash THEN filled ELSE Dict(Without(Data(filled), {"revision"}))
  PROVE  Fits(proto, Dict(Without(Data(body), {"revision"})))
           <=> x # Crash /\ Valid(name, proto, x) /\ Sound(Data(x), proto)
<1>1. "type" \notin DOMAIN proto /\ "revision" \notin DOMAIN proto
  BY DEF ServerFields
<1>2. PICK d, e : d = Data(body) /\ e = Without(d, {"revision"})
  OBVIOUS
<1>3. JsonDict(d) /\ IsFunction(d) /\ JsonDict(e)
  BY <1>2, JsonPart, JsonByField
<1>4. filled = FillInDictFields(proto, d)
  BY <1>1, <1>2, <1>3, Untyped DEF AddMissingItemFields
<1>5. PICK y : y = FillInDictFields(proto, e)
  OBVIOUS
<1>6. "revision" \in DOMAIN d => d["revision"] # Crash
  BY <1>3, JsonByField DEF JsonField, IsValue, JsonKinds, Crash, Kind
<1>7. /\ y = Crash <=> filled = Crash
      /\ filled # Crash => y = Dict(Without(Data(filled), {"revision"}))
  BY <1>1, <1>2, <1>4, <1>5, <1>6, RevisionLeftOut
<1>8. x = y
  BY <1>7
<1>9. Fits(proto, Dict(e)) <=> y # Crash /\ Fine(proto, Data(y))
  BY <1>3, <1>5, FilledFitsOuter
<1>10. y # Crash => Kind(y) = "dict"
  BY <1>7, Tagged
<1>11. y # Crash => (Valid(name, proto, y) <=> ValidDict(proto, Data(y)))
  BY <1>1, <1>10 DEF Valid
<1> QED BY <1>2, <1>8, <1>9, <1>11 DEF Fine

\* A body that fits a request is one that passes the checks and then the
\* database.
LEMMA ItemFitsRequest ==
  ASSUME type \in Resources, NEW id \in Ids, NEW body \in Items[type.name][id],
         NEW filled, filled = Filled(body),
         NEW check, check = CheckItem(filled, type.name, type.proto),
         NEW fine, fine \in BOOLEAN,
         fine <=> check = 200 /\ Sound(Data(filled), type.proto)
  PROVE  /\ FitsRequest("POST", id, body) <=> CheckCreate(body) = 201 /\ fine
         /\ FitsRequest("PUT", id, body) <=> CheckUpdate(id, body) \in {200, 409} /\ fine
<1>1. PICK p : p = type.proto
  OBVIOUS
<1>2. /\ Layers(p) /\ AllPlain(p) /\ "type" \in DOMAIN p /\ Kind(p["type"]) = "str"
  BY <1>1, MainPart, ResourcesAssumption DEF PartTables, ServerFields
<1>3. "POST" \notin DOMAIN type.subs /\ "PUT" \notin DOMAIN type.subs
  BY ResourcesAssumption
<1>4. check = 200 <=> filled # Crash /\ Valid(type.name, p, filled)
  BY <1>1 DEF CheckItem
<1>5. CASE Kind(body) # "dict"
  <2>1. ~Fits(p, body)
    BY <1>5, FitsByField
  <2>2. filled = body
    BY <1>5 DEF Filled, AddMissingItemFields
  <2>3. check # 200
    BY <1>4, <1>5, <2>2 DEF Valid
  <2> QED BY <1>1, <1>3, <2>1, <2>3 DEF FitsRequest
<1>6. CASE Kind(body) = "dict"
  <2>1. JsonDict(Data(body))
    BY <1>6, BodiesAssumption
  <2>2. filled = AddMissingItemFields(type.name, p, body)
    BY <1>1 DEF Filled
  <2>3. PICK name : name = type.name
    OBVIOUS
  <2>4. Fits(p, body) /\ ("type" \in DOMAIN Data(body) => Data(body)["type"] = Str(name))
          <=> filled # Crash /\ Valid(name, p, filled) /\ Sound(Data(filled), p)
    BY <1>2, <1>6, <2>1, <2>2, <2>3, ItemAccepted
  <2>5. fine <=> Fits(p, body)
                   /\ ("type" \in DOMAIN Data(body) => Data(body)["type"] = Str(type.name))
    BY <1>1, <1>4, <2>3, <2>4
  <2>6. \A key : Holds(body, key) <=> key \in DOMAIN Data(body)
    BY <1>6 DEF Holds
  <2>7. CheckCreate(body) = 201 <=> DOMAIN Data(body) \cap {"id", "revision"} = {}
    BY <1>6, <2>6 DEF CheckCreate, Scalar, Tricky
  <2>8. CheckUpdate(id, body) \in {200, 409}
          <=> ("id" \in DOMAIN Data(body) => Data(body)["id"] = Str(id))
    <3>1. ~Scalar(body) /\ ~Tricky(body, "id")
      BY <1>6 DEF Scalar, Tricky
    <3>2. ASSUME Holds(body, "id"), Data(body)["id"] # Str(id)
          PROVE  CheckUpdate(id, body) = 400
      BY <3>1, <3>2 DEF CheckUpdate
    <3>3. ASSUME ~(Holds(body, "id") /\ Data(body)["id"] # Str(id)), Holds(body, "revision")
          PROVE  CheckUpdate(id, body) = 200
      BY <3>1, <3>3 DEF CheckUpdate
    <3>4. ASSUME ~(Holds(body, "id") /\ Data(body)["id"] # Str(id)), ~Holds(body, "revision")
          PROVE  CheckUpdate(id, body) = 409
      BY <3>1, <3>4 DEF CheckUpdate
    <3> QED BY <2>6, <3>2, <3>3, <3>4
  <2> QED BY <1>1, <1>3, <2>5, <2>6, <2>7, <2>8 DEF FitsRequest
<1> QED BY <1>5, <1>6

LEMMA SubitemFitsRequest ==
  ASSUME type \in Resources, NEW id \in Ids, NEW s \in DOMAIN type.subs,
         NEW body \in Subitems[type.name][id],
         NEW x, x = SubitemOf(s, body),
         NEW check, check = CheckItem(x, type.subtype[s], type.subs[s])
  PROVE  /\ Kind(body) # "dict" => ~FitsRequest(s, id, body)
         /\ Kind(body) = "dict" =>
              (FitsRequest(s, id, body) <=> check = 200 /\ Sound(Data(x), type.subs[s]))
         /\ CheckUpdate(id, body) \in {400, 500} => ~FitsRequest(s, id, body)
<1>1. PICK p, name : p = type.subs[s] /\ name = type.subtype[s]
  OBVIOUS
<1>2. Layers(p) /\ AllPlain(p) /\ DOMAIN p \cap ServerFields = {}
  BY <1>1, SubitemPart DEF PartTables
<1>3. FitsRequest(s, id, body) <=>
        Kind(body) = "dict" /\ Fits(p, Dict(Without(Data(body), {"revision"})))
  BY <1>1 DEF FitsRequest
<1>4. ASSUME Kind(body) = "dict"
      PROVE  FitsRequest(s, id, body) <=> check = 200 /\ Sound(Data(x), p)
  <2>1. JsonDict(Data(body))
    BY <1>4, BodiesAssumption
  <2>2. PICK filled : filled = AddMissingItemFields(name, p, body)
    OBVIOUS
  <2>3. x = IF filled = Crash THEN filled ELSE Dict(Without(Data(filled), {"revision"}))
    BY <1>1, <2>2 DEF SubitemOf
  <2>4. Fits(p, Dict(Without(Data(body), {"revision"})))
          <=> x # Crash /\ Valid(name, p, x) /\ Sound(Data(x), p)
    BY <1>2, <1>4, <2>1, <2>2, <2>3, SubitemAccepted
  <2>5. check = 200 <=> x # Crash /\ Valid(name, p, x)
    BY <1>1 DEF CheckItem
  <2> QED BY <1>3, <1>4, <2>4, <2>5
<1>5. ASSUME CheckUpdate(id, body) \in {400, 500}, Kind(body) = "dict"
      PROVE  ~Fits(p, Dict(Without(Data(body), {"revision"})))
  <2>1. "id" \in DOMAIN Data(body)
    BY <1>5 DEF CheckUpdate, Scalar, Tricky, Holds
  <2>2. PICK e : e = Without(Data(body), {"revision"})
    OBVIOUS
  <2>3. "id" \in DOMAIN e
    BY <2>1, <2>2 DEF Without
  <2>4. "id" \notin DOMAIN p
    BY <1>2 DEF ServerFields
  <2>5. Kind(Dict(e)) = "dict" /\ Data(Dict(e)) = e
    BY Tagged
  <2>6. ~Fits(p, Dict(e))
    BY <2>3, <2>4, <2>5 DEF Fits, FitsIn
  <2> QED BY <2>2, <2>6
<1> QED BY <1>1, <1>3, <1>4, <1>5

\* The server's own fields do no harm.
LEMMA AddedIsAsSound ==
  ASSUME type \in Resources, NEW id, NEW filled, Valid(type.name, type.proto, filled),
         NEW item, item = Added(id, filled)
  PROVE  /\ HasStrings(item, type.proto)
         /\ Sound(item, type.proto) <=> Sound(Data(filled), type.proto)
<1>1. PICK p, d, v : p = type.proto /\ d = Data(filled) /\ v = NewRevision(id)
  OBVIOUS
<1>2. /\ {"id", "revision"} \cap Lists(p) = {}
      /\ Kind(p["id"]) = "str" /\ Kind(p["revision"]) = "str"
  BY <1>1, RevisionIsSimple, ResourcesAssumption DEF ServerFields
<1>3. ValidDict(p, d)
  BY <1>1 DEF Valid
<1>4. DOMAIN d = DOMAIN p /\ {"id", "revision"} \subseteq DOMAIN p
  BY <1>1, <1>3, RevisionIsSimple DEF ValidDict, ValidIn
<1>5. item = Merged(Field("id", Str(id)), Merged(Field("revision", v), d))
  BY <1>1 DEF Added
<1>6. /\ item["id"] = Str(id) /\ item["revision"] = v
      /\ \A f \in DOMAIN p \ {"id", "revision"} : item[f] = d[f]
  BY <1>4, <1>5 DEF Merged, Field
<1>7. Kind(v) = "str"
  BY <1>1, Tagged DEF NewRevision
<1>8. Kind(d["id"]) \in {"null", "str"} /\ Kind(d["revision"]) \in {"null", "str"}
  BY <1>2, <1>3, <1>4 DEF ValidDict, ValidIn
<1>9. \A f \in Lists(p) : item[f] = d[f]
  <2>1. Lists(p) \subseteq DOMAIN p
    BY DEF Lists, StrFields, DictFields, ListFields
  <2> QED BY <1>2, <1>6, <2>1
<1>10. KindsFit(item, p) <=> KindsFit(d, p)
  <2>1. SimpleFields(p) \subseteq DOMAIN p
    BY DEF SimpleFields
  <2>2. Kind(Str(id)) = "str"
    BY Tagged
  <2> QED BY <1>2, <1>6, <1>7, <1>8, <2>1, <2>2 DEF KindsFit
<1>11. HasStrings(d, p)
  BY <1>3, ValidHasStrings
<1>12. HasStrings(item, p)
  BY <1>9, <1>11, SoundAlike
<1>13. Sound(item, p) <=> Sound(d, p)
  <2>1. KindsFit(d, p) /\ KindsFit(item, p) => (Sound(d, p) <=> Sound(item, p))
    BY <1>9, SoundAlike
  <2> QED BY <1>10, <2>1 DEF Sound
<1> QED BY <1>1, <1>12, <1>13

-----------------------------------------------------------------------------
(* Requests accept what fits.                                              *)

LEMMA BothInsertable ==
  ASSUME NEW schema, NEW a, NEW b
  PROVE  Insertable(schema, a \cup b) <=> Insertable(schema, a) /\ Insertable(schema, b)
<1>1. PICK c : c = a \cup b
  OBVIOUS
<1>2. \A r : r \in c <=> r \in a \/ r \in b
  BY <1>1
<1>3. /\ Insertable(schema, a) <=> \A r \in a : RowFits(schema, r)
      /\ Insertable(schema, b) <=> \A r \in b : RowFits(schema, r)
      /\ Insertable(schema, c) <=> \A r \in c : RowFits(schema, r)
  BY InsertableRows
<1> QED BY <1>1, <1>2, <1>3

LEMMA NothingInsertable ==
  ASSUME NEW schema
  PROVE  Insertable(schema, {})
BY InsertableRows

\* The prototypes that a new item gets for subitems fit their tables.
LEMMA FirstSubitemsFit ==
  ASSUME type \in Resources, NEW id
  PROVE  Insertable(TypeSchema[type], FirstSubitems(id))
<1>1. PICK t : t = type
  OBVIOUS
<1>2. ASSUME NEW s \in DOMAIN t.subs
      PROVE  Insertable(TypeSchema[t], WriteWalker(SubTable(t.name, s), t.subs[s], id, t.subs[s]))
  <2>1. PICK p, main, schema : /\ p = t.subs[s] /\ main = SubTable(t.name, s)
                               /\ schema = TypeSchema[t]
    OBVIOUS
  <2>2. IsSchema(schema, main, p, TRUE)
    BY <1>1, <2>1, TypeSchemas
  <2>3. Layers(p)
    BY <1>1, <2>1, SubitemPart DEF PartTables
  <2>4. Formed(p, p)
    BY <2>3, PrototypesAreFormed
  <2>5. HasStrings(p, p) /\ Sound(p, p)
    BY <2>3, PrototypeIsSound
  <2>6. Insertable(schema, WriteWalker(main, p, id, p))
    BY <2>2, <2>4, <2>5, ItemFits
  <2> QED BY <2>1, <2>6
<1>3. \A r : r \in FirstSubitems(id) <=>
        \E s \in DOMAIN t.subs : r \in WriteWalker(SubTable(t.name, s), t.subs[s], id, t.subs[s])
  BY <1>1 DEF FirstSubitems, InsertSubitem
<1>4. PICK all, schema : all = FirstSubitems(id) /\ schema = TypeSchema[t]
  OBVIOUS
<1>5. \A r \in all : RowFits(schema, r)
  BY <1>2, <1>3, <1>4, InsertableRows
<1> QED BY <1>1, <1>4, <1>5, InsertableRows

LEMMA ItemInsertable ==
  ASSUME type \in Resources, NEW id, NEW item, Formed(item, type.proto),
         HasStrings(item, type.proto), NEW new, NEW old,
         new = InsertItem(old, id, item), Insertable(TypeSchema[type], old)
  PROVE  Insertable(TypeSchema[type], new) <=> Sound(item, type.proto)
<1>1. PICK t, p, main, schema : /\ t = type /\ p = type.proto /\ main = MainTable(type.name)
                                /\ schema = TypeSchema[type]
  OBVIOUS
<1>2. IsSchema(schema, main, p, FALSE)
  BY <1>1, TypeSchemas
<1>3. PICK written : written = WriteWalker(main, p, id, item)
  OBVIOUS
<1>4. new = old \cup written
  BY <1>1, <1>3 DEF InsertItem, Main
<1>5. Insertable(schema, WriteWalker(main, p, id, item)) <=> Sound(item, p)
  BY <1>1, <1>2, ItemFits
<1>6. Insertable(schema, old \cup written)
        <=> Insertable(schema, old) /\ Insertable(schema, written)
  BY BothInsertable
<1> QED BY <1>1, <1>3, <1>4, <1>5, <1>6

LEMMA SubitemInsertable ==
  ASSUME type \in Resources, NEW id, NEW s \in DOMAIN type.subs,
         NEW sub, Formed(sub, type.subs[s]), HasStrings(sub, type.subs[s]),
         NEW new, new = InsertSubitem({}, id, s, sub)
  PROVE  Insertable(TypeSchema[type], new) <=> Sound(sub, type.subs[s])
<1>1. PICK t, p, main, schema : /\ t = type /\ p = type.subs[s] /\ main = SubTable(type.name, s)
                                /\ schema = TypeSchema[type]
  OBVIOUS
<1>2. IsSchema(schema, main, p, TRUE)
  BY <1>1, TypeSchemas
<1>3. Insertable(schema, WriteWalker(main, p, id, sub)) <=> Sound(sub, p)
  BY <1>1, <1>2, ItemFits
<1>4. new = WriteWalker(main, p, id, sub)
  BY <1>1 DEF InsertSubitem
<1> QED BY <1>1, <1>3, <1>4

LEMMA Answered ==
  ASSUME NEW op, NEW id, NEW body, body # NoBody, NEW status,
         Answer(op, id, body, status),
         status \in {200, 201} => FitsRequest(op, id, body),
         status \in {400, 500} => ~FitsRequest(op, id, body)
  PROVE  AcceptsWhatFits'
<1>1. reply' = [id |-> id, status |-> status, fits |-> FitsRequest(op, id, body)]
  BY DEF Answer
<1>2. reply'.status = status
  BY <1>1
<1>3. reply'.fits = FitsRequest(op, id, body)
  BY <1>1
<1> QED BY <1>2, <1>3 DEF AcceptsWhatFits

LEMMA Refused ==
  ASSUME NEW op, NEW id, NEW body, body # NoBody, NEW status,
         Refuse(op, id, body, status),
         status \in {400, 500} => ~FitsRequest(op, id, body)
  PROVE  AcceptsWhatFits'
<1>1. Answer(op, id, body, status) /\ status \notin {200, 201}
  BY DEF Refuse
<1> QED BY <1>1, Answered

LEMMA Inserted ==
  ASSUME NEW op, NEW id, NEW body, body # NoBody, NEW success \in {200, 201},
         NEW rest, NEW new, NEW record, Insert(op, id, body, success, rest, new, record),
         FitsRequest(op, id, body) <=> Insertable(TypeSchema[type], new)
  PROVE  AcceptsWhatFits'
<1>1. CASE Insertable(TypeSchema[type], new)
  <2>1. Answer(op, id, body, success)
    BY <1>1 DEF Insert, Change
  <2> QED BY <1>1, <2>1, Answered
<1>2. CASE ~Insertable(TypeSchema[type], new)
  <2>1. Refuse(op, id, body, 500)
    BY <1>2 DEF Insert
  <2> QED BY <1>2, <2>1, Refused
<1> QED BY <1>1, <1>2

LEMMA JsonIsSome ==
  ASSUME NEW body, IsValue(body)
  PROVE  body # NoBody
<1>1. Kind(NoBody) = "none"
  BY DEF NoBody, Kind
<1> QED BY <1>1 DEF IsValue, JsonKinds

\* A checked body: its item is formed, and the database takes it when it is
\* sound.
LEMMA CheckedItem ==
  ASSUME type \in Resources, NEW id \in Ids, NEW body \in Items[type.name][id],
         NEW filled, filled = Filled(body),
         CheckItem(filled, type.name, type.proto) = 200,
         NEW item, item = Added(id, filled),
         NEW old, Insertable(TypeSchema[type], old), NEW new, new = InsertItem(old, id, item)
  PROVE  Insertable(TypeSchema[type], new) <=> Sound(Data(filled), type.proto)
<1>1. Formed(item, type.proto)
  BY GoodItem
<1>2. Valid(type.name, type.proto, filled)
  BY DEF CheckItem
<1>3. HasStrings(item, type.proto)
      /\ (Sound(item, type.proto) <=> Sound(Data(filled), type.proto))
  BY <1>2, AddedIsAsSound
<1>4. Insertable(TypeSchema[type], new) <=> Sound(item, type.proto)
  BY <1>1, <1>3, ItemInsertable
<1> QED BY <1>3, <1>4

LEMMA CheckedSubitem ==
  ASSUME type \in Resources, NEW id \in Ids, NEW s \in DOMAIN type.subs,
         NEW body \in Subitems[type.name][id], Kind(body) = "dict",
         NEW x, x = SubitemOf(s, body),
         CheckItem(x, type.subtype[s], type.subs[s]) = 200,
         NEW new, new = InsertSubitem({}, id, s, Data(x))
  PROVE  Insertable(TypeSchema[type], new) <=> Sound(Data(x), type.subs[s])
<1>1. Formed(Data(x), type.subs[s])
  BY GoodSubitem
<1>2. HasStrings(Data(x), type.subs[s])
  BY ValidHasStrings DEF CheckItem, Valid
<1> QED BY <1>1, <1>2, SubitemInsertable

LEMMA PostAccepts ==
  ASSUME type \in Resources, NEW id \in Ids, NEW body \in Items[type.name][id],
         PostItem(id, body)
  PROVE  AcceptsWhatFits'
<1>1. body # NoBody
  BY JsonIsSome, BodiesAssumption
<1>2. PICK basic, filled, check :
        /\ basic = CheckCreate(body) /\ filled = Filled(body)
        /\ check = CheckItem(filled, type.name, type.proto)
  OBVIOUS
<1>3. \/ Refuse("POST", id, body, basic)
      \/ basic = 201 /\ Refuse("POST", id, body, check)
      \/ /\ basic = 201 /\ check = 200
         /\ Insert("POST", id, body, 201, rows,
                   InsertItem(FirstSubitems(id), id, Added(id, filled)),
                   [state |-> "live", item |-> Added(id, filled), subs |-> type.subs,
                    files |-> <<>>])
  BY <1>2 DEF PostItem
<1>4. FitsRequest("POST", id, body) <=>
        basic = 201 /\ check = 200 /\ Sound(Data(filled), type.proto)
  <2>1. PICK fine \in BOOLEAN : fine <=> check = 200 /\ Sound(Data(filled), type.proto)
    OBVIOUS
  <2> QED BY <1>2, <2>1, ItemFitsRequest
<1>5. CASE Refuse("POST", id, body, basic)
  BY <1>1, <1>4, <1>5, Refused
<1>6. CASE basic = 201 /\ Refuse("POST", id, body, check)
  BY <1>1, <1>4, <1>6, Refused
<1>7. CASE /\ basic = 201 /\ check = 200
           /\ Insert("POST", id, body, 201, rows,
                     InsertItem(FirstSubitems(id), id, Added(id, filled)),
                     [state |-> "live", item |-> Added(id, filled), subs |-> type.subs,
                      files |-> <<>>])
  <2>1. PICK item, old, new, record :
          /\ item = Added(id, filled) /\ old = FirstSubitems(id)
          /\ new = InsertItem(old, id, item)
          /\ record = [state |-> "live", item |-> Added(id, filled), subs |-> type.subs,
                       files |-> <<>>]
    OBVIOUS
  <2>2. Insert("POST", id, body, 201, rows, new, record)
    BY <1>7, <2>1
  <2>3. Insertable(TypeSchema[type], old)
    BY <2>1, FirstSubitemsFit
  <2>4. Insertable(TypeSchema[type], new) <=> Sound(Data(filled), type.proto)
    BY <1>2, <1>7, <2>1, <2>3, CheckedItem
  <2>5. FitsRequest("POST", id, body) <=> Insertable(TypeSchema[type], new)
    BY <1>4, <1>7, <2>4
  <2> QED BY <1>1, <2>2, <2>5, Inserted
<1> QED BY <1>3, <1>5, <1>6, <1>7

LEMMA PutItemAccepts ==
  ASSUME type \in Resources, NEW id \in Ids, NEW body \in Items[type.name][id],
         PutItem(id, body)
  PROVE  AcceptsWhatFits'
<1>1. body # NoBody
  BY JsonIsSome, BodiesAssumption
<1>2. PICK basic, filled, check :
        /\ basic = CheckUpdate(id, body) /\ filled = Filled(body)
        /\ check = CheckItem(filled, type.name, type.proto)
  OBVIOUS
<1>3. \/ Refuse("PUT", id, body, basic)
      \/ basic = 200 /\ Refuse("PUT", id, body, check)
      \/ Refuse("PUT", id, body, 409)
      \/ /\ basic = 200 /\ check = 200
         /\ Insert("PUT", id, body, 200, DeleteWalker(rows, Main, type.proto, id),
                   InsertItem({}, id, Added(id, filled)),
                   [stored[id] EXCEPT !.item = Added(id, filled)])
  BY <1>2 DEF PutItem
<1>4. FitsRequest("PUT", id, body) <=>
        basic \in {200, 409} /\ check = 200 /\ Sound(Data(filled), type.proto)
  <2>1. PICK fine \in BOOLEAN : fine <=> check = 200 /\ Sound(Data(filled), type.proto)
    OBVIOUS
  <2> QED BY <1>2, <2>1, ItemFitsRequest
<1>5. CASE Refuse("PUT", id, body, basic)
  BY <1>1, <1>4, <1>5, Refused
<1>6. CASE basic = 200 /\ Refuse("PUT", id, body, check)
  BY <1>1, <1>4, <1>6, Refused
<1>7. CASE Refuse("PUT", id, body, 409)
  BY <1>1, <1>7, Refused
<1>8. CASE /\ basic = 200 /\ check = 200
           /\ Insert("PUT", id, body, 200, DeleteWalker(rows, Main, type.proto, id),
                     InsertItem({}, id, Added(id, filled)),
                     [stored[id] EXCEPT !.item = Added(id, filled)])
  <2>1. PICK item, new, rest, record :
          /\ item = Added(id, filled) /\ new = InsertItem({}, id, item)
          /\ rest = DeleteWalker(rows, Main, type.proto, id)
          /\ record = [stored[id] EXCEPT !.item = Added(id, filled)]
    OBVIOUS
  <2>2. Insert("PUT", id, body, 200, rest, new, record)
    BY <1>8, <2>1
  <2>3. Insertable(TypeSchema[type], {})
    BY NothingInsertable
  <2>4. Insertable(TypeSchema[type], new) <=> Sound(Data(filled), type.proto)
    BY <1>2, <1>8, <2>1, <2>3, CheckedItem
  <2>5. FitsRequest("PUT", id, body) <=> Insertable(TypeSchema[type], new)
    BY <1>4, <1>8, <2>4
  <2> QED BY <1>1, <2>2, <2>5, Inserted
<1> QED BY <1>3, <1>5, <1>6, <1>7, <1>8

LEMMA PutSubitemAccepts ==
  ASSUME type \in Resources, NEW id \in Ids, NEW s \in DOMAIN type.subs,
         NEW body \in Subitems[type.name][id], PutSubitem(id, s, body)
  PROVE  AcceptsWhatFits'
<1>1. body # NoBody
  BY JsonIsSome, BodiesAssumption
<1>2. PICK basic, x, check :
        /\ basic = CheckUpdate(id, body) /\ x = SubitemOf(s, body)
        /\ check = CheckItem(x, type.subtype[s], type.subs[s])
  OBVIOUS
<1>3. PICK rest, new, record :
        /\ rest = DeleteSubitem(UpdateRevision(rows, id), id, s)
        /\ new = InsertSubitem({}, id, s, Data(x))
        /\ record = [stored[id] EXCEPT !.item = Revised(id), !.subs[s] = Data(x)]
  OBVIOUS
<1>4. \/ Refuse(s, id, body, basic)
      \/ Kind(body) # "dict" /\ Refuse(s, id, body, 500)
      \/ Kind(body) = "dict" /\ Refuse(s, id, body, check)
      \/ Refuse(s, id, body, 409)
      \/ /\ Kind(body) = "dict" /\ check = 200
         /\ Insert(s, id, body, 200, rest, new, record)
  BY <1>2, <1>3 DEF PutSubitem
<1>5. /\ Kind(body) # "dict" => ~FitsRequest(s, id, body)
      /\ Kind(body) = "dict" =>
           (FitsRequest(s, id, body) <=> check = 200 /\ Sound(Data(x), type.subs[s]))
      /\ basic \in {400, 500} => ~FitsRequest(s, id, body)
  BY <1>2, SubitemFitsRequest
<1>6. CASE Refuse(s, id, body, basic)
  BY <1>1, <1>5, <1>6, Refused
<1>7. CASE Kind(body) # "dict" /\ Refuse(s, id, body, 500)
  BY <1>1, <1>5, <1>7, Refused
<1>8. CASE Kind(body) = "dict" /\ Refuse(s, id, body, check)
  BY <1>1, <1>5, <1>8, Refused
<1>9. CASE Refuse(s, id, body, 409)
  BY <1>1, <1>9, Refused
<1>10. CASE /\ Kind(body) = "dict" /\ check = 200
            /\ Insert(s, id, body, 200, rest, new, record)
  <2>1. Insertable(TypeSchema[type], new) <=> Sound(Data(x), type.subs[s])
    <3>1. /\ Kind(body) = "dict" /\ x = SubitemOf(s, body)
          /\ CheckItem(x, type.subtype[s], type.subs[s]) = 200
          /\ new = InsertSubitem({}, id, s, Data(x))
      BY <1>2, <1>3, <1>10
    <3> QED BY <3>1, CheckedSubitem
  <2>2. FitsRequest(s, id, body) <=> Insertable(TypeSchema[type], new)
    BY <1>5, <1>10, <2>1
  <2> QED BY <1>1, <1>10, <2>2, Inserted
<1> QED BY <1>4, <1>6, <1>7, <1>8, <1>9, <1>10

LEMMA NoBodyAccepts ==
  ASSUME NEW op, NEW id, NEW status \in {200, 409, 411, 415},
         Answer(op, id, NoBody, status)
  PROVE  AcceptsWhatFits'
<1>1. reply' = [id |-> id, status |-> status, fits |-> status < 400]
  BY DEF Answer
<1>2. reply'.status = status
  BY <1>1
<1>3. status = 200 => reply'.fits
  <2>1. ASSUME status = 200 PROVE (status < 400) = TRUE
    BY <2>1
  <2>2. reply'.fits = (status < 400)
    BY <1>1
  <2> QED BY <2>1, <2>2, Zenon
<1> QED BY <1>2, <1>3 DEF AcceptsWhatFits

\* Every request is answered so.
LEMMA DataNextAccepts ==
  ASSUME type \in Resources, DataNext
  PROVE  AcceptsWhatFits'
<1>1. PICK id \in Ids :
        \/ \E body \in Items[type.name][id] : PostItem(id, body)
        \/ \E body \in Items[type.name][id] : PutItem(id, body)
        \/ \E s \in DOMAIN type.subs, body \in Subitems[type.name][id] :
             PutSubitem(id, s, body)
        \/ \E f \in DOMAIN type.files, content \in Contents[id], r \in Revisions :
             PutFile(id, f, content, r)
        \/ \E f \in DOMAIN type.files : RefuseFile(id, f)
        \/ DeleteItem(id)
  BY DEF DataNext
<1>2. CASE \E body \in Items[type.name][id] : PostItem(id, body)
  BY <1>2, PostAccepts
<1>3. CASE \E body \in Items[type.name][id] : PutItem(id, body)
  BY <1>3, PutItemAccepts
<1>4. CASE \E s \in DOMAIN type.subs, body \in Subitems[type.name][id] : PutSubitem(id, s, body)
  BY <1>4, PutSubitemAccepts
<1>5. CASE \E f \in DOMAIN type.files, content \in Contents[id], r \in Revisions :
             PutFile(id, f, content, r)
  <2>1. PICK f \in DOMAIN type.files, content \in Contents[id], r \in Revisions :
          PutFile(id, f, content, r)
    BY <1>5
  <2>2. Answer(f, id, NoBody, 409) \/ Answer(f, id, NoBody, 200)
    BY <2>1 DEF PutFile, Refuse, Change
  <2> QED BY <2>2, NoBodyAccepts
<1>6. CASE DeleteItem(id)
  <2>1. Answer("DELETE", id, NoBody, 200)
    BY <1>6 DEF DeleteItem, Change
  <2> QED BY <2>1, NoBodyAccepts
<1>7. CASE \E f \in DOMAIN type.files : RefuseFile(id, f)
  <2>1. PICK f \in DOMAIN type.files, status \in {411, 415, 409} : Answer(f, id, NoBody, status)
    BY <1>7 DEF RefuseFile, Refuse
  <2> QED BY <2>1, NoBodyAccepts
<1> QED BY <1>1, <1>2, <1>3, <1>4, <1>5, <1>6, <1>7
=============================================================================
