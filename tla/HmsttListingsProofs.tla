------------------------ MODULE HmsttListingsProofs ------------------------
(***************************************************************************)
(* What the listings show, for any number of requests, types and keys, and *)
(* batches of any length: what was stored at one moment.  A listing reads  *)
(* one hash, as only one type can be stored, and the loop over the keys of *)
(* a batch keeps their order.                                              *)
(***************************************************************************)
EXTENDS HmsttListings, HmsttServiceProofs, FiniteSetTheorems, WellFoundedInduction

(* The loop over the keys of a batch *)

\* Induction up to n, for a set of numbers
LEMMA UpTo ==
    ASSUME NEW n \in Nat, NEW T, 0 \in T,
           \A i \in 0..n : i < n /\ i \in T => i + 1 \in T
    PROVE  0..n \subseteq T
<1> DEFINE Less == OpToRel(<, Nat)
           Rest == (0..n) \ T
<1> SUFFICES ASSUME Rest # {} PROVE FALSE
    OBVIOUS
<1>1. IsWellFoundedOn(Less, Nat)
    BY NatLessThanWellFounded
<1>2. Rest \subseteq Nat
    OBVIOUS
<1>3. PICK x \in Rest : \A y \in Rest : <<y, x>> \notin Less
  <2> HIDE DEF Less, Rest
  <2> QED BY <1>1, <1>2, WFMin
<1>4. \A y \in Rest : ~(y < x)
    BY <1>2, <1>3 DEF OpToRel
<1>5. x \in 0..n /\ x # 0 /\ x \notin T
    OBVIOUS
<1>6. x - 1 \in 0..n /\ x - 1 < n /\ x - 1 < x
    BY <1>5
<1>7. x - 1 \in T
    BY <1>4, <1>6
<1>8. x - 1 + 1 = x
    BY <1>5
<1> QED BY <1>5, <1>6, <1>7, <1>8

\* f holds what the loop over the keys of q has collected after each key.
Loops(f, q, entries) ==
    f = [i \in 0..Len(q.keys) |->
            IF i = 0 THEN << >>
            ELSE IF Named(q, i, entries) = {} THEN f[i - 1]
            ELSE Append(f[i - 1], CHOOSE e \in Named(q, i, entries) : TRUE)]

\* What it has collected after the first i keys follows from those.
LEMMA LoopExists ==
    ASSUME NEW q, NEW entries, Len(q.keys) \in Nat
    PROVE  \E f : Loops(f, q, entries)
<1> DEFINE n == Len(q.keys)
           Next1(i, before) ==
                IF Named(q, i, entries) = {} THEN before
                ELSE Append(before, CHOOSE e \in Named(q, i, entries) : TRUE)
           Partial(g, m) ==
                g = [i \in 0..m |-> IF i = 0 THEN << >> ELSE Next1(i, g[i - 1])]
           Reached == {m \in 0..n : \E g : Partial(g, m)}
<1> HIDE DEF Next1
<1>1. 0 \in Reached
  <2> DEFINE g == [i \in 0..0 |-> << >>]
  <2>1. \A i \in 0..0 : i = 0
    OBVIOUS
  <2>2. Partial(g, 0)
    BY <2>1
  <2>3. 0 \in 0..n
    OBVIOUS
  <2> HIDE DEF g, Partial
  <2> QED BY <2>2, <2>3
<1>2. ASSUME NEW m \in 0..n, m < n, m \in Reached
      PROVE  m + 1 \in Reached
  <2>1. PICK g : Partial(g, m)
    BY <1>2
  <2> DEFINE h == [i \in 0..(m + 1) |-> IF i = m + 1 THEN Next1(i, g[m]) ELSE g[i]]
  <2>2. \A i \in 0..m : h[i] = g[i] /\ i # m + 1 /\ i \in 0..(m + 1)
    OBVIOUS
  <2>3. ASSUME NEW i \in 0..(m + 1)
        PROVE  h[i] = IF i = 0 THEN << >> ELSE Next1(i, h[i - 1])
    <3>1. CASE i = m + 1
      <4>1. i - 1 = m /\ i # 0 /\ m \in 0..m
        BY <3>1
      <4>2. h[i - 1] = g[m]
        BY <2>2, <4>1
      <4> QED BY <3>1, <4>1, <4>2
    <3>2. CASE i = 0
      BY <2>1, <2>2, <3>2
    <3>3. CASE i \in 1..m
      <4>1. i \in 0..m /\ i - 1 \in 0..m /\ i # 0
        BY <3>3
      <4>2. g[i] = Next1(i, g[i - 1])
        BY <2>1, <4>1
      <4> HIDE DEF h
      <4> QED BY <2>2, <4>1, <4>2
    <3> QED BY <3>1, <3>2, <3>3
  <2>4. Partial(h, m + 1)
    BY <2>3
  <2>5. m + 1 \in 0..n
    BY <1>2
  <2> QED BY <2>4, <2>5
<1>3. n \in Reached
  <2> HIDE DEF Reached
  <2>1. 0..n \subseteq Reached
    BY <1>1, <1>2, UpTo
  <2> QED BY <2>1
<1>4. PICK f : Partial(f, n)
    BY <1>3
<1>5. Loops(f, q, entries)
    BY <1>4 DEF Loops, Next1
<1> QED BY <1>5

\* What a batch answers is what the loop has collected after its last key.
LEMMA InOrderLoops ==
    ASSUME NEW q, NEW entries, Len(q.keys) \in Nat
    PROVE  \E f : Loops(f, q, entries) /\ InOrder(q, entries) = f[Len(q.keys)]
<1> DEFINE f == CHOOSE g : Loops(g, q, entries)
<1>1. Loops(f, q, entries)
    BY LoopExists
<1>2. InOrder(q, entries) = f[Len(q.keys)]
    BY DEF InOrder, Loops
<1> QED BY <1>1, <1>2

\* The positions of a batch's keys for which there is an entry
Hit(q, entries) == {i \in 1..Len(q.keys) : Named(q, i, entries) # {}}

\* The hits up to a position can be counted.
LEMMA HitsUpTo ==
    ASSUME NEW n \in Nat, NEW H \in SUBSET (1..n), NEW i \in 0..n
    PROVE  /\ IsFiniteSet(H \cap 1..i)
           /\ Cardinality(H \cap 1..i) \in Nat
<1>1. IsFiniteSet(1..i)
    BY FS_Interval
<1>2. IsFiniteSet(H \cap 1..i)
    BY <1>1, FS_Subset
<1> QED BY <1>2, FS_CardinalityType

\* Up to the next position there is one hit more, if that is one.
LEMMA HitsUpToNext ==
    ASSUME NEW n \in Nat, NEW H \in SUBSET (1..n), NEW i \in 0..n, i < n
    PROVE  /\ i + 1 \in H =>
                Cardinality(H \cap 1..(i + 1)) = Cardinality(H \cap 1..i) + 1
           /\ i + 1 \notin H =>
                Cardinality(H \cap 1..(i + 1)) = Cardinality(H \cap 1..i)
<1>1. ASSUME i + 1 \in H
      PROVE  Cardinality(H \cap 1..(i + 1)) = Cardinality(H \cap 1..i) + 1
  <2>1. H \cap 1..(i + 1) = (H \cap 1..i) \cup {i + 1}
    BY <1>1
  <2>2. i + 1 \notin H \cap 1..i
    OBVIOUS
  <2>3. Cardinality((H \cap 1..i) \cup {i + 1}) = Cardinality(H \cap 1..i) + 1
    BY <2>2, HitsUpTo, FS_AddElement, Zenon
  <2> QED BY <2>1, <2>3
<1>2. ASSUME i + 1 \notin H
      PROVE  Cardinality(H \cap 1..(i + 1)) = Cardinality(H \cap 1..i)
  <2>1. H \cap 1..(i + 1) = H \cap 1..i
    BY <1>2
  <2> QED BY <2>1, Zenon
<1> QED BY <1>1, <1>2

\* r, of members of S, has an entry for each of the hits H up to position i, the
\* entry of a hit at the place that the number of hits up to it says.
Collects(r, i, q, entries, H, S) ==
    /\ r \in Seq(S)
    /\ Len(r) = Cardinality(H \cap 1..i)
    /\ \A p \in H \cap 1..i :
            /\ Cardinality(H \cap 1..p) \in 1..Len(r)
            /\ r[Cardinality(H \cap 1..p)] \in Named(q, p, entries)

\* After i keys the loop has collected the entries of the hits among them.
LEMMA LoopCollects ==
    ASSUME NEW q, NEW entries, NEW S, entries \subseteq S,
           NEW n \in Nat, n = Len(q.keys),
           NEW H, H = Hit(q, entries),
           NEW f, Loops(f, q, entries)
    PROVE  \A i \in 0..n : Collects(f[i], i, q, entries, H, S)
<1> DEFINE Count(k) == Cardinality(H \cap 1..k)
           Good(i) ==
                /\ f[i] \in Seq(S)
                /\ Len(f[i]) = Count(i)
                /\ \A p \in H \cap 1..i :
                        /\ Count(p) \in 1..Len(f[i])
                        /\ f[i][Count(p)] \in Named(q, p, entries)
           T == {i \in 0..n : Good(i)}
<1>1. H \in SUBSET (1..n)
    BY DEF Hit
<1>2. /\ Count(0) = 0
      /\ \A i \in 0..n : Count(i) \in Nat
      /\ \A i \in 0..n : i < n =>
            /\ i + 1 \in H => Count(i + 1) = Count(i) + 1
            /\ i + 1 \notin H => Count(i + 1) = Count(i)
  <2>1. Count(0) = 0
    <3>1. H \cap 1..0 = {}
      OBVIOUS
    <3> QED BY <3>1, FS_EmptySet
  <2>2. \A i \in 0..n : Count(i) \in Nat
    BY <1>1, HitsUpTo
  <2>3. ASSUME NEW i \in 0..n, i < n
        PROVE  /\ i + 1 \in H => Count(i + 1) = Count(i) + 1
               /\ i + 1 \notin H => Count(i + 1) = Count(i)
    BY <1>1, <2>3, HitsUpToNext
  <2> HIDE DEF Count
  <2> QED BY <2>1, <2>2, <2>3
<1>3. /\ f[0] = << >>
      /\ \A i \in 0..n : i < n =>
            f[i + 1] = IF i + 1 \notin H THEN f[i]
                       ELSE Append(f[i], CHOOSE e \in Named(q, i + 1, entries) : TRUE)
  <2>1. f[0] = << >>
    BY DEF Loops
  <2>2. ASSUME NEW i \in 0..n, i < n
        PROVE  f[i + 1] = IF i + 1 \notin H THEN f[i]
                   ELSE Append(f[i], CHOOSE e \in Named(q, i + 1, entries) : TRUE)
    <3>1. i + 1 \in 0..n /\ i + 1 \in 1..n /\ i + 1 # 0 /\ i + 1 - 1 = i
      BY <2>2
    <3>2. i + 1 \notin H <=> Named(q, i + 1, entries) = {}
      BY <3>1 DEF Hit
    <3> DEFINE added(j, before) ==
                Append(before, CHOOSE e \in Named(q, j, entries) : TRUE)
    <3> HIDE DEF added
    <3>3. \A j \in 0..n : f[j] = IF j = 0 THEN << >>
                                 ELSE IF Named(q, j, entries) = {} THEN f[j - 1]
                                 ELSE added(j, f[j - 1])
      BY DEF Loops, added
    <3>4. f[i + 1] = IF i + 1 \notin H THEN f[i] ELSE added(i + 1, f[i])
      BY <3>1, <3>2, <3>3
    <3> QED BY <3>4 DEF added
  <2> QED BY <2>1, <2>2
<1>4. 0 \in T
  <2>1. H \cap 1..0 = {}
    OBVIOUS
  <2>2. Good(0)
    <3> QED BY <1>2, <1>3, <2>1
  <2> QED BY <2>2
<1>5. ASSUME NEW i \in 0..n, i < n, i \in T
      PROVE  i + 1 \in T
  <2>0. i + 1 \in 1..n /\ i + 1 \in 0..n /\ Good(i) /\ Count(i) \in Nat
    <3>1. i + 1 \in 1..n /\ i + 1 \in 0..n
      BY <1>5
    <3> HIDE DEF Good, Count
    <3> QED BY <1>2, <1>5, <3>1
  <2>1. CASE i + 1 \notin H
    <3>1. H \cap 1..(i + 1) = H \cap 1..i
      BY <2>1
    <3>2. f[i + 1] = f[i] /\ Count(i + 1) = Count(i)
      <4>1. Count(i) \in Nat
        BY <2>0
      <4> HIDE DEF Count, Good
      <4>2. f[i + 1] = f[i]
        BY <1>3, <1>5, <2>1
      <4>3. Count(i + 1) = Count(i)
        BY <1>2, <1>5, <2>1
      <4> QED BY <4>1, <4>2, <4>3
    <3>3. Good(i + 1)
      BY <2>0, <3>1, <3>2
    <3> QED BY <2>0, <3>3
  <2>2. CASE i + 1 \in H
    <3> DEFINE e == CHOOSE x \in Named(q, i + 1, entries) : TRUE
    <3>1. e \in Named(q, i + 1, entries) /\ e \in S
      BY <2>2 DEF Hit, Named
    <3>2. f[i + 1] = Append(f[i], e) /\ Count(i + 1) = Count(i) + 1
      <4> QED BY <1>2, <1>3, <1>5, <2>2
    <3> HIDE DEF e
    <3>3. /\ f[i + 1] \in Seq(S)
          /\ Len(f[i + 1]) = Count(i) + 1
          /\ f[i + 1][Count(i) + 1] = e
          /\ \A j \in 1..Count(i) : f[i + 1][j] = f[i][j]
      <4> HIDE DEF Count
      <4> QED BY <2>0, <3>1, <3>2
    <3>4. ASSUME NEW p \in H \cap 1..(i + 1)
          PROVE  /\ Count(p) \in 1..Len(f[i + 1])
                 /\ f[i + 1][Count(p)] \in Named(q, p, entries)
      <4>1. CASE p = i + 1
        <5> HIDE DEF Count
        <5> QED BY <2>0, <3>1, <3>2, <3>3, <4>1
      <4>2. CASE p \in H \cap 1..i
        <5>1. Count(p) \in 1..Count(i) /\ f[i][Count(p)] \in Named(q, p, entries)
          BY <2>0, <4>2
        <5> HIDE DEF Count
        <5> QED BY <2>0, <3>3, <5>1
      <4> QED BY <2>0, <4>1, <4>2
    <3>5. Good(i + 1)
      <4> HIDE DEF Count
      <4> QED BY <3>2, <3>3, <3>4
    <3> QED BY <2>0, <3>5
  <2> QED BY <2>1, <2>2
<1>6. 0..n \subseteq T
  <2> HIDE DEF T
  <2> QED BY <1>4, <1>5, UpTo
<1> QED BY <1>6 DEF Collects
-----------------------------------------------------------------------------
(* One answer *)

\* What a listing may ask for, by kind
LEMMA QueryFields ==
    ASSUME NEW q \in Query
    PROVE  /\ q.kind \in {"all", "type", "tool", "batch"}
           /\ q.kind # "all" => q.type \in Types
           /\ Len(q.keys) \in Nat /\ DOMAIN q.keys = 1..Len(q.keys)
           /\ q.kind = "batch" => \A i \in 1..Len(q.keys) : q.keys[i] \in Keys
<1>1. CASE q.kind = "batch"
  <2>1. /\ q.type \in Types
        /\ q.keys \in UNION {[1..n -> Keys] : n \in 0..BatchLength}
    BY <1>1 DEF Query
  <2>2. PICK n \in 0..BatchLength : q.keys \in [1..n -> Keys]
    BY <2>1
  <2>3. n \in Nat
    BY BatchAssumption
  <2>4. q.keys \in Seq(Keys) /\ Len(q.keys) = n
    BY <2>2, <2>3
  <2> QED BY <1>1, <2>1, <2>2, <2>3, <2>4
<1>2. CASE q.kind # "batch"
  <2>1. q.keys = << >>
    BY <1>2 DEF Query
  <2> QED BY <1>2, <2>1 DEF Query
<1> QED BY <1>1, <1>2

\* A hash has one entry for each of its keys that is stored.
LEMMA HashEntries ==
    ASSUME store \in Stores, NEW t \in Types
    PROVE  /\ HGetAll(t) \subseteq Found
           /\ \A k \in Keys :
                {e \in HGetAll(t) : e.slot = <<t, k>>} =
                    IF store[<<t, k>>] = NoEntry THEN {}
                    ELSE {[slot |-> <<t, k>>, entry |-> store[<<t, k>>]]}
<1>1. \A k \in Keys : <<t, k>> \in Slots
    BY DEF Slots
<1>2. \A s \in Slots : store[s] # NoEntry => store[s] \in Entry
    BY DEF Stores
<1>3. HGetAll(t) \subseteq Found
    BY <1>2 DEF HGetAll, Found
<1>4. ASSUME NEW k \in Keys
      PROVE  {e \in HGetAll(t) : e.slot = <<t, k>>} =
                IF store[<<t, k>>] = NoEntry THEN {}
                ELSE {[slot |-> <<t, k>>, entry |-> store[<<t, k>>]]}
  <2> DEFINE s == <<t, k>>
  <2>1. s \in Slots /\ s[1] = t
    BY <1>1
  <2> HIDE DEF s
  <2>2. {e \in HGetAll(t) : e.slot = s} =
            IF store[s] = NoEntry THEN {} ELSE {[slot |-> s, entry |-> store[s]]}
    BY <2>1 DEF HGetAll
  <2> QED BY <2>2 DEF s
<1> QED BY <1>3, <1>4

\* The answer to a batch shows the hash it is picked from.
LEMMA BatchShows ==
    ASSUME store \in Stores, NEW q \in Query, q.kind = "batch"
    PROVE  LET list == InOrder(q, HGetAll(q.type)) IN
           /\ list \in Seq(Found)
           /\ Len(list) = Cardinality(Hits(q))
           /\ \A i \in Hits(q) :
                    list[Cardinality(Hits(q) \cap 1..i)]
                        = [slot |-> <<q.type, q.keys[i]>>,
                           entry |-> store[<<q.type, q.keys[i]>>]]
<1> DEFINE entries == HGetAll(q.type)
           n == Len(q.keys)
           list == InOrder(q, entries)
<1>1. /\ q.type \in Types
      /\ n \in Nat /\ DOMAIN q.keys = 1..n
      /\ \A i \in 1..n : q.keys[i] \in Keys
    BY QueryFields
<1>2. entries \subseteq Found
    BY <1>1, HashEntries
<1>3. \A i \in 1..n :
        Named(q, i, entries) =
            IF store[<<q.type, q.keys[i]>>] = NoEntry THEN {}
            ELSE {[slot |-> <<q.type, q.keys[i]>>,
                   entry |-> store[<<q.type, q.keys[i]>>]]}
    BY <1>1, HashEntries DEF Named
<1>4. Hit(q, entries) = Hits(q)
  <2> HIDE DEF entries
  <2> QED BY <1>1, <1>3 DEF Hit, Hits
<1> HIDE DEF entries
<1>5. PICK f : Loops(f, q, entries) /\ list = f[n]
    BY <1>1, InOrderLoops
<1> HIDE DEF list
<1>6. \A i \in 0..n : Collects(f[i], i, q, entries, Hits(q), Found)
  <2> HIDE DEF n
  <2> QED BY <1>1, <1>2, <1>4, <1>5, LoopCollects DEF n
<1>7. n \in 0..n /\ Hits(q) \cap 1..n = Hits(q) /\ Hits(q) \subseteq 1..n
    BY <1>1 DEF Hits
<1>8. /\ list \in Seq(Found)
      /\ Len(list) = Cardinality(Hits(q))
      /\ \A p \in Hits(q) :
            list[Cardinality(Hits(q) \cap 1..p)] \in Named(q, p, entries)
    BY <1>5, <1>6, <1>7 DEF Collects
<1>9. ASSUME NEW p \in Hits(q)
      PROVE  list[Cardinality(Hits(q) \cap 1..p)]
                = [slot |-> <<q.type, q.keys[p]>>,
                   entry |-> store[<<q.type, q.keys[p]>>]]
  <2>1. p \in 1..n /\ store[<<q.type, q.keys[p]>>] # NoEntry
    BY <1>7 DEF Hits
  <2> QED BY <1>3, <1>8, <2>1
<1> QED BY <1>8, <1>9 DEF list, entries
-----------------------------------------------------------------------------
(* All listings *)

\* The one hash a listing reads: that of the type it was asked for, or, of a
\* listing of all states, that of the only type which can be stored
Hash(q) == IF q.kind = "all" THEN PREFIX_SWITCH ELSE q.type

\* A listing that reads has one hash to read, and nothing is ever put aside for
\* the next one; and only a listing of all states asks for the hashes there are.
ReadsOneHash ==
    /\ found = {}
    /\ lpc = "keys" => asked.kind = "all"
    /\ lpc = "read" => toRead = {Hash(asked)}

ListingInv == LegalInv /\ ListingTypeOK /\ ReadsOneHash

\* Everything that is stored is in the hash of one type.
LEMMA OneHash ==
    ASSUME LegalInv
    PROVE  /\ Stored \subseteq {PREFIX_SWITCH}
           /\ UNION {HGetAll(t) : t \in Types} =
                IF Stored = {} THEN {} ELSE HGetAll(PREFIX_SWITCH)
<1>1. \A s \in Slots : store[s] # NoEntry => s[1] = PREFIX_SWITCH
    BY DEF LegalInv, StoreWellFormed, WellFormed, Legal
<1>2. Stored \subseteq {PREFIX_SWITCH}
  <2> SUFFICES ASSUME NEW t \in Stored PROVE t = PREFIX_SWITCH
    OBVIOUS
  <2>1. PICK k \in Keys : t \in Types /\ store[<<t, k>>] # NoEntry
    BY DEF Stored
  <2>2. <<t, k>> \in Slots /\ <<t, k>>[1] = t
    BY <2>1 DEF Slots
  <2> QED BY <1>1, <2>1, <2>2
<1>3. ASSUME NEW t \in Types
      PROVE  /\ t # PREFIX_SWITCH => HGetAll(t) = {}
             /\ t \notin Stored => HGetAll(t) = {}
    BY <1>1 DEF HGetAll, Stored, Slots
<1>4. Stored # {} => PREFIX_SWITCH \in Types
    BY <1>2 DEF Stored
<1> QED BY <1>2, <1>3, <1>4

\* The read that answers shows what is stored.
LEMMA ReadShows ==
    ASSUME ListingInv, lpc = "read", ReadType
    PROVE  /\ lpc' = "done" /\ UNCHANGED asked
           /\ answer' \in Answers
           /\ ShowsStore(asked, answer')
<1>1. found = {} /\ toRead = {Hash(asked)} /\ asked \in Query
    BY DEF ListingInv, ReadsOneHash, ListingTypeOK
<1>2. Hash(asked) \in Types /\ store \in Stores
    BY <1>1 DEF ListingInv, ListingTypeOK, LegalInv, TypeOK
<1> DEFINE entries == HGetAll(Hash(asked))
<1>3. entries \subseteq Found
    BY <1>2, HashEntries
<1>4. CASE asked.kind = "batch"
  <2>1. Hash(asked) = asked.type
    BY <1>4 DEF Hash
  <2>2. Finish("ok", {}, InOrder(asked, entries))
    BY <1>1, <1>4 DEF ReadType
  <2>3. /\ lpc' = "done" /\ UNCHANGED asked
        /\ answer' = [result |-> "ok", entries |-> {},
                      list |-> InOrder(asked, entries)]
    BY <1>4, <2>2 DEF Finish, Answered
  <2>4. InOrder(asked, entries) \in Seq(Found)
    BY <1>1, <1>2, <1>4, <2>1, BatchShows
  <2>5. ShowsStore(asked, answer')
    BY <1>1, <1>2, <1>4, <2>1, <2>3, BatchShows DEF ShowsStore
  <2> QED BY <2>3, <2>4, <2>5 DEF Answers
<1>5. CASE asked.kind # "batch"
  <2>1. Finish("ok", entries, << >>)
    BY <1>1, <1>5 DEF ReadType
  <2>2. PICK result \in {"ok", "empty"} :
            /\ lpc' = "done" /\ UNCHANGED asked
            /\ answer' = [result |-> result, entries |-> entries, list |-> << >>]
    BY <2>1 DEF Finish, Answered
  <2>3. entries = UNION {HGetAll(t) :
                         t \in IF asked.kind = "all" THEN Types ELSE {asked.type}}
    <3>1. CASE asked.kind = "all"
      <4>1. Hash(asked) = PREFIX_SWITCH
        BY <3>1 DEF Hash
      <4>2. Stored = {} => HGetAll(PREFIX_SWITCH) = {}
        BY DEF Stored, HGetAll, Slots
      <4> QED BY <3>1, <4>1, <4>2, OneHash DEF ListingInv
    <3>2. CASE asked.kind # "all"
      BY <3>2 DEF Hash
    <3> QED BY <3>1, <3>2
  <2>4. ShowsStore(asked, answer')
    BY <1>5, <2>2, <2>3 DEF ShowsStore
  <2>5. << >> \in Seq(Found)
    OBVIOUS
  <2> QED BY <1>3, <2>2, <2>4, <2>5 DEF Answers
<1> QED BY <1>4, <1>5

\* Where KEYS names no hash, nothing is stored, and the empty answer shows it.
LEMMA NothingShows ==
    ASSUME ListingInv, lpc = "keys", asked.kind = "all", Stored = {},
           Finish("ok", {}, << >>)
    PROVE  ShowsStore(asked, answer')
<1>1. answer'.entries = {}
    BY DEF Finish, Answered
<1>2. UNION {HGetAll(t) : t \in Types} = {}
    BY OneHash DEF ListingInv, Stored
<1> QED BY <1>1, <1>2 DEF ShowsStore

\* Steps of the listing leave the service alone, and those of the service the
\* listing, which only a restart ends.
LEMMA ListingFrame == [ListingNext]_allVars => [Next]_vars
    BY DEF ListingNext, allVars, Next

\* What a listing asks for is what it reads.
LEMMA AskKeeps ==
    ASSUME ListingTypeOK, ReadsOneHash, Ask
    PROVE  ListingTypeOK' /\ ReadsOneHash'
<1>1. PICK q \in Query :
        /\ asked' = q
        /\ \/ q.kind = "all" /\ lpc' = "keys" /\ toRead' = toRead
           \/ /\ q.kind \in {"type", "tool", "batch"}
              /\ lpc' = "read" /\ toRead' = {q.type}
           \/ /\ lpc' = "done" /\ toRead' = toRead
              /\ answer' = Answered(q, "nokeys", {}, << >>)
    BY DEF Ask
<1>2. found' = {}
    BY DEF Ask, ReadsOneHash
<1>3. Answered(q, "nokeys", {}, << >>) \in Answers
    BY DEF Answered, Answers
<1>4. q.kind # "all" => q.type \in Types
    BY QueryFields
<1>5. ListingTypeOK'
    BY <1>1, <1>2, <1>3, <1>4 DEF ListingTypeOK
<1>6. ReadsOneHash'
    BY <1>1, <1>2 DEF ReadsOneHash, Hash
<1> QED BY <1>5, <1>6

\* A listing that has its answer keeps nothing else.
LEMMA FinishKeeps ==
    ASSUME ListingTypeOK, lpc # "idle", lpc' = "done", UNCHANGED asked,
           toRead' = {}, found' = {}, answer' \in Answers
    PROVE  ListingTypeOK' /\ ReadsOneHash'
    BY DEF ListingTypeOK, ReadsOneHash

\* Every step of a listing, and every one beside it, keeps to one hash.
LEMMA ListingNextKeeps == ListingInv /\ [ListingNext]_allVars => ListingInv'
<1> SUFFICES ASSUME ListingInv, [ListingNext]_allVars PROVE ListingInv'
    OBVIOUS
<1>0. LegalInv'
    BY ListingFrame, LegalNext DEF ListingInv
<1> SUFFICES ListingTypeOK' /\ ReadsOneHash'
    BY <1>0 DEF ListingInv
<1> USE DEF ListingInv
<1>1. CASE UNCHANGED listing
    BY <1>1 DEF listing, ListingTypeOK, ReadsOneHash
<1>2. CASE Reset
    BY <1>2 DEF Reset, ListingTypeOK, ReadsOneHash
<1>3. CASE Ask
    BY <1>3, AskKeeps
<1>4. CASE ReadKeys
  <2>1. CASE Stored = {}
    <3>1. Answered(asked, "ok", {}, << >>) \in Answers
      BY DEF Answered, Answers
    <3> QED BY <1>4, <2>1, <3>1, FinishKeeps DEF ReadKeys, Finish
  <2>2. CASE Stored # {}
    <3>1. Stored = {PREFIX_SWITCH} /\ Stored \subseteq Types
      BY <2>2, OneHash DEF Stored
    <3>2. lpc' = "read" /\ toRead' = Stored /\ UNCHANGED <<asked, found, answer>>
      BY <1>4, <2>2 DEF ReadKeys
    <3>3. asked.kind = "all" /\ lpc = "keys"
      BY <1>4 DEF ReadKeys, ReadsOneHash
    <3> QED BY <3>1, <3>2, <3>3 DEF ListingTypeOK, ReadsOneHash, Hash
  <2> QED BY <2>1, <2>2
<1>5. CASE ReadType
  <2>1. lpc = "read"
    BY <1>5 DEF ReadType
  <2>2. \E result, entries, list : Finish(result, entries, list)
    BY <1>5, <2>1 DEF ReadType, ReadsOneHash
  <2>3. toRead' = {} /\ found' = {}
    BY <2>2 DEF Finish
  <2> QED BY <1>5, <2>1, <2>3, ReadShows, FinishKeeps
<1>6. CASE ReadFails
  <2>1. Answered(asked, "failed", {}, << >>) \in Answers
    BY DEF Answered, Answers
  <2> QED BY <1>6, <2>1, FinishKeeps DEF ReadFails, Finish
<1> QED BY <1>1, <1>2, <1>3, <1>4, <1>5, <1>6
        DEF ListingNext, List, Taken, allVars

\* It holds when the process starts.
LEMMA ListingStarts == ListingInit => ListingInv
<1> SUFFICES ASSUME ListingInit PROVE ListingInv
    OBVIOUS
<1>1. LegalInv
    BY TypeInit DEF ListingInit, Init, LegalInv, StoreWellFormed, WritesLegal
<1>2. ListingTypeOK /\ ReadsOneHash
    BY DEF ListingInit, ListingTypeOK, ReadsOneHash
<1> QED BY <1>1, <1>2 DEF ListingInv

\* The listing's state is of its types: a request that still reads has something
\* to read, and an answer names states and their entries.
THEOREM ListingTypeCorrect == ListingSpec => []ListingTypeOK
<1>1. ListingInv => ListingTypeOK
    BY DEF ListingInv
<1> QED BY <1>1, ListingStarts, ListingNextKeeps, PTL DEF ListingSpec

\* Beside listings the service is what it is without them: all that is proved
\* of it holds here as well.
THEOREM ListingsDisturbNothing == ListingSpec => Spec
<1>1. ListingInit => Init
    BY DEF ListingInit
<1> QED BY <1>1, ListingFrame, PTL DEF ListingSpec, Spec

\* What a listing answers is what is stored at the moment of its last read,
\* though others write between its reads: a batch has an entry for each of its
\* keys that is there, in their order, and any other listing all there is.
THEOREM ListingsAlwaysShowOneMoment == ListingSpec => ListingsShowOneMoment
<1> DEFINE Answers1 == lpc \in {"keys", "read"} /\ lpc' = "done"
                       /\ answer'.result # "failed"
<1>1. ASSUME ListingInv, [ListingNext]_allVars, Answers1
      PROVE  ShowsStore(asked, answer')
  <2>1. CASE ReadKeys
    <3>1. lpc = "keys" /\ asked.kind = "all" /\ Stored = {} /\ Finish("ok", {}, << >>)
      BY <1>1, <2>1 DEF ReadKeys, ListingInv, ReadsOneHash
    <3> QED BY <1>1, <3>1, NothingShows
  <2>2. CASE ReadType
    BY <1>1, <2>2, ReadShows DEF ReadType
  <2>3. CASE ReadFails
    BY <1>1, <2>3 DEF ReadFails, Finish, Answered
  <2>4. ~(UNCHANGED listing) /\ ~Reset /\ ~Ask
    BY <1>1 DEF listing, Reset, Ask
  <2> QED BY <1>1, <2>1, <2>2, <2>3, <2>4 DEF ListingNext, List, Taken, allVars
<1>2. ListingInv /\ [ListingNext]_allVars
        => [Answers1 => ShowsStore(asked, answer')]_allVars
    BY <1>1
<1> QED BY <1>2, ListingStarts, ListingNextKeeps, PTL
        DEF ListingSpec, ListingsShowOneMoment
=============================================================================
