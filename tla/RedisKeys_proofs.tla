------------------------- MODULE RedisKeys_proofs --------------------------
(***************************************************************************)
(* Proofs about RedisKeys, for any keys and slots, any number of requests  *)
(* and of fetch_infos, whatever they want, and any batch_size.             *)
(***************************************************************************)
EXTENDS RedisKeys, FiniteSetTheorems, WellFoundedInduction, TLAPS

(***************************************************************************)
(* The inductive invariant.  StagesInv says which requests have batches    *)
(* and answers; SplitInv what make_up_fetch_info_vec has made of the       *)
(* fetch_infos it has passed; BatchesInv and ItemsInv what a batch and an  *)
(* answer are; PlacesInv that an undisturbed request finds the keys of its *)
(* batches where it left them; DueInv where the keys it wants are.         *)
(***************************************************************************)
OneSlot(ks) == \A j, k \in ToSet(ks) : SlotOf[j] = SlotOf[k]

DomainsInv ==
  /\ DOMAIN hits = Request /\ DOMAIN parsed = Request
  /\ DOMAIN batches = Request /\ DOMAIN items = Request

StagesInv ==
  /\ \A q, r \in Request : stage[q] = "make_up" /\ stage[r] = "make_up" => q = r
  /\ \A r \in Request : stage[r] # "sent" => batches[r] = {}
  /\ \A r \in Request : stage[r] \notin {"sent", "merge"} => items[r] = {}

ConfiguredInv ==
  \A c \in DOMAIN Configured : c \in DOMAIN fetch_info_vec /\ fetch_info_vec[c].conf = c

SplitInv ==
  (\E r \in Request : stage[r] = "make_up") =>
    /\ \A f \in 1..(position - 1) : Conf(f).client => OneSlot(fetch_info_vec[f].keys)
    /\ \A i \in DOMAIN added : Configured[added[i].conf].client => OneSlot(added[i].keys)

BatchesInv ==
  \A r \in Request : \A b \in batches[r] : b.keys # <<>> /\ OneSlot(b.keys)

ItemsInv ==
  \A r \in Request : \A b \in items[r] :
    /\ b.values \in [DOMAIN b.keys -> Key \cup {Other}]
    /\ ~enable_multi_get => b.values = b.keys

\* The keys of batch b are where they were when it was made.
InPlace(b) ==
  \A i \in DOMAIN b.keys :
    /\ b.start + i \in DOMAIN fetch_info_vec[b.info].keys
    /\ fetch_info_vec[b.info].keys[b.start + i] = b.keys[i]

PlacesInv ==
  \A r \in Request \ disturbed : \A b \in batches[r] \cup items[r] : InPlace(b)

\* make_up_fetch_info_vec has not reached the fetch_info that asks for k, or
\* has put k into one it is done with.
ToBeSent(c, k) ==
  \/ c >= position
  \/ \E f \in 1..(position - 1) : Conf(f).client /\ k \in ToSet(fetch_info_vec[f].keys)
  \/ \E i \in DOMAIN added : Configured[added[i].conf].client /\ k \in ToSet(added[i].keys)

\* Key k, which request r wants by fetch_info c, has not been lost.
Due(r, c, k) ==
  \/ stage[r] = "new"
  \/ stage[r] = "make_up" /\ ToBeSent(c, k)
  \/ \E b \in batches[r] : k \in ToSet(b.keys)
  \/ \E p \in hits[r] \cup parsed[r] : p[1] = k

DueInv ==
  \A r \in Request \ (failed \cup disturbed) : \A c \in DOMAIN Configured :
    Configured[c].client => \A k \in ToSet(wanted[r][c]) : Due(r, c, k)

KeysInv ==
  /\ TypeOK /\ DomainsInv /\ StagesInv /\ ConfiguredInv /\ SplitInv /\ BatchesInv
  /\ ItemsInv /\ PlacesInv /\ DueInv /\ UndisturbedIsTrue /\ StuckOnlyIfDisturbed
-----------------------------------------------------------------------------
(***************************************************************************)
(* A non-empty set of naturals has a least member, and one that is bounded *)
(* a greatest.                                                             *)
(***************************************************************************)
LEMMA HasLeast ==
  ASSUME NEW T \in SUBSET Nat, T # {}
  PROVE  \E m \in T : \A k \in T : m <= k
<1> DEFINE R == OpToRel(<, Nat)
<1>1. IsWellFoundedOn(R, Nat)
  BY NatLessThanWellFounded
<1>2. PICK m \in T : \A k \in T : ~(<<k, m>> \in R)
  <2> HIDE DEF R
  <2> QED BY <1>1, WFMin
<1>3. \A k \in T : ~(k < m)
  <2> TAKE k \in T
  <2>1. k < m => <<k, m>> \in R
    BY DEF OpToRel
  <2> QED BY <2>1, <1>2
<1>4. \A k \in T : k \in Int /\ m \in Int
  OBVIOUS
<1>5. \A k \in T : m <= k
  <2> TAKE k \in T
  <2>1. k \in Int /\ m \in Int /\ ~(k < m)
    BY <1>3, <1>4
  <2> QED BY <2>1
<1> QED BY <1>5

LEMMA HasGreatest ==
  ASSUME NEW n \in Nat, NEW T \in SUBSET (1..n), T # {}
  PROVE  \E m \in T : \A k \in T : k <= m
<1>1. {n - k : k \in T} \in SUBSET Nat /\ {n - k : k \in T} # {}
  <2>1. \A k \in T : n - k \in Nat
    OBVIOUS
  <2> QED BY <2>1, Zenon
<1>2. PICK d \in {n - k : k \in T} : \A e \in {n - k : k \in T} : d <= e
  BY <1>1, HasLeast
<1>3. PICK m \in T : d = n - m
  BY Zenon
<1>4. \A k \in T : n - m <= n - k
  BY <1>2, <1>3, Zenon
<1>5. \A k \in T : k \in Int /\ m \in Int
  OBVIOUS
<1> QED BY <1>4, <1>5

(***************************************************************************)
(* The places of a sequence can be enumerated in their order: what Keep    *)
(* chooses.  A smallest set that could not be would lose its greatest      *)
(* member and be enumerable then.                                          *)
(***************************************************************************)
Increasing(o) == \A i, j \in DOMAIN o : i < j => o[i] < o[j]

LEMMA EnumerateOneMore ==
  ASSUME NEW n \in Nat, NEW I \in SUBSET (1..n), I # {},
         \A J \in SUBSET (1..n) : Cardinality(J) < Cardinality(I) =>
           \E o \in [1..Cardinality(J) -> J] : Increasing(o)
  PROVE  \E o \in [1..Cardinality(I) -> I] : Increasing(o)
<1>1. PICK g \in I : \A k \in I : k <= g
  BY HasGreatest
<1>2. IsFiniteSet(1..n)
  BY FS_Interval
<1>3. IsFiniteSet(I)
  BY <1>2, FS_Subset
<1>4. Cardinality(I) \in Nat /\ Cardinality(I \ {g}) = Cardinality(I) - 1
  BY <1>3, FS_CardinalityType, FS_RemoveElement
<1>5. PICK m \in Nat : m = Cardinality(I)
  BY <1>4
<1>6. PICK o \in [1..(m - 1) -> I \ {g}] : Increasing(o)
  <2>1. I \ {g} \in SUBSET (1..n)
    OBVIOUS
  <2>2. Cardinality(I \ {g}) < Cardinality(I)
    BY <1>4
  <2> QED BY <1>4, <1>5, <2>1, <2>2
<1> DEFINE p == [i \in 1..m |-> IF i = m THEN g ELSE o[i]]
<1>7. p \in [1..m -> I]
  <2> SUFFICES ASSUME NEW i \in 1..m, i # m PROVE o[i] \in I
    BY <1>1
  <2>1. i \in 1..(m - 1)
    BY <1>5
  <2> QED BY <1>6, <2>1
<1>8. Increasing(p)
  <2> SUFFICES ASSUME NEW i \in 1..m, NEW j \in 1..m, i < j PROVE p[i] < p[j]
    BY DEF Increasing
  <2>1. i \in 1..(m - 1) /\ o[i] \in I \ {g}
    BY <1>5, <1>6
  <2>2. p[i] = o[i]
    BY <1>5, <2>1
  <2>3. CASE j = m
    <3>1. o[i] <= g /\ o[i] # g
      BY <1>1, <2>1
    <3>2. \A x \in I : x \in Int
      OBVIOUS
    <3>3. o[i] \in Int /\ g \in Int
      BY <2>1, <3>2, Zenon
    <3>4. p[j] = g
      BY <2>3
    <3> QED BY <2>2, <3>1, <3>3, <3>4
  <2>4. CASE j # m
    <3>1. j \in 1..(m - 1) /\ p[j] = o[j]
      BY <1>5, <2>4
    <3> QED BY <1>6, <2>1, <2>2, <3>1 DEF Increasing
  <2> QED BY <2>3, <2>4
<1> HIDE DEF p
<1> QED BY <1>5, <1>7, <1>8

LEMMA EnumerationExists ==
  ASSUME NEW n \in Nat, NEW I \in SUBSET (1..n)
  PROVE  \E o \in [1..Cardinality(I) -> I] : Increasing(o)
<1> DEFINE Enumerable(J) == \E o \in [1..Cardinality(J) -> J] : Increasing(o)
           Bad == {J \in SUBSET (1..n) : ~Enumerable(J)}
           Sizes == {Cardinality(J) : J \in Bad}
<1>1. \A J \in SUBSET (1..n) : Cardinality(J) \in Nat
  <2> TAKE J \in SUBSET (1..n)
  <2>1. IsFiniteSet(1..n)
    BY FS_Interval
  <2>2. IsFiniteSet(J)
    BY <2>1, FS_Subset
  <2> QED BY <2>2, FS_CardinalityType
<1>2. Enumerable({})
  <2>1. Cardinality({}) = 0
    BY FS_EmptySet
  <2> DEFINE o == [i \in 1..0 |-> 0]
  <2>2. o \in [1..0 -> {}] /\ Increasing(o)
    BY DEF Increasing
  <2> HIDE DEF o
  <2> QED BY <2>1, <2>2
<1>3. SUFFICES ASSUME Bad # {} PROVE FALSE
  OBVIOUS
<1> HIDE DEF Enumerable
<1>4. Sizes \in SUBSET Nat /\ Sizes # {}
  BY <1>1, <1>3
<1>5. PICK m \in Sizes : \A k \in Sizes : m <= k
  BY <1>4, HasLeast
<1>6. PICK J \in Bad : m = Cardinality(J)
  OBVIOUS
<1>7. J # {}
  BY <1>2
<1>8. \A K \in SUBSET (1..n) : Cardinality(K) < Cardinality(J) => Enumerable(K)
  <2> SUFFICES ASSUME NEW K \in SUBSET (1..n), Cardinality(K) < Cardinality(J),
                      ~Enumerable(K)
               PROVE  FALSE
    OBVIOUS
  <2>1. Cardinality(K) \in Sizes
    OBVIOUS
  <2>2. m <= Cardinality(K)
    BY <1>5, <2>1
  <2>3. Cardinality(K) \in Nat /\ m \in Nat
    BY <1>1, <1>4
  <2> QED BY <1>6, <2>2, <2>3
<1>9. Enumerable(J)
  BY <1>7, <1>8, EnumerateOneMore DEF Enumerable
<1> QED BY <1>6, <1>9

LEMMA IncreasingCovers ==
  ASSUME NEW n \in Nat, NEW I \in SUBSET (1..n),
         NEW o \in [1..Cardinality(I) -> I], Increasing(o)
  PROVE  \A x \in I : \E i \in 1..Cardinality(I) : o[i] = x
<1>1. IsFiniteSet(1..n)
  BY FS_Interval
<1>2. IsFiniteSet(I)
  BY <1>1, FS_Subset
<1>3. Cardinality(I) \in Nat
  BY <1>2, FS_CardinalityType
<1>4. PICK m \in Nat : m = Cardinality(I)
  BY <1>3
<1>5. \A i, j \in 1..m : i # j => o[i] # o[j]
  <2> SUFFICES ASSUME NEW i \in 1..m, NEW j \in 1..m, i # j PROVE o[i] # o[j]
    OBVIOUS
  <2>0. \A x \in I : x \in Int
    OBVIOUS
  <2>1. o[i] \in Int /\ o[j] \in Int
    BY <1>4, <2>0, Zenon
  <2>2. i < j \/ j < i
    OBVIOUS
  <2>3. o[i] < o[j] \/ o[j] < o[i]
    BY <1>4, <2>2 DEF Increasing
  <2> QED BY <2>1, <2>3
<1>6. o \in Injection(1..m, I)
  BY <1>4, <1>5 DEF Injection, IsInjective
<1>7. Cardinality(1..m) = m
  BY FS_Interval
<1>8. o \in Surjection(1..m, I)
  BY <1>2, <1>4, <1>6, <1>7, FS_Injection
<1> QED BY <1>4, <1>8 DEF Surjection

(***************************************************************************)
(* Keep keeps the keys that are in S, and no others.                       *)
(***************************************************************************)
LEMMA KeepKeeps ==
  ASSUME NEW ks \in Seq(Key), NEW S
  PROVE  Keep(ks, S) \in Seq(Key) /\ ToSet(Keep(ks, S)) = ToSet(ks) \cap S
<1> DEFINE places == {i \in DOMAIN ks : ks[i] \in S}
           IsOrder(o) == \A i, j \in DOMAIN o : i < j => o[i] < o[j]
           order == CHOOSE o \in [1..Cardinality(places) -> places] : IsOrder(o)
<1>1. Len(ks) \in Nat /\ DOMAIN ks = 1..Len(ks) /\ places \in SUBSET (1..Len(ks))
  OBVIOUS
<1>2. Keep(ks, S) = [i \in 1..Cardinality(places) |-> ks[order[i]]]
  BY DEF Keep
<1>3. \E o \in [1..Cardinality(places) -> places] : IsOrder(o)
  <2> HIDE DEF places
  <2>1. PICK o \in [1..Cardinality(places) -> places] : Increasing(o)
    BY <1>1, EnumerationExists
  <2> QED BY <2>1 DEF Increasing
<1>4. order \in [1..Cardinality(places) -> places] /\ IsOrder(order)
  <2> HIDE DEF places, IsOrder
  <2> QED BY <1>3
<1>5. PICK o : o = order
  OBVIOUS
<1>6. o \in [1..Cardinality(places) -> places] /\ Increasing(o)
  BY <1>4, <1>5 DEF Increasing
<1>7. Keep(ks, S) = [i \in 1..Cardinality(places) |-> ks[o[i]]]
  BY <1>2, <1>5
<1> HIDE DEF order, IsOrder
<1>8. Cardinality(places) \in Nat
  <2> HIDE DEF places
  <2>1. IsFiniteSet(1..Len(ks))
    BY <1>1, FS_Interval
  <2>2. IsFiniteSet(places)
    BY <1>1, <2>1, FS_Subset
  <2> QED BY <2>2, FS_CardinalityType
<1>9. PICK m \in Nat : m = Cardinality(places)
  BY <1>8
<1>10. \A x \in places : \E i \in 1..m : o[i] = x
  <2> HIDE DEF places
  <2>1. \A x \in places : \E i \in 1..Cardinality(places) : o[i] = x
    BY <1>1, <1>6, IncreasingCovers, Zenon
  <2> QED BY <1>9, <2>1
<1>11. o \in [1..m -> places] /\ Keep(ks, S) = [i \in 1..m |-> ks[o[i]]]
  BY <1>6, <1>7, <1>9
<1>12. Keep(ks, S) \in Seq(Key)
  <2>1. \A i \in 1..m : ks[o[i]] \in Key
    BY <1>1, <1>11
  <2> QED BY <1>11, <2>1
<1>13. ToSet(Keep(ks, S)) = {ks[o[i]] : i \in 1..m}
  <2>1. DOMAIN Keep(ks, S) = 1..m /\ \A i \in 1..m : Keep(ks, S)[i] = ks[o[i]]
    BY <1>11
  <2> QED BY <2>1 DEF ToSet
<1>14. {ks[o[i]] : i \in 1..m} = {ks[x] : x \in places}
  <2> HIDE DEF places
  <2>1. \A i \in 1..m : o[i] \in places
    BY <1>11
  <2> QED BY <1>10, <2>1
<1>15. {ks[x] : x \in places} = ToSet(ks) \cap S
  BY DEF ToSet
<1> QED BY <1>12, <1>13, <1>14, <1>15
-----------------------------------------------------------------------------
\* The rounding up of do_service.
LEMMA CeilDivBounds ==
  ASSUME NEW a \in Nat \ {0}, NEW b \in Nat \ {0}
  PROVE  /\ CeilDiv(a, b) \in Nat \ {0}
         /\ (CeilDiv(a, b) - 1) * b < a
         /\ a <= CeilDiv(a, b) * b
<1> DEFINE q == a \div b
           r == a % b
<1>1. q \in Int /\ r \in 0..(b - 1) /\ a = b * q + r
  OBVIOUS
<1>2. q >= 0
  <2> SUFFICES ASSUME q < 0 PROVE FALSE
    BY <1>1
  <2>1. q <= -1
    BY <1>1
  <2>2. b * q <= b * (-1)
    BY <1>1, <2>1
  <2> QED BY <1>1, <2>2
<1>3. b * q = q * b /\ q * b \in Int /\ (q + 1) * b = q * b + b
  BY <1>1
<1> HIDE DEF q, r
<1>4. CASE r # 0
  <2>1. CeilDiv(a, b) = q + 1
    BY <1>4 DEF CeilDiv, q, r
  <2> QED BY <1>1, <1>2, <1>3, <1>4, <2>1
<1>5. CASE r = 0
  <2>1. CeilDiv(a, b) = q
    BY <1>1, <1>5 DEF CeilDiv, q, r
  <2>2. q # 0
    BY <1>1, <1>5
  <2>3. (q - 1) * b = q * b - b
    BY <1>1
  <2> QED BY <1>1, <1>2, <1>3, <1>5, <2>1, <2>2, <2>3
<1> QED BY <1>4, <1>5

LEMMA TimesMonotone ==
  ASSUME NEW m \in Int, NEW n \in Int, NEW s \in Nat
  PROVE  /\ m * s \in Int
         /\ m <= n => m * s <= n * s
         /\ s # 0 /\ m < n => m * s < n * s /\ m * s + s <= n * s
         /\ (m + 1) * s = m * s + s /\ (m - 1) * s = m * s - s
         /\ n * s <= m * s /\ s # 0 => n <= m
  OBVIOUS

LEMMA StepSizePositive ==
  ASSUME enable_multi_get \in BOOLEAN, NEW n \in Nat \ {0}
  PROVE  StepSize(n) \in Nat \ {0}
<1>1. CASE enable_multi_get
  <2>1. batch_size \in Nat \ {0}
    BY RedisKeysAssumption
  <2>2. CeilDiv(n, batch_size) \in Nat \ {0}
    BY <2>1, CeilDivBounds
  <2>3. CeilDiv(n, CeilDiv(n, batch_size)) \in Nat \ {0}
    BY <2>2, CeilDivBounds
  <2> QED BY <1>1, <2>3 DEF StepSize
<1>2. CASE ~enable_multi_get
  BY <1>2 DEF StepSize
<1> QED BY <1>1, <1>2

LEMMA SubSeqKeys ==
  ASSUME NEW ks \in Seq(Key), NEW a \in Nat, NEW z \in Nat, a < z, z <= Len(ks)
  PROVE  /\ SubSeq(ks, a + 1, z) \in Seq(Key)
         /\ DOMAIN SubSeq(ks, a + 1, z) = 1..(z - a)
         /\ \A i \in 1..(z - a) : a + i \in DOMAIN ks /\ SubSeq(ks, a + 1, z)[i] = ks[a + i]
<1>1. SubSeq(ks, a + 1, z) = [i \in 1..(z - a) |-> ks[a + i]]
  OBVIOUS
<1>2. \A i \in 1..(z - a) : a + i \in DOMAIN ks /\ ks[a + i] \in Key
  OBVIOUS
<1>3. [i \in 1..(z - a) |-> ks[a + i]] \in Seq(Key)
  <2>1. z - a \in Nat
    OBVIOUS
  <2> QED BY <1>2, <2>1
<1> QED BY <1>1, <1>2, <1>3

(***************************************************************************)
(* The keys of a fetch_info slot by slot: no key is lost, and where a      *)
(* client is to be asked every part is of one slot.                        *)
(***************************************************************************)
LEMMA GroupsSplit ==
  ASSUME NEW f, NEW ks \in Seq(Key), NEW groups \in Groups(f, ks)
  PROVE  /\ groups \in Seq(Seq(Key)) /\ Len(groups) \in Nat \ {0}
         /\ Conf(f).client => \A i \in DOMAIN groups : OneSlot(groups[i])
         /\ \A k \in ToSet(ks) : \E i \in DOMAIN groups : k \in ToSet(groups[i])
<1>1. CASE ks = <<>> \/ ~Conf(f).client
  <2>1. groups = <<ks>>
    BY <1>1 DEF Groups
  <2>2. groups \in Seq(Seq(Key)) /\ Len(groups) = 1 /\ DOMAIN groups = {1} /\ groups[1] = ks
    BY <2>1
  <2>3. ks = <<>> => OneSlot(ks)
    BY DEF OneSlot, ToSet
  <2> QED BY <1>1, <2>2, <2>3
<1>2. CASE ~(ks = <<>> \/ ~Conf(f).client)
  <2> DEFINE slots == {SlotOf[k] : k \in ToSet(ks)}
  <2>1. PICK order \in SetToSeqs(slots) :
          groups = [i \in 1..Len(order) |-> Keep(ks, KeysOfSlot(order[i]))]
    BY <1>2 DEF Groups
  <2>2. PICK m : m = Cardinality(slots)
    OBVIOUS
  <2>3. order \in [1..m -> slots] /\ \A i, j \in 1..m : i # j => order[i] # order[j]
    BY <2>1, <2>2 DEF SetToSeqs
  <2>4. IsFiniteSet(slots) /\ slots # {}
    <3>1. IsFiniteSet(1..Len(ks))
      BY FS_Interval
    <3> DEFINE s == [i \in 1..Len(ks) |-> SlotOf[ks[i]]]
    <3>2. s \in Surjection(1..Len(ks), slots)
      BY DEF Surjection, ToSet
    <3> HIDE DEF s
    <3>3. IsFiniteSet(slots)
      BY <3>1, <3>2, FS_Surjection
    <3>4. ks[1] \in ToSet(ks)
      BY <1>2 DEF ToSet
    <3> QED BY <3>3, <3>4
  <2>5. m \in Nat \ {0}
    <3> HIDE DEF slots
    <3> QED BY <2>2, <2>4, FS_CardinalityType, FS_EmptySet
  <2>6. \A s \in slots : \E i \in 1..m : order[i] = s
    <3> HIDE DEF slots
    <3>1. order \in Injection(1..m, slots)
      BY <2>3 DEF Injection, IsInjective
    <3>2. Cardinality(1..m) = m
      BY <2>5, FS_Interval
    <3>3. order \in Surjection(1..m, slots)
      BY <2>2, <2>4, <3>1, <3>2, FS_Injection
    <3> QED BY <3>3 DEF Surjection
  <2>7. Len(order) = m
    BY <2>3, <2>5
  <2>8. DOMAIN groups = 1..m /\ \A i \in 1..m : groups[i] = Keep(ks, KeysOfSlot(order[i]))
    BY <2>1, <2>7
  <2>9. groups \in Seq(Seq(Key)) /\ Len(groups) = m
    <3>1. \A i \in 1..m : Keep(ks, KeysOfSlot(order[i])) \in Seq(Key)
      BY KeepKeeps
    <3> QED BY <2>1, <2>5, <2>7, <3>1
  <2>10. \A i \in 1..m : ToSet(groups[i]) = ToSet(ks) \cap KeysOfSlot(order[i])
    BY <2>8, KeepKeeps
  <2>11. \A i \in DOMAIN groups : OneSlot(groups[i])
    BY <2>8, <2>10 DEF OneSlot, KeysOfSlot
  <2>12. ASSUME NEW k \in ToSet(ks) PROVE \E i \in DOMAIN groups : k \in ToSet(groups[i])
    <3>1. k \in Key
      BY DEF ToSet
    <3>2. PICK i \in 1..m : order[i] = SlotOf[k]
      BY <2>6
    <3> QED BY <2>8, <2>10, <3>1, <3>2 DEF KeysOfSlot
  <2> QED BY <2>5, <2>9, <2>11, <2>12
<1> QED BY <1>1, <1>2

(***************************************************************************)
(* The batches of a fetch_info: each is a stretch of its keys where the    *)
(* batch says, and together they hold all of them.                         *)
(***************************************************************************)
FetchInfo == [conf : DOMAIN Configured, keys : Seq(Key)]

Vec == Seq(FetchInfo)

StretchEnd(ks, n, step) == IF (n + 1) * step < Len(ks) THEN (n + 1) * step ELSE Len(ks)

LEMMA Stretch ==
  ASSUME NEW ks \in Seq(Key), ks # <<>>, NEW step \in Nat \ {0},
         NEW n \in 0..(CeilDiv(Len(ks), step) - 1)
  PROVE  n * step \in Nat /\ StretchEnd(ks, n, step) \in Nat
         /\ n * step < StretchEnd(ks, n, step) /\ StretchEnd(ks, n, step) <= Len(ks)
<1>1. PICK l \in Nat \ {0} : l = Len(ks)
  OBVIOUS
<1>2. PICK q : q = CeilDiv(l, step)
  OBVIOUS
<1>3. q \in Nat \ {0} /\ (q - 1) * step < l
  BY <1>1, <1>2, CeilDivBounds
<1>4. n \in Nat /\ n <= q - 1
  BY <1>1, <1>2, <1>3
<1>5. n * step \in Int /\ n * step <= (q - 1) * step /\ (n + 1) * step = n * step + step
      /\ (q - 1) * step \in Int
  BY <1>3, <1>4, TimesMonotone
<1>6. 0 * step <= n * step
  BY <1>4, TimesMonotone
<1>7. 0 * step = 0
  OBVIOUS
<1>8. n * step \in Nat /\ n * step < l
  BY <1>3, <1>5, <1>6, <1>7
<1> QED BY <1>1, <1>5, <1>8 DEF StretchEnd

LEMMA StretchOf ==
  ASSUME NEW ks \in Seq(Key), NEW step \in Nat \ {0}, NEW j \in 1..Len(ks)
  PROVE  \E n \in 0..(CeilDiv(Len(ks), step) - 1) :
           n * step < j /\ j <= StretchEnd(ks, n, step)
<1>1. PICK l \in Nat \ {0} : l = Len(ks)
  OBVIOUS
<1>2. PICK q : q = CeilDiv(l, step)
  OBVIOUS
<1>3. q \in Nat \ {0} /\ l <= q * step
  BY <1>1, <1>2, CeilDivBounds
<1>4. PICK n \in Nat : n * step <= j - 1 /\ j - 1 < n * step + step
  <2> DEFINE d == (j - 1) \div step
             e == (j - 1) % step
  <2>1. d \in Nat /\ e \in 0..(step - 1) /\ j - 1 = step * d + e
    OBVIOUS
  <2>2. step * d = d * step /\ step * d \in Int
    BY <2>1
  <2> HIDE DEF d, e
  <2>3. d * step <= j - 1 /\ j - 1 < d * step + step
    BY <2>1, <2>2
  <2> QED BY <2>1, <2>3
<1>5. n * step \in Int /\ q * step \in Int /\ (n + 1) * step = n * step + step
  BY <1>3, TimesMonotone
<1>6. n < q
  <2> SUFFICES ASSUME q <= n PROVE FALSE
    BY <1>3
  <2>1. q * step <= n * step
    BY <1>3, TimesMonotone
  <2> QED BY <1>1, <1>3, <1>4, <1>5, <2>1
<1>7. n \in 0..(q - 1)
  BY <1>3, <1>6
<1>8. n * step < j /\ j <= StretchEnd(ks, n, step)
  BY <1>1, <1>4, <1>5 DEF StretchEnd
<1> QED BY <1>1, <1>2, <1>7, <1>8

LEMMA BatchesCover ==
  ASSUME enable_multi_get \in BOOLEAN, NEW vec \in Vec, NEW f \in DOMAIN vec
  PROVE  /\ \A b \in BatchesOf(vec, f) :
              /\ b.info = f /\ b.start \in Nat /\ b.keys \in Seq(Key) /\ b.keys # <<>>
              /\ \A i \in DOMAIN b.keys :
                   b.start + i \in DOMAIN vec[f].keys /\ vec[f].keys[b.start + i] = b.keys[i]
              /\ Configured[vec[f].conf].client
         /\ Configured[vec[f].conf].client =>
              \A k \in ToSet(vec[f].keys) : \E b \in BatchesOf(vec, f) : k \in ToSet(b.keys)
<1>1. PICK ks : ks = vec[f].keys
  OBVIOUS
<1>2. ks \in Seq(Key)
  <2>1. vec[f] \in FetchInfo
    BY DEF Vec
  <2> QED BY <1>1, <2>1 DEF FetchInfo
<1>3. CASE ks = <<>> \/ ~Configured[vec[f].conf].client
  <2>1. BatchesOf(vec, f) = {}
    BY <1>1, <1>3 DEF BatchesOf
  <2> QED BY <1>1, <1>3, <2>1 DEF ToSet
<1>4. CASE ~(ks = <<>> \/ ~Configured[vec[f].conf].client)
  <2>1. PICK step : step = StepSize(Len(ks))
    OBVIOUS
  <2>2. Len(ks) \in Nat \ {0}
    BY <1>2, <1>4
  <2>3. step \in Nat \ {0}
    BY <2>1, <2>2, StepSizePositive
  <2> DEFINE batch(n) == [info |-> f, start |-> n * step,
                          keys |-> SubSeq(ks, n * step + 1, StretchEnd(ks, n, step))]
             N == 0..(CeilDiv(Len(ks), step) - 1)
  <2>4. BatchesOf(vec, f) = {batch(n) : n \in N}
    BY <1>1, <1>4, <2>1 DEF BatchesOf, StretchEnd
  <2>5. ASSUME NEW n \in N
        PROVE  /\ batch(n).keys \in Seq(Key) /\ n * step \in Nat
               /\ DOMAIN batch(n).keys = 1..(StretchEnd(ks, n, step) - n * step)
               /\ batch(n).keys # <<>>
               /\ \A i \in DOMAIN batch(n).keys :
                    n * step + i \in DOMAIN ks /\ batch(n).keys[i] = ks[n * step + i]
    <3>1. PICK a, z : a = n * step /\ z = StretchEnd(ks, n, step)
      OBVIOUS
    <3>2. a \in Nat /\ z \in Nat /\ a < z /\ z <= Len(ks)
      BY <1>2, <1>4, <2>3, <3>1, Stretch
    <3>3. PICK s : s = SubSeq(ks, a + 1, z)
      OBVIOUS
    <3>4. s \in Seq(Key) /\ DOMAIN s = 1..(z - a)
          /\ \A i \in 1..(z - a) : a + i \in DOMAIN ks /\ s[i] = ks[a + i]
      BY <1>2, <3>2, <3>3, SubSeqKeys
    <3>5. s # <<>>
      BY <3>2, <3>4
    <3>6. batch(n).keys = s
      BY <3>1, <3>3
    <3> QED BY <3>1, <3>2, <3>4, <3>5, <3>6
  <2>6. ASSUME NEW k \in ToSet(ks) PROVE \E b \in BatchesOf(vec, f) : k \in ToSet(b.keys)
    <3>1. PICK j \in 1..Len(ks) : k = ks[j]
      BY <1>2 DEF ToSet
    <3>2. PICK n \in N : n * step < j /\ j <= StretchEnd(ks, n, step)
      BY <1>2, <2>3, <3>1, StretchOf
    <3>3. PICK a, z : a = n * step /\ z = StretchEnd(ks, n, step)
      OBVIOUS
    <3>4. a \in Nat /\ z \in Nat
      BY <1>2, <1>4, <2>3, <3>3, Stretch
    <3>5. j - a \in 1..(z - a) /\ a + (j - a) = j
      BY <3>2, <3>3, <3>4
    <3>6. PICK s : s = batch(n).keys
      OBVIOUS
    <3>7. /\ DOMAIN s = 1..(StretchEnd(ks, n, step) - n * step)
          /\ \A i \in DOMAIN s : s[i] = ks[n * step + i]
      BY <2>5, <3>6
    <3>8. DOMAIN s = 1..(z - a) /\ \A i \in DOMAIN s : s[i] = ks[a + i]
      BY <3>3, <3>7
    <3>9. s[j - a] = k /\ j - a \in DOMAIN s
      BY <3>1, <3>5, <3>8
    <3>10. k \in ToSet(batch(n).keys)
      BY <3>6, <3>9 DEF ToSet
    <3> QED BY <2>4, <3>10
  <2>7. \A n \in N : batch(n).info = f /\ batch(n).start = n * step
    OBVIOUS
  <2> HIDE DEF batch, N
  <2> QED BY <1>1, <1>4, <2>4, <2>5, <2>6, <2>7
<1> QED BY <1>3, <1>4
-----------------------------------------------------------------------------
(***************************************************************************)
(* The types the steps rest on.                                            *)
(***************************************************************************)
LEMMA Typed ==
  ASSUME TypeOK
  PROVE  /\ fetch_info_vec \in Vec /\ added \in Vec
         /\ Len(fetch_info_vec) \in Nat /\ DOMAIN fetch_info_vec = 1..Len(fetch_info_vec)
         /\ \A f \in DOMAIN fetch_info_vec : fetch_info_vec[f] \in FetchInfo
         /\ \A i \in DOMAIN added : added[i] \in FetchInfo
         /\ position \in Nat \ {0} /\ position <= Len(fetch_info_vec) + 1
         /\ \A r \in Request : \A c \in DOMAIN Configured : wanted[r][c] \in Seq(Key)
         /\ enable_multi_get \in BOOLEAN
<1>1. fetch_info_vec \in Vec /\ added \in Vec
  BY Zenon DEF TypeOK, Vec, FetchInfo
<1>2. \A f \in DOMAIN fetch_info_vec : fetch_info_vec[f] \in FetchInfo
  BY <1>1 DEF Vec
<1>3. \A i \in DOMAIN added : added[i] \in FetchInfo
  BY <1>1 DEF Vec
<1>4. Len(fetch_info_vec) \in Nat /\ DOMAIN fetch_info_vec = 1..Len(fetch_info_vec)
  BY <1>1 DEF Vec
<1>5. position \in Nat \ {0} /\ position <= Len(fetch_info_vec) + 1
  BY <1>4 DEF TypeOK
<1>6. wanted \in WantedType
  BY RedisKeysAssumption DEF TypeOK
<1>7. \A r \in Request : \A c \in DOMAIN Configured : wanted[r][c] \in Seq(Key)
  BY <1>6, Zenon DEF WantedType
<1>8. enable_multi_get \in BOOLEAN
  BY DEF TypeOK
<1> QED BY <1>1, <1>2, <1>3, <1>4, <1>5, <1>7, <1>8

(***************************************************************************)
(* What key_gen_func makes is wanted, or was there; what is not found in   *)
(* the cache is missed.                                                    *)
(***************************************************************************)
LEMMA MissedKeys ==
  ASSUME TypeOK, NEW r \in Request, NEW f \in DOMAIN fetch_info_vec
  PROVE  /\ Missed(r, f) \in Seq(Key)
         /\ \A k \in ToSet(wanted[r][fetch_info_vec[f].conf]) :
              k \in Found(r, f) \/ k \in ToSet(Missed(r, f))
         /\ Found(r, f) \subseteq Key
         /\ \A k \in Found(r, f) : cache[k] # NoEntry
<1>1. fetch_info_vec[f].conf \in DOMAIN Configured /\ fetch_info_vec[f].keys \in Seq(Key)
  BY Typed DEF FetchInfo
<1>2. PICK w : w = wanted[r][fetch_info_vec[f].conf]
  OBVIOUS
<1>3. w \in Seq(Key)
  BY <1>1, <1>2, Typed
<1>4. PICK g : g = IF Conf(f).clears THEN <<>> ELSE fetch_info_vec[f].keys
  OBVIOUS
<1>5. g \in Seq(Key)
  BY <1>1, <1>4
<1>6. Generated(r, f) = g \o w
  BY <1>2, <1>4 DEF Generated
<1>7. Generated(r, f) \in Seq(Key)
  BY <1>3, <1>5, <1>6
<1>8. ToSet(w) \subseteq ToSet(Generated(r, f))
  <2> SUFFICES ASSUME NEW i \in 1..Len(w)
               PROVE  \E j \in DOMAIN Generated(r, f) : Generated(r, f)[j] = w[i]
    BY <1>3 DEF ToSet
  <2>1. Len(g) + i \in DOMAIN (g \o w) /\ (g \o w)[Len(g) + i] = w[i]
    BY <1>3, <1>5
  <2> QED BY <1>6, <2>1
<1>9. ToSet(Generated(r, f)) \subseteq Key
  BY <1>7 DEF ToSet
<1>10. Missed(r, f) \in Seq(Key)
       /\ ToSet(Missed(r, f)) = ToSet(Generated(r, f)) \cap (Key \ Found(r, f))
  BY <1>7, KeepKeeps DEF Missed
<1>11. Found(r, f) \subseteq Key /\ \A k \in Found(r, f) : cache[k] # NoEntry
  BY <1>9 DEF Found
<1> QED BY <1>2, <1>8, <1>9, <1>10, <1>11

-----------------------------------------------------------------------------
(***************************************************************************)
(* The invariant is kept by every step: Begin.                             *)
(***************************************************************************)
LEMMA BeginKept ==
  ASSUME KeysInv, NEW r \in Request, Begin(r)
  PROVE  KeysInv'
<1> USE DEF KeysInv
<1>1. stage \in [Request -> {"new", "make_up", "sent", "merge", "done", "stuck"}]
  BY DEF TypeOK
<1>2. stage' = [stage EXCEPT ![r] = "make_up"] /\ stage[r] = "new"
      /\ \A q \in Request : stage[q] # "make_up"
  BY DEF Begin
<1>3. UNCHANGED <<wanted, enable_multi_get, fetch_info_vec, hits, cache, batches,
                  items, parsed, failed, disturbed>> /\ position' = 1 /\ added' = <<>>
  BY DEF Begin
<1>4. TypeOK'
  <2>1. 1 \in 1..(Len(fetch_info_vec) + 1)
    BY Typed
  <2>2. added' \in Seq([conf : DOMAIN Configured, keys : Seq(Key)])
    BY <1>3
  <2>3. stage' \in [Request -> {"new", "make_up", "sent", "merge", "done", "stuck"}]
    BY <1>1, <1>2
  <2> QED BY <1>3, <2>1, <2>2, <2>3 DEF TypeOK
<1>5. StagesInv'
  BY <1>1, <1>2, <1>3 DEF StagesInv
<1>6. DomainsInv' /\ ConfiguredInv' /\ BatchesInv' /\ ItemsInv'
  BY <1>3 DEF DomainsInv, ConfiguredInv, BatchesInv, ItemsInv, OneSlot
<1>7. SplitInv'
  <2>1. 1..(position' - 1) = {} /\ DOMAIN added' = {}
    BY <1>3
  <2> QED BY <2>1 DEF SplitInv
<1>8. PlacesInv' /\ UndisturbedIsTrue'
  BY <1>3 DEF PlacesInv, InPlace, UndisturbedIsTrue
<1>9. StuckOnlyIfDisturbed'
  BY <1>1, <1>2, <1>3 DEF StuckOnlyIfDisturbed
<1>10. DueInv'
  <2> SUFFICES ASSUME NEW q \in Request \ (failed' \cup disturbed'),
                      NEW c \in DOMAIN Configured, Configured[c].client,
                      NEW k \in ToSet(wanted'[q][c])
               PROVE  Due(q, c, k)'
    BY DEF DueInv
  <2>1. Due(q, c, k)
    BY <1>3 DEF DueInv
  <2>2. CASE q = r
    <3>1. c \in 1..Len(Configured)
      BY RedisKeysAssumption DEF ConfType
    <3>2. c >= position'
      BY <1>3, <3>1
    <3> QED BY <1>1, <1>2, <2>2, <3>2 DEF Due, ToBeSent
  <2>3. CASE q # r
    <3>1. stage'[q] = stage[q] /\ stage[q] # "make_up"
      BY <1>1, <1>2, <2>3
    <3> QED BY <1>3, <2>1, <3>1 DEF Due
  <2> QED BY <2>2, <2>3
<1> QED BY <1>4, <1>5, <1>6, <1>7, <1>8, <1>9, <1>10

LEMMA Joined ==
  ASSUME NEW S, NEW s \in Seq(S), NEW t \in Seq(S)
  PROVE  /\ s \o t \in Seq(S) /\ Len(s \o t) = Len(s) + Len(t)
         /\ \A i \in 1..Len(s) : (s \o t)[i] = s[i]
         /\ \A i \in 1..Len(t) : (s \o t)[Len(s) + i] = t[i]
  OBVIOUS

\* MakeUpInfo.  What it does to the vector of fetch_infos and to added.
LEMMA MakeUpVec ==
  ASSUME TypeOK, NEW r \in Request, MakeUpInfo(r)
  PROVE  \E groups \in Groups(position, Missed(r, position)) :
           /\ position \in DOMAIN fetch_info_vec
           /\ fetch_info_vec' \in Vec
           /\ DOMAIN fetch_info_vec' = DOMAIN fetch_info_vec
           /\ Len(fetch_info_vec') = Len(fetch_info_vec)
           /\ \A f \in DOMAIN fetch_info_vec :
                /\ fetch_info_vec'[f].conf = fetch_info_vec[f].conf
                /\ f # position => fetch_info_vec'[f] = fetch_info_vec[f]
           /\ fetch_info_vec'[position].keys = groups[1]
           /\ added' \in Vec
           /\ \A i \in DOMAIN added : i \in DOMAIN added' /\ added'[i] = added[i]
           /\ \A i \in DOMAIN groups \ {1} :
                \E j \in DOMAIN added' : added'[j].conf = fetch_info_vec[position].conf
                                         /\ added'[j].keys = groups[i]
           /\ \A j \in DOMAIN added' :
                \/ j \in DOMAIN added /\ added'[j] = added[j]
                \/ \E i \in DOMAIN groups : /\ added'[j].conf = fetch_info_vec[position].conf
                                            /\ added'[j].keys = groups[i]
<1>1. PICK groups \in Groups(position, Missed(r, position)) :
        /\ fetch_info_vec' = [fetch_info_vec EXCEPT ![position].keys = groups[1]]
        /\ added' = added \o [i \in 1..(Len(groups) - 1) |->
                               [conf |-> fetch_info_vec[position].conf, keys |-> groups[i + 1]]]
  BY DEF MakeUpInfo
<1>2. position \in DOMAIN fetch_info_vec
  BY Typed DEF MakeUpInfo
<1>3. Missed(r, position) \in Seq(Key)
  BY <1>2, MissedKeys
<1>4. groups \in Seq(Seq(Key)) /\ Len(groups) \in Nat \ {0}
  BY <1>3, GroupsSplit
<1>5. groups[1] \in Seq(Key) /\ \A i \in 1..(Len(groups) - 1) : groups[i + 1] \in Seq(Key)
  <2>1. \A i \in 1..Len(groups) : groups[i] \in Seq(Key)
    BY <1>4
  <2>2. 1 \in 1..Len(groups) /\ \A i \in 1..(Len(groups) - 1) : i + 1 \in 1..Len(groups)
    BY <1>4
  <2> QED BY <2>1, <2>2
<1>6. \A f \in DOMAIN fetch_info_vec : fetch_info_vec[f] \in FetchInfo
  BY Typed
<1>7. /\ DOMAIN fetch_info_vec' = DOMAIN fetch_info_vec
      /\ \A f \in DOMAIN fetch_info_vec : f # position => fetch_info_vec'[f] = fetch_info_vec[f]
      /\ fetch_info_vec'[position] = [fetch_info_vec[position] EXCEPT !.keys = groups[1]]
  BY <1>1, <1>2
<1>8. /\ fetch_info_vec'[position] \in FetchInfo
      /\ fetch_info_vec'[position].keys = groups[1]
      /\ fetch_info_vec'[position].conf = fetch_info_vec[position].conf
  BY <1>2, <1>5, <1>6, <1>7 DEF FetchInfo
<1>9. fetch_info_vec' \in Vec /\ Len(fetch_info_vec') = Len(fetch_info_vec)
  <2>1. \A f \in DOMAIN fetch_info_vec : fetch_info_vec'[f] \in FetchInfo
    BY <1>6, <1>7, <1>8
  <2>2. fetch_info_vec \in Seq(FetchInfo)
    BY Typed DEF Vec
  <2>3. fetch_info_vec' = [f \in 1..Len(fetch_info_vec) |-> fetch_info_vec'[f]]
    <3>1. fetch_info_vec' = [f \in DOMAIN fetch_info_vec |-> fetch_info_vec'[f]]
      BY <1>1
    <3>2. DOMAIN fetch_info_vec = 1..Len(fetch_info_vec)
      BY Typed
    <3> QED BY <3>1, <3>2
  <2>4. PICK v : v = fetch_info_vec'
    OBVIOUS
  <2>5. v = [f \in 1..Len(fetch_info_vec) |-> v[f]] /\ Len(fetch_info_vec) \in Nat
        /\ \A f \in 1..Len(fetch_info_vec) : v[f] \in FetchInfo
    BY <2>1, <2>2, <2>3, <2>4
  <2>6. v \in Seq(FetchInfo) /\ Len(v) = Len(fetch_info_vec)
    BY <2>5
  <2> QED BY <2>4, <2>6 DEF Vec
<1>10. PICK more : more = [i \in 1..(Len(groups) - 1) |->
                            [conf |-> fetch_info_vec[position].conf, keys |-> groups[i + 1]]]
  OBVIOUS
<1>11. /\ more \in Seq(FetchInfo) /\ Len(more) = Len(groups) - 1
       /\ \A i \in 1..(Len(groups) - 1) : /\ more[i].conf = fetch_info_vec[position].conf
                                          /\ more[i].keys = groups[i + 1]
  <2>1. fetch_info_vec[position].conf \in DOMAIN Configured
    BY <1>2, <1>6 DEF FetchInfo
  <2>2. \A i \in 1..(Len(groups) - 1) :
          [conf |-> fetch_info_vec[position].conf, keys |-> groups[i + 1]] \in FetchInfo
    BY <1>5, <2>1 DEF FetchInfo
  <2>3. Len(groups) - 1 \in Nat
    BY <1>4
  <2>4. more \in Seq(FetchInfo) /\ Len(more) = Len(groups) - 1
    BY <1>10, <2>2, <2>3
  <2> QED BY <1>10, <2>4
<1>12. added' = added \o more /\ added \in Seq(FetchInfo)
  BY <1>1, <1>10, Typed DEF Vec
<1>13. /\ added' \in Seq(FetchInfo) /\ Len(added') = Len(added) + Len(more)
       /\ \A i \in 1..Len(added) : added'[i] = added[i]
       /\ \A i \in 1..Len(more) : added'[Len(added) + i] = more[i]
  <2>1. more \in Seq(FetchInfo) /\ added \in Seq(FetchInfo)
    BY <1>11, <1>12
  <2>2. PICK joined : joined = added \o more
    OBVIOUS
  <2>3. /\ joined \in Seq(FetchInfo) /\ Len(joined) = Len(added) + Len(more)
        /\ \A i \in 1..Len(added) : joined[i] = added[i]
        /\ \A i \in 1..Len(more) : joined[Len(added) + i] = more[i]
    BY <2>1, <2>2, Joined
  <2> QED BY <1>12, <2>2, <2>3
<1>14. DOMAIN added = 1..Len(added) /\ DOMAIN added' = 1..(Len(added) + Len(more))
       /\ Len(added) \in Nat /\ Len(more) \in Nat
  BY <1>11, <1>12, <1>13
<1>15. \A i \in DOMAIN added : i \in DOMAIN added' /\ added'[i] = added[i]
  BY <1>13, <1>14
<1>16. ASSUME NEW i \in DOMAIN groups \ {1}
       PROVE  \E j \in DOMAIN added' : /\ added'[j].conf = fetch_info_vec[position].conf
                                       /\ added'[j].keys = groups[i]
  <2>1. i - 1 \in 1..Len(more) /\ (i - 1) + 1 = i
    BY <1>4, <1>11
  <2>2. Len(added) + (i - 1) \in DOMAIN added'
    BY <1>14, <2>1
  <2>3. added'[Len(added) + (i - 1)] = more[i - 1]
    BY <1>13, <2>1
  <2>4. more[i - 1].conf = fetch_info_vec[position].conf /\ more[i - 1].keys = groups[i]
    BY <1>11, <2>1
  <2> QED BY <2>2, <2>3, <2>4
<1>17. ASSUME NEW j \in DOMAIN added', j \notin DOMAIN added
       PROVE  \E i \in DOMAIN groups : /\ added'[j].conf = fetch_info_vec[position].conf
                                       /\ added'[j].keys = groups[i]
  <2>1. PICK i \in 1..Len(more) : j = Len(added) + i
    <3>1. j - Len(added) \in 1..Len(more) /\ j = Len(added) + (j - Len(added))
      BY <1>14, <1>17
    <3> QED BY <3>1
  <2>2. i + 1 \in DOMAIN groups
    BY <1>4, <1>11
  <2>3. added'[j] = more[i]
    BY <1>13, <2>1
  <2>4. more[i].conf = fetch_info_vec[position].conf /\ more[i].keys = groups[i + 1]
    BY <1>11
  <2> QED BY <2>2, <2>3, <2>4
<1>18. added' \in Vec
  BY <1>13 DEF Vec
<1>19. \A f \in DOMAIN fetch_info_vec :
         /\ fetch_info_vec'[f].conf = fetch_info_vec[f].conf
         /\ f # position => fetch_info_vec'[f] = fetch_info_vec[f]
  BY <1>2, <1>7, <1>8
<1>20. WITNESS groups \in Groups(position, Missed(r, position))
<1> QED
  BY <1>2, <1>7, <1>8, <1>9, <1>15, <1>16, <1>17, <1>18, <1>19

LEMMA MakeUpKept ==
  ASSUME KeysInv, NEW r \in Request, MakeUpInfo(r)
  PROVE  KeysInv'
<1> USE DEF KeysInv
<1>1. PICK groups \in Groups(position, Missed(r, position)) :
        /\ position \in DOMAIN fetch_info_vec
        /\ fetch_info_vec' \in Vec
        /\ DOMAIN fetch_info_vec' = DOMAIN fetch_info_vec
        /\ Len(fetch_info_vec') = Len(fetch_info_vec)
        /\ \A f \in DOMAIN fetch_info_vec :
             /\ fetch_info_vec'[f].conf = fetch_info_vec[f].conf
             /\ f # position => fetch_info_vec'[f] = fetch_info_vec[f]
        /\ fetch_info_vec'[position].keys = groups[1]
        /\ added' \in Vec
        /\ \A i \in DOMAIN added : i \in DOMAIN added' /\ added'[i] = added[i]
        /\ \A i \in DOMAIN groups \ {1} :
             \E j \in DOMAIN added' : added'[j].conf = fetch_info_vec[position].conf
                                      /\ added'[j].keys = groups[i]
        /\ \A j \in DOMAIN added' :
             \/ j \in DOMAIN added /\ added'[j] = added[j]
             \/ \E i \in DOMAIN groups : /\ added'[j].conf = fetch_info_vec[position].conf
                                         /\ added'[j].keys = groups[i]
  BY MakeUpVec
<1>2. /\ stage[r] = "make_up" /\ position' = position + 1
      /\ hits' = [hits EXCEPT ![r] = @ \cup {<<k, cache[k]>> : k \in Found(r, position)}]
      /\ disturbed' = disturbed \cup Using(position)
  BY DEF MakeUpInfo
<1>3. UNCHANGED <<wanted, enable_multi_get, cache, stage, batches, items, parsed, failed>>
  BY DEF MakeUpInfo
<1>4. /\ Missed(r, position) \in Seq(Key)
      /\ \A k \in ToSet(wanted[r][fetch_info_vec[position].conf]) :
           k \in Found(r, position) \/ k \in ToSet(Missed(r, position))
      /\ Found(r, position) \subseteq Key
      /\ \A k \in Found(r, position) : cache[k] # NoEntry
  BY <1>1, MissedKeys
<1>5. /\ groups \in Seq(Seq(Key)) /\ Len(groups) \in Nat \ {0}
      /\ Conf(position).client => \A i \in DOMAIN groups : OneSlot(groups[i])
      /\ \A k \in ToSet(Missed(r, position)) :
           \E i \in DOMAIN groups : k \in ToSet(groups[i])
  BY <1>4, GroupsSplit
<1>6. position \in Nat \ {0} /\ DOMAIN fetch_info_vec = 1..Len(fetch_info_vec)
      /\ Len(fetch_info_vec) \in Nat
  BY Typed
<1>7. \A f \in DOMAIN fetch_info_vec : Conf(f)' = Conf(f)
  BY <1>1 DEF Conf
<1>8. 1 \in DOMAIN groups
  BY <1>5
<1>9. TypeOK'
  <2>1. position' \in 1..(Len(fetch_info_vec') + 1)
    BY <1>1, <1>2, <1>6
  <2>2. /\ fetch_info_vec' \in Seq([conf : DOMAIN Configured, keys : Seq(Key)])
        /\ added' \in Seq([conf : DOMAIN Configured, keys : Seq(Key)])
    BY <1>1 DEF Vec, FetchInfo
  <2>3. ASSUME NEW q \in Request PROVE (hits[q] \cup parsed[q] \subseteq Key \X (Key \cup {Other}))'
    <3>1. hits[q] \cup parsed[q] \subseteq Key \X (Key \cup {Other})
      BY DEF TypeOK
    <3>2. \A k \in Found(r, position) : <<k, cache[k]>> \in Key \X (Key \cup {Other})
      BY <1>4 DEF TypeOK
    <3>3. hits'[q] \subseteq hits[q] \cup {<<k, cache[k]>> : k \in Found(r, position)}
      BY <1>2
    <3> QED BY <1>3, <3>1, <3>2, <3>3
  <2>4. disturbed' \subseteq Request
    BY <1>2 DEF TypeOK, Using
  <2>5. \A q \in Request : \A b \in batches[q] \cup items[q] :
          b.info \in DOMAIN fetch_info_vec /\ b.start \in Nat /\ b.keys \in Seq(Key)
    BY DEF TypeOK
  <2>6. \A q \in Request : \A b \in batches'[q] \cup items'[q] :
          b.info \in DOMAIN fetch_info_vec' /\ b.start \in Nat /\ b.keys \in Seq(Key)
    BY <1>1, <1>3, <2>5
  <2>7. /\ wanted' \in Wanteds /\ enable_multi_get' \in BOOLEAN
        /\ cache' \in [Key -> Key \cup {Other, NoEntry}]
        /\ stage' \in [Request -> {"new", "make_up", "sent", "merge", "done", "stuck"}]
        /\ failed' \subseteq Request
    BY <1>3 DEF TypeOK
  <2> QED BY <2>1, <2>2, <2>3, <2>4, <2>6, <2>7 DEF TypeOK
<1>10. StagesInv' /\ DomainsInv'
  BY <1>2, <1>3 DEF StagesInv, DomainsInv
<1>11. ConfiguredInv'
  BY <1>1 DEF ConfiguredInv
<1>12. SplitInv'
  <2>1. ASSUME NEW f \in 1..(position' - 1), Conf(f)'.client
        PROVE  OneSlot(fetch_info_vec'[f].keys)
    <3>1. f \in DOMAIN fetch_info_vec
      BY <1>1, <1>2, <1>6
    <3>2. CASE f = position
      BY <1>1, <1>5, <1>7, <1>8, <2>1, <3>1, <3>2
    <3>3. CASE f # position
      <4>1. f \in 1..(position - 1)
        BY <1>2, <1>6, <3>3
      <4> QED BY <1>1, <1>2, <1>7, <2>1, <3>1, <3>3, <4>1 DEF SplitInv
    <3> QED BY <3>2, <3>3
  <2>2. ASSUME NEW i \in DOMAIN added', Configured[added'[i].conf].client
        PROVE  OneSlot(added'[i].keys)
    BY <1>1, <1>2, <1>5, <2>2 DEF SplitInv, Conf
  <2>3. \A ks : OneSlot(ks)' <=> OneSlot(ks)
    BY DEF OneSlot
  <2> QED BY <2>1, <2>2, <2>3 DEF SplitInv
<1>13. BatchesInv' /\ ItemsInv'
  BY <1>3 DEF BatchesInv, ItemsInv, OneSlot
<1>14. PlacesInv'
  <2> SUFFICES ASSUME NEW q \in Request \ disturbed', NEW b \in batches'[q] \cup items'[q]
               PROVE  InPlace(b)'
    BY DEF PlacesInv
  <2>1. q \notin disturbed /\ b \in batches[q] \cup items[q] /\ b.info # position
    BY <1>2, <1>3 DEF Using
  <2>2. InPlace(b)
    BY <2>1 DEF PlacesInv
  <2>3. b.info \in DOMAIN fetch_info_vec
    BY <2>1 DEF TypeOK
  <2>4. fetch_info_vec'[b.info] = fetch_info_vec[b.info]
    BY <1>1, <2>1, <2>3
  <2> QED BY <2>2, <2>4 DEF InPlace
<1>15. DueInv'
  <2> SUFFICES ASSUME NEW q \in Request \ (failed' \cup disturbed'),
                      NEW c \in DOMAIN Configured, Configured[c].client,
                      NEW k \in ToSet(wanted'[q][c])
               PROVE  Due(q, c, k)'
    BY DEF DueInv
  <2>1. Due(q, c, k) /\ k \in ToSet(wanted[q][c])
    BY <1>2, <1>3 DEF DueInv
  <2>2. hits[q] \subseteq hits'[q] /\ (q = r => \A x \in Found(r, position) : <<x, cache[x]>> \in hits'[q])
    BY <1>2 DEF DomainsInv
  <2>3. CASE stage[q] = "make_up" /\ ToBeSent(c, k)
    <3>1. q = r
      BY <1>2, <2>3 DEF StagesInv
    <3>2. CASE c = position
      <4>1. fetch_info_vec[position].conf = c
        BY <3>2 DEF ConfiguredInv
      <4>2. CASE k \in Found(r, position)
        <5>1. <<k, cache[k]>> \in hits'[q] /\ <<k, cache[k]>>[1] = k
          BY <2>2, <3>1, <4>2
        <5> QED BY <5>1 DEF Due
      <4>3. CASE k \in ToSet(Missed(r, position))
        <5>1. PICK i \in DOMAIN groups : k \in ToSet(groups[i])
          BY <1>5, <4>3
        <5>2. ToBeSent(c, k)'
          <6>1. CASE i = 1
            <7>1. PICK f : f = position
              OBVIOUS
            <7>2. f \in 1..(position' - 1) /\ f \in DOMAIN fetch_info_vec
              BY <1>1, <1>2, <1>6, <7>1
            <7>3. Conf(f)' = Configured[c]
              BY <1>7, <4>1, <7>1, <7>2 DEF Conf
            <7>4. k \in ToSet(fetch_info_vec'[f].keys)
              BY <1>1, <5>1, <6>1, <7>1
            <7> QED BY <7>2, <7>3, <7>4 DEF ToBeSent
          <6>2. CASE i # 1
            <7>1. PICK j \in DOMAIN added' : added'[j].conf = c /\ added'[j].keys = groups[i]
              BY <1>1, <4>1, <6>2
            <7> QED BY <5>1, <7>1 DEF ToBeSent
          <6> QED BY <6>1, <6>2
        <5> QED BY <1>3, <2>3, <5>2 DEF Due
      <4> QED BY <1>4, <2>1, <3>1, <4>1, <4>2, <4>3
    <3>3. CASE c # position
      <4>1. ToBeSent(c, k)'
        <5>1. CASE c >= position
          <6>1. c \in 1..Len(Configured)
            BY RedisKeysAssumption DEF ConfType
          <6> QED BY <1>2, <1>6, <3>3, <5>1, <6>1 DEF ToBeSent
        <5>2. CASE \E f \in 1..(position - 1) : Conf(f).client /\ k \in ToSet(fetch_info_vec[f].keys)
          <6>1. PICK f \in 1..(position - 1) : Conf(f).client /\ k \in ToSet(fetch_info_vec[f].keys)
            BY <5>2
          <6>2. f \in 1..(position' - 1) /\ f \in DOMAIN fetch_info_vec /\ f # position
            BY <1>1, <1>2, <1>6
          <6>3. Conf(f)' = Conf(f) /\ fetch_info_vec'[f] = fetch_info_vec[f]
            BY <1>1, <1>7, <6>2
          <6> QED BY <6>1, <6>2, <6>3 DEF ToBeSent
        <5>3. CASE \E i \in DOMAIN added : Configured[added[i].conf].client /\ k \in ToSet(added[i].keys)
          BY <1>1, <5>3 DEF ToBeSent
        <5> QED BY <2>3, <5>1, <5>2, <5>3 DEF ToBeSent
      <4> QED BY <1>3, <2>3, <4>1 DEF Due
    <3> QED BY <3>2, <3>3
  <2>4. CASE ~(stage[q] = "make_up" /\ ToBeSent(c, k))
    BY <1>3, <2>1, <2>2, <2>4 DEF Due
  <2> QED BY <2>3, <2>4
<1>16. UndisturbedIsTrue'
  BY <1>2, <1>3 DEF UndisturbedIsTrue
<1>17. StuckOnlyIfDisturbed'
  BY <1>2, <1>3 DEF StuckOnlyIfDisturbed
<1> QED
  BY <1>9, <1>10, <1>11, <1>12, <1>13, <1>14, <1>15, <1>16, <1>17

\* Send.  The vector of fetch_infos grows, and the batches hold what it holds.
LEMMA SendVec ==
  ASSUME TypeOK, NEW r \in Request, Send(r)
  PROVE  /\ fetch_info_vec' \in Vec /\ Len(fetch_info_vec') \in Nat
         /\ Len(fetch_info_vec) <= Len(fetch_info_vec')
         /\ \A f \in DOMAIN fetch_info_vec :
              f \in DOMAIN fetch_info_vec' /\ fetch_info_vec'[f] = fetch_info_vec[f]
         /\ \A f \in DOMAIN fetch_info_vec' :
              \/ f \in DOMAIN fetch_info_vec /\ fetch_info_vec'[f] = fetch_info_vec[f]
              \/ \E i \in DOMAIN added : fetch_info_vec'[f] = added[i]
         /\ \A i \in DOMAIN added :
              \E f \in DOMAIN fetch_info_vec' : fetch_info_vec'[f] = added[i]
<1>1. fetch_info_vec \in Seq(FetchInfo) /\ added \in Seq(FetchInfo)
  BY Typed DEF Vec
<1>2. PICK v, a, w : v = fetch_info_vec /\ a = added /\ w = v \o a
  OBVIOUS
<1>3. v \in Seq(FetchInfo) /\ a \in Seq(FetchInfo)
  BY <1>1, <1>2
<1>4. /\ w \in Seq(FetchInfo) /\ Len(w) = Len(v) + Len(a)
      /\ \A i \in 1..Len(v) : w[i] = v[i]
      /\ \A i \in 1..Len(a) : w[Len(v) + i] = a[i]
  BY <1>2, <1>3, Joined
<1>5. /\ DOMAIN v = 1..Len(v) /\ Len(v) \in Nat /\ DOMAIN a = 1..Len(a) /\ Len(a) \in Nat
      /\ DOMAIN w = 1..(Len(v) + Len(a)) /\ Len(w) \in Nat
  BY <1>3, <1>4
<1>6. \A f \in DOMAIN v : f \in DOMAIN w /\ w[f] = v[f]
  BY <1>4, <1>5
<1>7. ASSUME NEW f \in DOMAIN w, f \notin DOMAIN v
      PROVE  \E i \in DOMAIN a : w[f] = a[i]
  <2>1. f - Len(v) \in DOMAIN a /\ Len(v) + (f - Len(v)) = f
    BY <1>5, <1>7
  <2> QED BY <1>4, <1>5, <2>1
<1>8. ASSUME NEW i \in DOMAIN a PROVE \E f \in DOMAIN w : w[f] = a[i]
  BY <1>4, <1>5
<1>9. Len(v) <= Len(w)
  BY <1>4, <1>5
<1>10. fetch_info_vec' = w
  BY <1>2 DEF Send
<1>11. \A f \in DOMAIN w : (f \in DOMAIN v /\ w[f] = v[f]) \/ \E i \in DOMAIN a : w[f] = a[i]
  BY <1>6, <1>7
<1>12. w \in Vec
  BY <1>4 DEF Vec
<1> QED
  BY <1>2, <1>5, <1>6, <1>8, <1>9, <1>10, <1>11, <1>12

LEMMA SendKept ==
  ASSUME KeysInv, NEW r \in Request, Send(r)
  PROVE  KeysInv'
<1> USE DEF KeysInv
<1>1. /\ fetch_info_vec' \in Vec /\ Len(fetch_info_vec') \in Nat
      /\ Len(fetch_info_vec) <= Len(fetch_info_vec')
      /\ \A f \in DOMAIN fetch_info_vec :
           f \in DOMAIN fetch_info_vec' /\ fetch_info_vec'[f] = fetch_info_vec[f]
      /\ \A f \in DOMAIN fetch_info_vec' :
           \/ f \in DOMAIN fetch_info_vec /\ fetch_info_vec'[f] = fetch_info_vec[f]
           \/ \E i \in DOMAIN added : fetch_info_vec'[f] = added[i]
      /\ \A i \in DOMAIN added :
           \E f \in DOMAIN fetch_info_vec' : fetch_info_vec'[f] = added[i]
  BY SendVec
<1>2. PICK all : /\ all = UNION {BatchesOf(fetch_info_vec', f) : f \in DOMAIN fetch_info_vec'}
                 /\ batches' = [batches EXCEPT ![r] = all]
                 /\ stage' = [stage EXCEPT ![r] = IF all = {} THEN "merge" ELSE "sent"]
  BY DEF Send
<1>3. /\ stage[r] = "make_up" /\ position > Len(fetch_info_vec) /\ added' = <<>>
      /\ UNCHANGED <<wanted, enable_multi_get, position, hits, cache, items, parsed,
                     failed, disturbed>>
  BY DEF Send
<1>4. /\ position \in Nat \ {0} /\ position <= Len(fetch_info_vec) + 1
      /\ DOMAIN fetch_info_vec = 1..Len(fetch_info_vec) /\ Len(fetch_info_vec) \in Nat
      /\ enable_multi_get \in BOOLEAN
  BY Typed
<1>5. /\ batches'[r] = all /\ \A q \in Request : q # r => batches'[q] = batches[q]
      /\ stage'[r] \in {"merge", "sent"} /\ (all # {} => stage'[r] = "sent")
      /\ \A q \in Request : q # r => stage'[q] = stage[q] /\ stage[q] # "make_up"
  <2>1. stage \in [Request -> {"new", "make_up", "sent", "merge", "done", "stuck"}]
    BY DEF TypeOK
  <2> QED BY <1>2, <1>3, <2>1 DEF DomainsInv, StagesInv
<1>6. ASSUME NEW b \in all
      PROVE  /\ b.info \in DOMAIN fetch_info_vec' /\ b.start \in Nat /\ b.keys \in Seq(Key)
             /\ b.keys # <<>> /\ OneSlot(b.keys) /\ InPlace(b)'
  <2>1. PICK f \in DOMAIN fetch_info_vec' : b \in BatchesOf(fetch_info_vec', f)
    BY <1>2
  <2>2. PICK v : v = fetch_info_vec'
    OBVIOUS
  <2>3. /\ b.info = f /\ b.start \in Nat /\ b.keys \in Seq(Key) /\ b.keys # <<>>
        /\ \A i \in DOMAIN b.keys :
             b.start + i \in DOMAIN v[f].keys /\ v[f].keys[b.start + i] = b.keys[i]
        /\ Configured[v[f].conf].client
    BY <1>1, <1>4, <2>1, <2>2, BatchesCover
  <2>4. ToSet(b.keys) \subseteq ToSet(v[f].keys)
    BY <2>3 DEF ToSet
  <2>5. OneSlot(v[f].keys)
    <3>1. CASE f \in DOMAIN fetch_info_vec /\ v[f] = fetch_info_vec[f]
      <4>1. f \in 1..(position - 1)
        BY <1>3, <1>4, <3>1
      <4> QED BY <1>3, <2>3, <3>1, <4>1 DEF SplitInv, Conf
    <3>2. CASE \E i \in DOMAIN added : v[f] = added[i]
      BY <1>3, <2>3, <3>2 DEF SplitInv
    <3> QED BY <1>1, <2>2, <3>1, <3>2
  <2>6. OneSlot(b.keys)
    BY <2>4, <2>5 DEF OneSlot
  <2>7. InPlace(b)'
    BY <2>2, <2>3 DEF InPlace
  <2> QED BY <2>1, <2>3, <2>6, <2>7
<1>7. items[r] = {}
  BY <1>3 DEF StagesInv
<1>8. TypeOK'
  <2>1. position' \in 1..(Len(fetch_info_vec') + 1)
    BY <1>1, <1>3, <1>4
  <2>2. /\ fetch_info_vec' \in Seq([conf : DOMAIN Configured, keys : Seq(Key)])
        /\ added' \in Seq([conf : DOMAIN Configured, keys : Seq(Key)])
    BY <1>1, <1>3 DEF Vec, FetchInfo
  <2>3. \A q \in Request : \A b \in batches'[q] \cup items'[q] :
          b.info \in DOMAIN fetch_info_vec' /\ b.start \in Nat /\ b.keys \in Seq(Key)
    <3>1. \A q \in Request : \A b \in batches[q] \cup items[q] :
            b.info \in DOMAIN fetch_info_vec /\ b.start \in Nat /\ b.keys \in Seq(Key)
      BY DEF TypeOK
    <3>2. \A q \in Request : \A b \in batches'[q] \cup items'[q] :
            b \in all \/ b \in batches[q] \cup items[q]
      BY <1>3, <1>5
    <3> QED BY <1>1, <1>6, <3>1, <3>2
  <2>4. stage' \in [Request -> {"new", "make_up", "sent", "merge", "done", "stuck"}]
    BY <1>2 DEF TypeOK
  <2>5. /\ wanted' \in Wanteds /\ enable_multi_get' \in BOOLEAN
        /\ cache' \in [Key -> Key \cup {Other, NoEntry}]
        /\ \A q \in Request : (hits[q] \cup parsed[q] \subseteq Key \X (Key \cup {Other}))'
        /\ failed' \subseteq Request /\ disturbed' \subseteq Request
    BY <1>3 DEF TypeOK
  <2> QED BY <2>1, <2>2, <2>3, <2>4, <2>5 DEF TypeOK
<1>9. DomainsInv'
  BY <1>2, <1>3 DEF DomainsInv
<1>10. StagesInv'
  BY <1>3, <1>5, <1>7 DEF StagesInv
<1>11. ConfiguredInv'
  BY <1>1 DEF ConfiguredInv
<1>12. SplitInv'
  BY <1>5 DEF SplitInv
<1>13. BatchesInv'
  <2>1. ASSUME NEW q \in Request, NEW b \in batches'[q] PROVE b.keys # <<>> /\ OneSlot(b.keys)
    BY <1>5, <1>6 DEF BatchesInv
  <2>2. \A ks : OneSlot(ks)' <=> OneSlot(ks)
    BY DEF OneSlot
  <2> QED BY <2>1, <2>2 DEF BatchesInv
<1>14. ItemsInv'
  BY <1>3 DEF ItemsInv
<1>15. PlacesInv'
  <2> SUFFICES ASSUME NEW q \in Request \ disturbed', NEW b \in batches'[q] \cup items'[q]
               PROVE  InPlace(b)'
    BY DEF PlacesInv
  <2>1. CASE b \in all
    BY <1>6, <2>1
  <2>2. CASE b \notin all
    <3>1. q \notin disturbed /\ b \in batches[q] \cup items[q]
      BY <1>3, <1>5, <2>2
    <3>2. InPlace(b) /\ b.info \in DOMAIN fetch_info_vec
      BY <3>1 DEF PlacesInv, TypeOK
    <3>3. fetch_info_vec'[b.info] = fetch_info_vec[b.info]
      BY <1>1, <3>2
    <3> QED BY <3>2, <3>3 DEF InPlace
  <2> QED BY <2>1, <2>2
<1>16. DueInv'
  <2> SUFFICES ASSUME NEW q \in Request \ (failed' \cup disturbed'),
                      NEW c \in DOMAIN Configured, Configured[c].client,
                      NEW k \in ToSet(wanted'[q][c])
               PROVE  Due(q, c, k)'
    BY DEF DueInv
  <2>1. Due(q, c, k)
    BY <1>3 DEF DueInv
  <2>2. CASE q = r /\ ToBeSent(c, k)
    <3>1. PICK v : v = fetch_info_vec'
      OBVIOUS
    <3>2. PICK f \in DOMAIN v : Configured[v[f].conf].client /\ k \in ToSet(v[f].keys)
      <4>1. CASE c >= position
        <5>1. c \in 1..Len(fetch_info_vec)
          BY <1>4 DEF ConfiguredInv
        <5> QED BY <1>3, <1>4, <4>1, <5>1
      <4>2. CASE \E f \in 1..(position - 1) : Conf(f).client /\ k \in ToSet(fetch_info_vec[f].keys)
        <5>1. PICK f \in 1..(position - 1) : Conf(f).client /\ k \in ToSet(fetch_info_vec[f].keys)
          BY <4>2
        <5>2. f \in DOMAIN fetch_info_vec
          BY <1>4
        <5> QED BY <1>1, <3>1, <5>1, <5>2 DEF Conf
      <4>3. CASE \E i \in DOMAIN added : Configured[added[i].conf].client /\ k \in ToSet(added[i].keys)
        BY <1>1, <3>1, <4>3
      <4> QED BY <2>2, <4>1, <4>2, <4>3 DEF ToBeSent
    <3>3. PICK b \in BatchesOf(v, f) : k \in ToSet(b.keys)
      <4>1. v \in Vec
        BY <1>1, <3>1
      <4>2. Configured[v[f].conf].client =>
              \A x \in ToSet(v[f].keys) : \E b \in BatchesOf(v, f) : x \in ToSet(b.keys)
        <5>1. enable_multi_get \in BOOLEAN
          BY <1>4
        <5> QED BY <4>1, <5>1, BatchesCover
      <4> QED BY <3>2, <4>2
    <3>4. b \in batches'[q]
      BY <1>2, <1>5, <2>2, <3>1, <3>3
    <3> QED BY <3>3, <3>4 DEF Due
  <2>3. CASE q = r /\ ~ToBeSent(c, k)
    <3>1. batches[q] = {} /\ stage[q] # "new"
      BY <1>3, <2>3 DEF StagesInv
    <3> QED BY <1>3, <2>1, <2>3, <3>1 DEF Due
  <2>4. CASE q # r
    <3>1. stage'[q] = stage[q] /\ stage[q] # "make_up" /\ batches'[q] = batches[q]
      BY <1>5, <2>4
    <3> QED BY <1>3, <2>1, <3>1 DEF Due
  <2> QED BY <2>2, <2>3, <2>4
<1>17. UndisturbedIsTrue'
  BY <1>3 DEF UndisturbedIsTrue
<1>18. StuckOnlyIfDisturbed'
  BY <1>3, <1>5 DEF StuckOnlyIfDisturbed
<1> QED
  BY <1>8, <1>9, <1>10, <1>11, <1>12, <1>13, <1>14, <1>15, <1>16, <1>17, <1>18

(***************************************************************************)
(* Answer and Merge.  A batch whose keys are in their places is parsed and *)
(* cached under them, and keys.at does not throw.                          *)
(***************************************************************************)
LEMMA InPlacePairs ==
  ASSUME NEW b, InPlace(b), b.info \in DOMAIN fetch_info_vec,
         fetch_info_vec[b.info].keys \in Seq(Key), b.start \in Nat, b.keys \in Seq(Key),
         NEW values
  PROVE  /\ Places(b) = DOMAIN b.keys
         /\ Pairs(b, values) = {<<b.keys[i], values[i]>> : i \in DOMAIN b.keys}
<1>1. \A i \in DOMAIN b.keys : i \in Nat \ {0}
  OBVIOUS
<1>2. Places(b) = DOMAIN b.keys
  <2>1. \A i \in DOMAIN b.keys : b.start + i <= Len(fetch_info_vec[b.info].keys)
    BY <1>1 DEF InPlace
  <2> QED BY <2>1 DEF Places
<1>3. \A i \in DOMAIN b.keys : fetch_info_vec[b.info].keys[b.start + i] = b.keys[i]
  BY DEF InPlace
<1> QED BY <1>2, <1>3 DEF Pairs

LEMMA PairsTyped ==
  ASSUME NEW b, b.info \in DOMAIN fetch_info_vec, fetch_info_vec[b.info].keys \in Seq(Key),
         b.start \in Nat, b.keys \in Seq(Key),
         NEW values \in [DOMAIN b.keys -> Key \cup {Other}]
  PROVE  Pairs(b, values) \subseteq Key \X (Key \cup {Other})
<1> SUFFICES ASSUME NEW i \in Places(b)
             PROVE  <<fetch_info_vec[b.info].keys[b.start + i], values[i]>>
                      \in Key \X (Key \cup {Other})
  BY DEF Pairs
<1>1. i \in DOMAIN b.keys /\ b.start + i <= Len(fetch_info_vec[b.info].keys)
  BY DEF Places
<1>2. i \in Nat \ {0}
  BY <1>1
<1>3. b.start + i \in 1..Len(fetch_info_vec[b.info].keys)
  BY <1>1, <1>2
<1> QED BY <1>1, <1>3

LEMMA RepliesTyped ==
  ASSUME NEW ks \in Seq(Key), NEW values \in Replies(ks), enable_multi_get \in BOOLEAN
  PROVE  /\ values \in [DOMAIN ks -> Key \cup {Other}]
         /\ ~enable_multi_get => values = ks
<1>1. ToSet(ks) \subseteq Key
  BY DEF ToSet
<1>2. ks \in [DOMAIN ks -> Key \cup {Other}]
  OBVIOUS
<1>3. CASE enable_multi_get
  <2>1. values \in [DOMAIN ks -> ToSet(ks) \cup {Other}]
    BY <1>3 DEF Replies
  <2> QED BY <1>1, <1>3, <2>1
<1>4. CASE ~enable_multi_get
  BY <1>2, <1>4 DEF Replies
<1> QED BY <1>3, <1>4

LEMMA AnswerKept ==
  ASSUME KeysInv, NEW r \in Request, NEW b \in batches[r], Answer(r, b)
  PROVE  KeysInv'
<1> USE DEF KeysInv
<1>1. /\ stage[r] = "sent"
      /\ batches' = [batches EXCEPT ![r] = @ \ {b}]
      /\ stage' = [stage EXCEPT ![r] = IF batches[r] = {b} THEN "merge" ELSE "sent"]
      /\ UNCHANGED <<wanted, enable_multi_get, fetch_info_vec, position, added, hits,
                     cache, disturbed>>
  BY DEF Answer, making
<1>2. /\ b.info \in DOMAIN fetch_info_vec /\ b.start \in Nat /\ b.keys \in Seq(Key)
      /\ fetch_info_vec[b.info].keys \in Seq(Key) /\ enable_multi_get \in BOOLEAN
  <2>1. b.info \in DOMAIN fetch_info_vec /\ b.start \in Nat /\ b.keys \in Seq(Key)
    BY DEF TypeOK
  <2> QED BY <2>1, Typed DEF FetchInfo
\* Either nothing but failed changes, or an item is stored and its pairs parsed.
<1> DEFINE item(values) == [info |-> b.info, start |-> b.start, keys |-> b.keys,
                            values |-> values]
<1>3. \/ \E values \in Replies(b.keys) :
           /\ items' = [items EXCEPT ![r] = @ \cup {item(values)}]
           /\ parsed' = [parsed EXCEPT ![r] = @ \cup Pairs(b, values)]
           /\ failed' = failed
      \/ failed' = failed \cup {r} /\ items' = items /\ parsed' = parsed
  BY DEF Answer
<1>4. PICK values, it :
        /\ values \in [DOMAIN b.keys -> Key \cup {Other}]
        /\ ~enable_multi_get => values = b.keys
        /\ it = item(values)
        /\ \/ /\ items' = [items EXCEPT ![r] = @ \cup {it}]
              /\ parsed' = [parsed EXCEPT ![r] = @ \cup Pairs(b, values)]
              /\ failed' = failed
           \/ failed' = failed \cup {r} /\ items' = items /\ parsed' = parsed
  <2>1. CASE \E values \in Replies(b.keys) :
               /\ items' = [items EXCEPT ![r] = @ \cup {item(values)}]
               /\ parsed' = [parsed EXCEPT ![r] = @ \cup Pairs(b, values)]
               /\ failed' = failed
    <3>1. PICK values \in Replies(b.keys) :
            /\ items' = [items EXCEPT ![r] = @ \cup {item(values)}]
            /\ parsed' = [parsed EXCEPT ![r] = @ \cup Pairs(b, values)]
            /\ failed' = failed
      BY <2>1
    <3>2. values \in [DOMAIN b.keys -> Key \cup {Other}] /\ (~enable_multi_get => values = b.keys)
      BY <1>2, RepliesTyped
    <3> HIDE DEF item
    <3> QED BY <3>1, <3>2
  <2>2. CASE failed' = failed \cup {r} /\ items' = items /\ parsed' = parsed
    <3>1. b.keys \in [DOMAIN b.keys -> Key \cup {Other}]
      BY <1>2
    <3> HIDE DEF item
    <3> QED BY <2>2, <3>1
  <2> QED BY <1>3, <2>1, <2>2
<1>5. it.info = b.info /\ it.start = b.start /\ it.keys = b.keys /\ it.values = values
  BY <1>4
<1> HIDE DEF item
<1>6. \A q \in Request : /\ q # r => stage'[q] = stage[q] /\ batches'[q] = batches[q]
                         /\ q # r => items'[q] = items[q] /\ parsed'[q] = parsed[q]
                         /\ batches'[q] \subseteq batches[q]
                         /\ items'[q] \subseteq items[q] \cup {it}
  BY <1>1, <1>4 DEF DomainsInv
<1>7. /\ stage'[r] \in {"merge", "sent"} /\ (batches'[r] # {} => stage'[r] = "sent")
      /\ batches'[r] = batches[r] \ {b}
  <2>1. stage \in [Request -> {"new", "make_up", "sent", "merge", "done", "stuck"}]
    BY DEF TypeOK
  <2> QED BY <1>1, <2>1 DEF DomainsInv
<1>8. Pairs(b, values) \subseteq Key \X (Key \cup {Other})
  BY <1>2, <1>4, PairsTyped
<1>9. TypeOK'
  <2>1. ASSUME NEW q \in Request
        PROVE  /\ (hits[q] \cup parsed[q] \subseteq Key \X (Key \cup {Other}))'
               /\ \A d \in batches'[q] \cup items'[q] :
                    d.info \in DOMAIN fetch_info_vec' /\ d.start \in Nat /\ d.keys \in Seq(Key)
    <3>1. /\ hits[q] \cup parsed[q] \subseteq Key \X (Key \cup {Other})
          /\ \A d \in batches[q] \cup items[q] :
               d.info \in DOMAIN fetch_info_vec /\ d.start \in Nat /\ d.keys \in Seq(Key)
      BY DEF TypeOK
    <3>2. \A d \in batches'[q] \cup items'[q] : d = it \/ d \in batches[q] \cup items[q]
      BY <1>6
    <3>3. parsed'[q] \subseteq parsed[q] \cup Pairs(b, values)
      BY <1>4 DEF DomainsInv
    <3> QED BY <1>1, <1>2, <1>5, <1>8, <3>1, <3>2, <3>3
  <2>2. stage' \in [Request -> {"new", "make_up", "sent", "merge", "done", "stuck"}]
    BY <1>1 DEF TypeOK
  <2>3. failed' \subseteq Request
    BY <1>4 DEF TypeOK
  <2>4. /\ wanted' \in Wanteds /\ enable_multi_get' \in BOOLEAN
        /\ fetch_info_vec' \in Seq([conf : DOMAIN Configured, keys : Seq(Key)])
        /\ added' \in Seq([conf : DOMAIN Configured, keys : Seq(Key)])
        /\ cache' \in [Key -> Key \cup {Other, NoEntry}]
        /\ position' \in 1..(Len(fetch_info_vec') + 1)
        /\ disturbed' \subseteq Request
    BY <1>1 DEF TypeOK
  <2> QED BY <2>1, <2>2, <2>3, <2>4 DEF TypeOK
<1>10. DomainsInv'
  BY <1>1, <1>4 DEF DomainsInv
<1>11. StagesInv'
  BY <1>1, <1>6, <1>7 DEF StagesInv
<1>12. ConfiguredInv'
  BY <1>1 DEF ConfiguredInv
<1>13. SplitInv'
  <2>1. (\E q \in Request : stage'[q] = "make_up") => \E q \in Request : stage[q] = "make_up"
    BY <1>6, <1>7
  <2>2. fetch_info_vec' = fetch_info_vec /\ position' = position /\ added' = added
    BY <1>1
  <2> QED BY <2>1, <2>2 DEF SplitInv, Conf, OneSlot
<1>14. BatchesInv'
  BY <1>6 DEF BatchesInv, OneSlot
<1>15. ItemsInv'
  <2> SUFFICES ASSUME NEW q \in Request, NEW d \in items'[q]
               PROVE  /\ d.values \in [DOMAIN d.keys -> Key \cup {Other}]
                      /\ ~enable_multi_get => d.values = d.keys
    BY <1>1 DEF ItemsInv
  <2>1. CASE d = it
    BY <1>4, <1>5, <2>1
  <2>2. CASE d # it
    BY <1>6, <2>2 DEF ItemsInv
  <2> QED BY <2>1, <2>2
<1>16. PlacesInv'
  <2> SUFFICES ASSUME NEW q \in Request \ disturbed', NEW d \in batches'[q] \cup items'[q]
               PROVE  InPlace(d)'
    BY DEF PlacesInv
  <2>1. q \notin disturbed
    BY <1>1
  <2>2. InPlace(d)
    <3>1. CASE d \in batches[q] \cup items[q]
      BY <2>1, <3>1 DEF PlacesInv
    <3>2. CASE d \notin batches[q] \cup items[q]
      <4>1. d = it /\ q = r
        BY <1>6, <3>2
      <4>2. InPlace(b)
        BY <2>1, <4>1 DEF PlacesInv
      <4> QED BY <1>5, <4>1, <4>2 DEF InPlace
    <3> QED BY <3>1, <3>2
  <2> QED BY <1>1, <2>2 DEF InPlace
<1>17. DueInv'
  <2> SUFFICES ASSUME NEW q \in Request \ (failed' \cup disturbed'),
                      NEW c \in DOMAIN Configured, Configured[c].client,
                      NEW k \in ToSet(wanted'[q][c])
               PROVE  Due(q, c, k)'
    BY DEF DueInv
  <2>1. Due(q, c, k) /\ q \notin disturbed
    BY <1>1, <1>4 DEF DueInv
  <2>2. CASE q = r
    <3>1. parsed'[r] = parsed[r] \cup Pairs(b, values)
      BY <1>4, <2>2 DEF DomainsInv
    <3>2. Pairs(b, values) = {<<b.keys[i], values[i]>> : i \in DOMAIN b.keys}
      <4>1. InPlace(b)
        BY <2>1, <2>2 DEF PlacesInv
      <4> QED BY <1>2, <4>1, InPlacePairs
    <3>3. CASE k \in ToSet(b.keys)
      <4>1. PICK i \in DOMAIN b.keys : k = b.keys[i]
        BY <3>3 DEF ToSet
      <4>2. <<k, values[i]>> \in parsed'[q] /\ <<k, values[i]>>[1] = k
        BY <2>2, <3>1, <3>2, <4>1
      <4> QED BY <4>2 DEF Due
    <3>4. CASE k \notin ToSet(b.keys)
      <4>1. \/ \E d \in batches[q] : k \in ToSet(d.keys)
            \/ \E p \in hits[q] \cup parsed[q] : p[1] = k
        BY <1>1, <2>1, <2>2 DEF Due
      <4> QED BY <1>1, <1>7, <2>2, <3>1, <3>4, <4>1 DEF Due
    <3> QED BY <3>3, <3>4
  <2>3. CASE q # r
    <3>1. stage'[q] = stage[q] /\ batches'[q] = batches[q] /\ parsed'[q] = parsed[q]
      BY <1>6, <2>3
    <3>2. ToBeSent(c, k)' <=> ToBeSent(c, k)
      BY <1>1 DEF ToBeSent, Conf
    <3> QED BY <1>1, <2>1, <3>1, <3>2 DEF Due
  <2> QED BY <2>2, <2>3
<1>18. UndisturbedIsTrue'
  <2>1. ASSUME ~enable_multi_get, NEW q \in Request \ disturbed, NEW p \in parsed'[q]
        PROVE  p[1] = p[2]
    <3>1. CASE p \in parsed[q]
      BY <2>1, <3>1 DEF UndisturbedIsTrue
    <3>2. CASE p \notin parsed[q]
      <4>1. q = r /\ p \in Pairs(b, values)
        BY <1>4, <3>2 DEF DomainsInv
      <4>2. InPlace(b)
        BY <4>1 DEF PlacesInv
      <4>3. p \in {<<b.keys[i], values[i]>> : i \in DOMAIN b.keys}
        BY <1>2, <4>1, <4>2, InPlacePairs
      <4> QED BY <1>4, <2>1, <4>3
    <3> QED BY <3>1, <3>2
  <2> QED BY <1>1, <2>1 DEF UndisturbedIsTrue
<1>19. StuckOnlyIfDisturbed'
  BY <1>1, <1>6, <1>7 DEF StuckOnlyIfDisturbed
<1> QED
  BY <1>9, <1>10, <1>11, <1>12, <1>13, <1>14, <1>15, <1>16, <1>17, <1>18, <1>19

LEMMA MergeKept ==
  ASSUME KeysInv, NEW r \in Request, Merge(r)
  PROVE  KeysInv'
<1> USE DEF KeysInv
<1> DEFINE cached == {b \in items[r] : Conf(b.info).use_cache}
           throws == \E b \in cached : Places(b) # DOMAIN b.keys
<1>1. PICK written, after :
        /\ written = UNION {Pairs(b, b.values) : b \in cached}
        /\ after = IF throws THEN "stuck" ELSE "done"
        /\ cache' \in [Key -> Key \cup {Other, NoEntry}]
        /\ \A k \in Key : <<k, cache'[k]>> \in written \/ cache'[k] = cache[k]
        /\ stage' = [stage EXCEPT ![r] = after]
  <2>1. PICK written : written = UNION {Pairs(b, b.values) : b \in cached}
    OBVIOUS
  <2>2. cache' \in {c \in [Key -> Key \cup {Other, NoEntry}] :
                      \A k \in Key :
                        \/ <<k, c[k]>> \in written
                        \/ c[k] = cache[k]
                           /\ (throws \/ \A p \in written : p[1] # k)}
    BY <2>1 DEF Merge
  <2>3. stage' = [stage EXCEPT ![r] = IF throws THEN "stuck" ELSE "done"]
    BY DEF Merge
  <2> HIDE DEF throws, cached
  <2>4. \A k \in Key : <<k, cache'[k]>> \in written \/ cache'[k] = cache[k]
    BY <2>2
  <2> QED BY <2>1, <2>2, <2>3, <2>4
<1> HIDE DEF throws
<1>2. /\ stage[r] = "merge" /\ items' = [items EXCEPT ![r] = {}]
      /\ UNCHANGED <<wanted, enable_multi_get, fetch_info_vec, position, added, hits,
                     batches, parsed, failed, disturbed>>
  BY DEF Merge, making
<1>3. /\ \A q \in Request : q # r => stage'[q] = stage[q] /\ items'[q] = items[q]
      /\ items'[r] = {} /\ stage'[r] \in {"stuck", "done"}
      /\ stage'[r] = "stuck" => throws
      /\ \A q \in Request : items'[q] \subseteq items[q]
  <2>1. stage \in [Request -> {"new", "make_up", "sent", "merge", "done", "stuck"}]
    BY DEF TypeOK
  <2> QED BY <1>1, <1>2, <2>1 DEF DomainsInv
<1>4. ASSUME NEW b \in items[r], r \notin disturbed
      PROVE  /\ Places(b) = DOMAIN b.keys
             /\ Pairs(b, b.values) = {<<b.keys[i], b.values[i]>> : i \in DOMAIN b.keys}
  <2>1. InPlace(b)
    BY <1>4 DEF PlacesInv
  <2>2. b.info \in DOMAIN fetch_info_vec /\ b.start \in Nat /\ b.keys \in Seq(Key)
    BY DEF TypeOK
  <2>3. fetch_info_vec[b.info].keys \in Seq(Key)
    BY <2>2, Typed DEF FetchInfo
  <2> QED BY <2>1, <2>2, <2>3, InPlacePairs
<1>5. TypeOK'
  <2>1. stage' \in [Request -> {"new", "make_up", "sent", "merge", "done", "stuck"}]
    BY <1>1 DEF TypeOK
  <2>2. \A q \in Request : \A b \in batches'[q] \cup items'[q] :
          b.info \in DOMAIN fetch_info_vec' /\ b.start \in Nat /\ b.keys \in Seq(Key)
    <3>1. \A q \in Request : \A b \in batches[q] \cup items[q] :
            b.info \in DOMAIN fetch_info_vec /\ b.start \in Nat /\ b.keys \in Seq(Key)
      BY DEF TypeOK
    <3> QED BY <1>2, <1>3, <3>1
  <2>3. \A q \in Request : (hits[q] \cup parsed[q] \subseteq Key \X (Key \cup {Other}))'
    BY <1>2 DEF TypeOK
  <2>4. /\ wanted' \in Wanteds /\ enable_multi_get' \in BOOLEAN
        /\ fetch_info_vec' \in Seq([conf : DOMAIN Configured, keys : Seq(Key)])
        /\ added' \in Seq([conf : DOMAIN Configured, keys : Seq(Key)])
        /\ position' \in 1..(Len(fetch_info_vec') + 1)
        /\ failed' \subseteq Request /\ disturbed' \subseteq Request
    BY <1>2 DEF TypeOK
  <2> QED BY <1>1, <2>1, <2>2, <2>3, <2>4 DEF TypeOK
<1>6. DomainsInv' /\ ConfiguredInv'
  BY <1>2 DEF DomainsInv, ConfiguredInv
<1>7. StagesInv'
  BY <1>2, <1>3 DEF StagesInv
<1>8. SplitInv'
  <2>1. (\E q \in Request : stage'[q] = "make_up") => \E q \in Request : stage[q] = "make_up"
    BY <1>3
  <2>2. fetch_info_vec' = fetch_info_vec /\ position' = position /\ added' = added
    BY <1>2
  <2> QED BY <2>1, <2>2 DEF SplitInv, Conf, OneSlot
<1>9. BatchesInv' /\ ItemsInv'
  BY <1>2, <1>3 DEF BatchesInv, ItemsInv, OneSlot
<1>10. PlacesInv'
  BY <1>2, <1>3 DEF PlacesInv, InPlace
<1>11. DueInv'
  <2> SUFFICES ASSUME NEW q \in Request \ (failed' \cup disturbed'),
                      NEW c \in DOMAIN Configured, Configured[c].client,
                      NEW k \in ToSet(wanted'[q][c])
               PROVE  Due(q, c, k)'
    BY DEF DueInv
  <2>1. Due(q, c, k)
    BY <1>2 DEF DueInv
  <2>2. ToBeSent(c, k)' <=> ToBeSent(c, k)
    BY <1>2 DEF ToBeSent, Conf
  <2>3. q # r => stage'[q] = stage[q]
    BY <1>3
  <2> QED BY <1>2, <2>1, <2>2, <2>3 DEF Due
<1>12. UndisturbedIsTrue'
  <2>1. ASSUME ~enable_multi_get, disturbed = {}, NEW k \in Key
        PROVE  cache'[k] \in {k, NoEntry}
    <3>1. cache[k] \in {k, NoEntry}
      BY <2>1 DEF UndisturbedIsTrue
    <3>2. CASE <<k, cache'[k]>> \in written
      <4>1. PICK b \in items[r] : <<k, cache'[k]>> \in Pairs(b, b.values)
        BY <1>1, <3>2
      <4>2. PICK i \in DOMAIN b.keys : <<k, cache'[k]>> = <<b.keys[i], b.values[i]>>
        BY <1>4, <2>1, <4>1
      <4>3. b.values = b.keys
        BY <2>1 DEF ItemsInv
      <4> QED BY <4>2, <4>3
    <3> QED BY <1>1, <3>1, <3>2
  <2> QED BY <1>2, <2>1 DEF UndisturbedIsTrue
<1>13. StuckOnlyIfDisturbed'
  <2>1. ASSUME stage'[r] = "stuck" PROVE r \in disturbed
    <3>1. PICK b \in items[r] : Places(b) # DOMAIN b.keys
      BY <1>1, <1>3, <2>1 DEF throws
    <3> QED BY <1>4, <3>1
  <2> QED BY <1>2, <1>3, <2>1 DEF StuckOnlyIfDisturbed
<1> QED
  BY <1>5, <1>6, <1>7, <1>8, <1>9, <1>10, <1>11, <1>12, <1>13

-----------------------------------------------------------------------------
LEMMA InitKeys == Init => KeysInv
<1> SUFFICES ASSUME Init PROVE KeysInv
  OBVIOUS
<1>1. Len(Configured) \in Nat /\ DOMAIN Configured = 1..Len(Configured)
  BY RedisKeysAssumption DEF ConfType
<1>2. PICK v : v = fetch_info_vec
  OBVIOUS
<1>3. v = [c \in 1..Len(Configured) |-> [conf |-> c, keys |-> <<>>]]
  BY <1>1, <1>2 DEF Init
<1>4. \A c \in 1..Len(Configured) : [conf |-> c, keys |-> <<>>] \in FetchInfo
  BY <1>1 DEF FetchInfo
<1>5. v \in Seq(FetchInfo) /\ Len(v) = Len(Configured)
  BY <1>1, <1>3, <1>4
<1>6. /\ added = <<>> /\ position = 1 /\ failed = {} /\ disturbed = {}
      /\ stage = [r \in Request |-> "new"] /\ cache = [k \in Key |-> NoEntry]
      /\ hits = [r \in Request |-> {}] /\ batches = [r \in Request |-> {}]
      /\ items = [r \in Request |-> {}] /\ parsed = [r \in Request |-> {}]
  BY DEF Init
<1>7. TypeOK
  <2>1. added \in Seq([conf : DOMAIN Configured, keys : Seq(Key)])
    BY <1>6
  <2>2. fetch_info_vec \in Seq([conf : DOMAIN Configured, keys : Seq(Key)])
    BY <1>2, <1>5 DEF FetchInfo
  <2>3. position \in 1..(Len(fetch_info_vec) + 1)
    BY <1>1, <1>2, <1>5, <1>6
  <2>4. wanted \in Wanteds /\ enable_multi_get \in BOOLEAN
    BY RedisKeysAssumption DEF Init
  <2> QED BY <1>6, <2>1, <2>2, <2>3, <2>4 DEF TypeOK
<1>8. DomainsInv /\ StagesInv /\ BatchesInv /\ ItemsInv /\ PlacesInv
  BY <1>6 DEF DomainsInv, StagesInv, BatchesInv, ItemsInv, PlacesInv
<1>9. ConfiguredInv
  BY <1>1, <1>2, <1>3 DEF ConfiguredInv
<1>10. SplitInv
  BY <1>6 DEF SplitInv
<1>11. DueInv
  BY <1>6 DEF DueInv, Due
<1>12. UndisturbedIsTrue /\ StuckOnlyIfDisturbed
  BY <1>6 DEF UndisturbedIsTrue, StuckOnlyIfDisturbed
<1> QED
  BY <1>7, <1>8, <1>9, <1>10, <1>11, <1>12 DEF KeysInv

LEMMA StutterKept == KeysInv /\ UNCHANGED vars => KeysInv'
<1> SUFFICES ASSUME KeysInv, UNCHANGED vars PROVE KeysInv'
  OBVIOUS
<1> USE DEF KeysInv
<1>1. UNCHANGED <<wanted, enable_multi_get, fetch_info_vec, position, added, hits, cache,
                  stage, batches, items, parsed, failed, disturbed>>
  BY DEF vars, making
<1>2. TypeOK'
  BY <1>1 DEF TypeOK
<1>3. DomainsInv' /\ StagesInv' /\ ConfiguredInv' /\ BatchesInv' /\ ItemsInv'
  BY <1>1 DEF DomainsInv, StagesInv, ConfiguredInv, BatchesInv, ItemsInv, OneSlot
<1>4. SplitInv' /\ PlacesInv'
  BY <1>1 DEF SplitInv, PlacesInv, InPlace, OneSlot, Conf
<1>5. DueInv'
  BY <1>1 DEF DueInv, Due, ToBeSent, Conf
<1>6. UndisturbedIsTrue' /\ StuckOnlyIfDisturbed'
  BY <1>1 DEF UndisturbedIsTrue, StuckOnlyIfDisturbed
<1> QED
  BY <1>2, <1>3, <1>4, <1>5, <1>6

(***************************************************************************)
(* However many requests fill the service's fetch_infos in one after the   *)
(* other, and whatever is answered meanwhile, the invariant holds.         *)
(***************************************************************************)
THEOREM KeysInvCorrect == Spec => []KeysInv
<1>1. KeysInv /\ [Next]_vars => KeysInv'
  <2> SUFFICES ASSUME KeysInv, [Next]_vars PROVE KeysInv'
    OBVIOUS
  <2>1. ASSUME NEW r \in Request, RequestStep(r) PROVE KeysInv'
    BY <2>1, BeginKept, MakeUpKept, SendKept, AnswerKept, MergeKept DEF RequestStep
  <2>2. CASE Terminated
    BY <2>2, StutterKept DEF Terminated
  <2>3. CASE UNCHANGED vars
    BY <2>3, StutterKept
  <2> QED BY <2>1, <2>2, <2>3 DEF Next
<1> QED
  BY <1>1, InitKeys, PTL DEF Spec

(***************************************************************************)
(* Every batch, and so every MGET, is of one slot, and the types are those *)
(* of TypeOK: make_up_fetch_info_vec splits every fetch_info it passes,    *)
(* those an earlier request appended included.                             *)
(***************************************************************************)
THEOREM OneSlotPerBatchCorrect == Spec => []OneSlotPerBatch
<1>1. KeysInv => OneSlotPerBatch
  <2> SUFFICES ASSUME KeysInv, NEW r \in Request, NEW b \in batches[r]
               PROVE  Cardinality({SlotOf[k] : k \in ToSet(b.keys)}) = 1
    BY DEF KeysInv, OneSlotPerBatch
  <2>1. b.keys \in Seq(Key) /\ b.keys # <<>> /\ OneSlot(b.keys)
    BY DEF KeysInv, TypeOK, BatchesInv
  <2>2. b.keys[1] \in ToSet(b.keys)
    BY <2>1 DEF ToSet
  <2>3. {SlotOf[k] : k \in ToSet(b.keys)} = {SlotOf[b.keys[1]]}
    BY <2>1, <2>2 DEF OneSlot
  <2> QED BY <2>3, FS_Singleton
<1> QED
  BY <1>1, KeysInvCorrect, PTL

(***************************************************************************)
(* A request that no other has disturbed, and whose calls have all         *)
(* succeeded, has a value for every key it wanted when it is completed:    *)
(* none is lost between the cache, the slots, the fetch_infos appended for *)
(* them, the batches and the answers.                                      *)
(***************************************************************************)
THEOREM EverythingServedCorrect == Spec => []EverythingServed
<1>1. KeysInv => EverythingServed
  <2> SUFFICES ASSUME KeysInv, NEW r \in Request, stage[r] = "done",
                      r \notin failed \cup disturbed,
                      NEW c \in DOMAIN Configured, Configured[c].client,
                      NEW k \in ToSet(wanted[r][c])
               PROVE  \E p \in hits[r] \cup parsed[r] : p[1] = k
    BY DEF EverythingServed, Served
  <2>1. Due(r, c, k)
    BY DEF KeysInv, DueInv
  <2>2. batches[r] = {}
    BY DEF KeysInv, StagesInv
  <2> QED BY <2>1, <2>2 DEF Due
<1> QED
  BY <1>1, KeysInvCorrect, PTL

(***************************************************************************)
(* With single GETs an undisturbed request parses every value under its    *)
(* own key, and the cache is right until some request is disturbed.        *)
(***************************************************************************)
THEOREM UndisturbedIsTrueCorrect == Spec => []UndisturbedIsTrue
<1>1. KeysInv => UndisturbedIsTrue
  BY DEF KeysInv
<1> QED
  BY <1>1, KeysInvCorrect, PTL

(***************************************************************************)
(* keys.at throws, and leaves a request without completion, only when      *)
(* another request has rewritten its fetch_infos.                          *)
(***************************************************************************)
THEOREM StuckOnlyIfDisturbedCorrect == Spec => []StuckOnlyIfDisturbed
<1>1. KeysInv => StuckOnlyIfDisturbed
  BY DEF KeysInv
<1> QED
  BY <1>1, KeysInvCorrect, PTL
=============================================================================
