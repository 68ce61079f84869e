------------------------ MODULE RedisService_proofs ------------------------
(***************************************************************************)
(* Proofs about RedisService, for requests of any size, any batch_size and *)
(* any choice of refused calls, throwing handlers and rewritten keys.      *)
(***************************************************************************)
EXTENDS RedisService, FiniteSetTheorems, TLAPS

\* The rounding up of do_service.
LEMMA CeilDivBounds ==
  ASSUME NEW a \in Nat \ {0}, NEW b \in Nat \ {0}
  PROVE  /\ CeilDiv(a, b) \in Nat \ {0}
         /\ (CeilDiv(a, b) - 1) * b < a
         /\ a <= CeilDiv(a, b) * b
<1> DEFINE q == a \div b
           r == a % b
<1>1. q \in Int /\ r \in 0..(b - 1) /\ a = b * q + r
  OBVIOUS
<1>2. q >= 0
  <2> SUFFICES ASSUME q < 0 PROVE FALSE
    BY <1>1
  <2>1. q <= -1
    BY <1>1
  <2>2. b * q <= b * (-1)
    BY <1>1, <2>1
  <2> QED BY <1>1, <2>2
<1>3. b * q = q * b /\ q * b \in Int /\ (q + 1) * b = q * b + b
  BY <1>1
<1> HIDE DEF q, r
<1>4. CASE r # 0
  <2>1. CeilDiv(a, b) = q + 1
    BY <1>4 DEF CeilDiv, q, r
  <2> QED BY <1>1, <1>2, <1>3, <1>4, <2>1
<1>5. CASE r = 0
  <2>1. CeilDiv(a, b) = q
    BY <1>1, <1>5 DEF CeilDiv, q, r
  <2>2. q # 0
    BY <1>1, <1>5
  <2>3. (q - 1) * b = q * b - b
    BY <1>1
  <2> QED BY <1>1, <1>2, <1>3, <1>5, <2>1, <2>2, <2>3
<1> QED BY <1>4, <1>5

LEMMA TimesMonotone ==
  ASSUME NEW m \in Int, NEW n \in Int, NEW s \in Nat
  PROVE  /\ m * s \in Int
         /\ m <= n => m * s <= n * s
         /\ s # 0 /\ m < n => m * s < n * s /\ m * s + s <= n * s
         /\ (m + 1) * s = m * s + s /\ (m - 1) * s = m * s - s
         /\ n * s <= m * s /\ s # 0 => n <= m
  OBVIOUS

(***************************************************************************)
(* do_service rounds twice: once for the number of batches its counter     *)
(* starts with, once for the stride of the loop that sends them            *)
(* (redis_service.cpp:203-223).  All the same the last key but one batch   *)
(* lies below the keys and the last batch reaches their end: the loop      *)
(* sends as many batches as the counter was given.                         *)
(***************************************************************************)
THEOREM Strides ==
  ASSUME request.enable_multi_get \in BOOLEAN, NEW k \in Nat \ {0}
  PROVE  /\ BatchCount(k) \in Nat \ {0}
         /\ StepSize(k) \in Nat \ {0}
         /\ (BatchCount(k) - 1) * StepSize(k) < k
         /\ k <= BatchCount(k) * StepSize(k)
<1>1. CASE request.enable_multi_get
  <2> DEFINE c == CeilDiv(k, batch_size)
             s == CeilDiv(k, c)
  <2>1. batch_size \in Nat \ {0}
    BY RedisServiceAssumption
  <2>2. c \in Nat \ {0} /\ (c - 1) * batch_size < k /\ k <= c * batch_size
    BY <2>1, CeilDivBounds
  <2> HIDE DEF c
  <2>3. s \in Nat \ {0} /\ (s - 1) * c < k /\ k <= s * c
    BY <2>2, CeilDivBounds
  <2>4. BatchCount(k) = c /\ StepSize(k) = s
    BY <1>1 DEF BatchCount, StepSize, c
  <2> HIDE DEF s
  <2>5. (s - 1) * c < batch_size * c
    BY <2>1, <2>2, <2>3
  <2>6. s - 1 < batch_size
    <3> SUFFICES ASSUME batch_size <= s - 1 PROVE FALSE
      BY <2>1, <2>3
    <3>1. batch_size * c <= (s - 1) * c
      BY <2>1, <2>2, <2>3, TimesMonotone
    <3> QED BY <2>1, <2>2, <2>3, <2>5, <3>1
  <2>7. s * (c - 1) <= batch_size * (c - 1)
    BY <2>1, <2>2, <2>3, <2>6, TimesMonotone
  <2>8. s * (c - 1) = (c - 1) * s /\ batch_size * (c - 1) = (c - 1) * batch_size /\ s * c = c * s
    BY <2>1, <2>2, <2>3
  <2> QED BY <2>1, <2>2, <2>3, <2>4, <2>7, <2>8
<1>2. CASE ~request.enable_multi_get
  BY <1>2 DEF BatchCount, StepSize
<1> QED BY <1>1, <1>2
-----------------------------------------------------------------------------
(***************************************************************************)
(* The inductive invariant.  PlaceInv says where the loops of do_service   *)
(* are, and so which batches have been handed to the client; CacheInv what *)
(* has become of the cached values; CountInv what the two counters count.  *)
(***************************************************************************)
Stages == {"begin", "loop", "fetch", "none", "sent", "refused", "items",
           "cond", "merge", "parse", "await", "respond", "notify", "done"}

CallbackStages == {"none", "sent", "refused", "items", "cond", "merge", "await",
                   "respond", "notify", "done"}

\* TypeOK, without the ranges of the counters.
PlaceTyped ==
  /\ request \in Requests
  /\ info \in 1..(Len(request.infos) + 1) /\ key \in Nat
  /\ cond \in Int /\ item_size_cond \in [1..MaxInfos -> Int]
  /\ cached_left \in BOOLEAN /\ promise \in {"none", "unset", "set"}
  /\ pc \in [Thread -> Stages]
  /\ guarded \subseteq Batch /\ crashed \in BOOLEAN
  /\ parses \in Nat /\ responses \in Nat /\ outputs \in Nat /\ unmerged \in BOOLEAN

\* How often merge_cache_data or process_response has ended the request: whoever
\* completes it counts once, whether it gets through or throws.
Ends == responses + (IF unmerged THEN 1 ELSE 0)

\* The batch do_service has handed over last.
LastBatch == <<info, key - StepSize(Keys)>>

\* Batches the loops have passed.
Passed(b) == b \in AllBatches /\ (b[1] < info \/ (b[1] = info /\ b[2] < key))

Place ==
  /\ pc[DoService] \notin {"none", "sent", "refused"}
  /\ pc[DoService] = "begin" => info = 1 /\ key = 0 /\ cond = 0 /\ Ends = 0
  /\ pc[DoService] \in {"loop", "done"} => key = 0
  /\ pc[DoService] = "fetch" => info \in Fetched
  /\ key > 0 => info \in Fetched /\ \E j \in 0..key : key = j * StepSize(Keys)
  /\ pc[DoService] = "items" =>
       key > 0 /\ LastBatch \in BatchesOf(info) /\ pc[LastBatch] = "refused"
  /\ pc[DoService] = "cond" /\ key = 0 => info - 1 \in DOMAIN request.infos \ Fetched
  /\ \A b \in Batch : /\ pc[b] \in CallbackStages
                      /\ pc[b] # "none" <=> Passed(b)

PlaceInv == PlaceTyped /\ Place

CacheInv ==
  /\ cached_left => request.cached
  /\ parses = IF request.cached /\ ~cached_left THEN 1 ELSE 0
  /\ pc[DoService] = "begin" => promise = "none" /\ cached_left = request.cached
  /\ pc[DoService] # "begin" => /\ promise = "none" <=> ~request.cached
                                /\ promise = "set" <=> request.cached /\ ~cached_left
  /\ \A t \in Thread : /\ pc[t] \in {"parse", "await"} => promise # "none"
                       /\ pc[t] \in {"respond", "notify"} => promise # "unset"
  /\ responses > 0 => promise # "unset"

\* do_service has set the item_size_cond of f.
Opened(f) == f < info \/ (f = info /\ (key > 0 \/ pc[DoService] = "fetch"))

\* The batch b has not been counted down.  Who is about to count because
\* merge_cache_data or process_response has thrown is not counted a second time.
Waits(b) ==
  \/ pc[b] \in {"none", "sent"}
  \/ pc[b] = "items" /\ Ends = 0
  \/ pc[DoService] = "items" /\ b = LastBatch

Uncounted(f) == {b \in BatchesOf(f) : Waits(b)}

\* The fetch_info whose end a thread is about to count.
EndOf(t) == IF t = DoService /\ key = 0 THEN info - 1 ELSE InfoOf(t)

Ended(f) == {t \in Thread : pc[t] = "cond" /\ EndOf(t) = f}

\* Batches of f are still to come or to be counted down.
Open(f) ==
  IF f \in Fetched THEN ~Opened(f) \/ Uncounted(f) # {} ELSE f >= info

InfosLeft == {f \in DOMAIN request.infos : Open(f) \/ Ended(f) # {}}

\* Whoever completes the request, and counts down once more if that throws.
Finisher(t) ==
  \/ pc[t] \in {"merge", "parse", "await", "respond", "notify"}
  \/ pc[t] = "items" /\ Ends > 0

CountInv ==
  /\ pc[DoService] # "begin" => cond = Cardinality(InfosLeft)
  /\ Ends = 0 => \A f \in 1..MaxInfos :
       item_size_cond[f] = IF f \in Fetched /\ Opened(f) THEN Cardinality(Uncounted(f)) ELSE 0
  /\ Ends > 0 => \A f \in 1..MaxInfos : item_size_cond[f] \in {-1, 0}
  /\ \A t \in Thread : pc[t] = "items" /\ Ends > 0 => item_size_cond[InfoOf(t)] = 0
  /\ \A f \in DOMAIN request.infos : Open(f) => Ended(f) = {}
  /\ \A f \in DOMAIN request.infos : \A t, u \in Ended(f) : t = u
  /\ \A t \in Thread : Finisher(t) => /\ InfosLeft = {} /\ outputs = 0
                                      /\ \A u \in Thread : Finisher(u) => t = u
  /\ \A t \in Thread : /\ pc[t] \in {"merge", "parse", "await", "respond"} =>
                            Ends = 0 \/ crashed
                       /\ pc[t] = "notify" => responses = 1
  /\ Ends > 0 => InfosLeft = {}
  /\ Ends <= 1 /\ outputs <= Ends

-----------------------------------------------------------------------------
(***************************************************************************)
(* What the type of a request says.                                        *)
(***************************************************************************)
LEMMA RequestFacts ==
  ASSUME request \in Requests
  PROVE  /\ Len(request.infos) \in 0..MaxInfos
         /\ DOMAIN request.infos = 1..Len(request.infos)
         /\ request.cached \in BOOLEAN /\ request.enable_multi_get \in BOOLEAN
         /\ request.cached => request.infos # <<>>
         /\ request.infos = <<>> <=> Len(request.infos) = 0
         /\ Fetched \subseteq DOMAIN request.infos
         /\ \A f \in Fetched : request.infos[f].keys \in 1..MaxKeys
         /\ MaxInfos \in Nat /\ MaxKeys \in Nat
<1>1. /\ request \in RequestType /\ (request.cached => request.infos # <<>>)
      /\ MaxInfos \in Nat /\ MaxKeys \in Nat
  BY RedisServiceAssumption
<1> DEFINE Info == [keys : 0..MaxKeys, client : BOOLEAN]
<1>2. PICK n \in 0..MaxInfos : request.infos \in [1..n -> Info]
  BY <1>1 DEF RequestType
<1>3. request.infos \in Seq(Info) /\ Len(request.infos) = n /\ DOMAIN request.infos = 1..n
  <2> HIDE DEF Info
  <2> QED BY <1>1, <1>2
<1>4. request.infos = <<>> <=> n = 0
  BY <1>3
<1>5. Fetched \subseteq DOMAIN request.infos
  BY DEF Fetched
<1>6. ASSUME NEW f \in Fetched PROVE request.infos[f].keys \in 1..MaxKeys
  <2>1. request.infos[f] \in Info /\ request.infos[f].keys > 0
    BY <1>2, <1>3, <1>5 DEF Fetched
  <2> QED BY <1>1, <2>1
<1>7. request.cached \in BOOLEAN /\ request.enable_multi_get \in BOOLEAN
  BY <1>1 DEF RequestType
<1> QED BY <1>1, <1>2, <1>3, <1>4, <1>5, <1>6, <1>7

(***************************************************************************)
(* The batches of a fetch_info: as many as its counter starts with, and    *)
(* those the loop comes by.                                                *)
(***************************************************************************)
LEMMA BatchFacts ==
  ASSUME request \in Requests, NEW f \in Fetched
  PROVE  /\ BatchesOf(f) \subseteq Batch
         /\ IsFiniteSet(BatchesOf(f))
         /\ Cardinality(BatchesOf(f)) = BatchCount(request.infos[f].keys)
         /\ BatchCount(request.infos[f].keys) \in 1..MaxKeys
         /\ <<f, 0>> \in BatchesOf(f)
         /\ \A b \in BatchesOf(f) : b[1] = f /\ b[2] \in 0..(request.infos[f].keys - 1)
<1> DEFINE k == request.infos[f].keys
           s == StepSize(k)
           c == BatchCount(k)
<1>1. /\ f \in 1..MaxInfos /\ k \in 1..MaxKeys /\ k \in Nat \ {0}
      /\ request.enable_multi_get \in BOOLEAN /\ MaxKeys \in Nat
  <2>1. /\ Len(request.infos) \in 0..MaxInfos /\ f \in 1..Len(request.infos)
        /\ k \in 1..MaxKeys
        /\ request.enable_multi_get \in BOOLEAN /\ MaxInfos \in Nat /\ MaxKeys \in Nat
    BY RequestFacts, Zenon
  <2> HIDE DEF k
  <2> QED BY <2>1
<1> HIDE DEF k
<1>2. c \in Nat \ {0} /\ s \in Nat \ {0} /\ (c - 1) * s < k
  BY <1>1, Strides
<1> HIDE DEF c, s
<1>3. ASSUME NEW n \in 0..(c - 1) PROVE n * s \in 0..(k - 1) /\ n <= n * s
  <2>1. n * s <= (c - 1) * s /\ n * s \in Int
    BY <1>2, TimesMonotone
  <2>2. n * 1 <= n * s
    BY <1>2
  <2> QED BY <1>1, <1>2, <2>1, <2>2
<1>4. c \in 1..MaxKeys
  <2>1. c - 1 <= (c - 1) * s
    BY <1>2, <1>3
  <2> QED BY <1>1, <1>2, <2>1
<1>5. BatchesOf(f) = {<<f, n * s>> : n \in 0..(c - 1)}
  BY DEF BatchesOf, c, s, k
<1>6. \A b \in BatchesOf(f) : b[1] = f /\ b[2] \in 0..(k - 1) /\ b \in Batch
  BY <1>1, <1>3, <1>5 DEF Batch
<1>7. IsFiniteSet(BatchesOf(f)) /\ Cardinality(BatchesOf(f)) = c
  <2> DEFINE B == [n \in 0..(c - 1) |-> <<f, n * s>>]
  <2>1. B \in Bijection(0..(c - 1), BatchesOf(f))
    <3>1. \A m, n \in 0..(c - 1) : B[m] = B[n] => m = n
      <4> SUFFICES ASSUME NEW m \in 0..(c - 1), NEW n \in 0..(c - 1), m * s = n * s
                   PROVE  m = n
        OBVIOUS
      <4>1. m <= n /\ n <= m
        BY <1>2, TimesMonotone
      <4> QED BY <4>1
    <3>2. B \in [0..(c - 1) -> BatchesOf(f)]
      BY <1>5
    <3>3. \A b \in BatchesOf(f) : \E n \in 0..(c - 1) : B[n] = b
      BY <1>5
    <3> HIDE DEF B
    <3> QED BY <3>1, <3>2, <3>3 DEF Bijection, Injection, Surjection, IsInjective
  <2>2. IsFiniteSet(0..(c - 1)) /\ Cardinality(0..(c - 1)) = c
    BY <1>2, FS_Interval
  <2> HIDE DEF B
  <2> QED BY <2>1, <2>2, FS_Surjection DEF Bijection
<1>8. <<f, 0>> \in BatchesOf(f)
  <2>1. 0 \in 0..(c - 1) /\ 0 * s = 0
    BY <1>2
  <2> QED BY <1>5, <2>1
<1> QED BY <1>4, <1>6, <1>7, <1>8 DEF c, k

\* The loop at a multiple of its stride: the batch there is one of the batches
\* of the fetch_info, and the next the loop comes by.
LEMMA NextBatch ==
  ASSUME request \in Requests, info \in Fetched, NEW j \in Nat,
         key = j * StepSize(Keys), key < Keys
  PROVE  /\ <<info, key>> \in BatchesOf(info)
         /\ key + StepSize(Keys) = (j + 1) * StepSize(Keys)
         /\ StepSize(Keys) \in Nat \ {0}
         /\ \A b \in BatchesOf(info) : b[2] < key + StepSize(Keys) <=>
                                         b[2] < key \/ b = <<info, key>>
<1> DEFINE s == StepSize(Keys)
           c == BatchCount(Keys)
<1>1. Keys \in Nat \ {0} /\ request.enable_multi_get \in BOOLEAN
  BY RequestFacts DEF Keys
<1>2. c \in Nat \ {0} /\ s \in Nat \ {0} /\ Keys <= c * s
  BY <1>1, Strides
<1>3. BatchesOf(info) = {<<info, n * s>> : n \in 0..(c - 1)}
  BY DEF BatchesOf, Keys
<1>4. key = j * s /\ key < Keys
  OBVIOUS
<1> HIDE DEF s, c
<1>5. j * s < c * s /\ j * s \in Int /\ c * s \in Int
  BY <1>1, <1>2, <1>4, TimesMonotone
<1>6. j < c
  <2> SUFFICES ASSUME c <= j PROVE FALSE
    BY <1>2
  <2>1. c * s <= j * s
    BY <1>2, TimesMonotone
  <2> QED BY <1>5, <2>1
<1>7. <<info, key>> \in BatchesOf(info)
  BY <1>2, <1>3, <1>4, <1>6
<1>8. (j + 1) * s = j * s + s
  BY <1>2, TimesMonotone
<1>9. ASSUME NEW b \in BatchesOf(info)
      PROVE  b[2] < key + s <=> b[2] < key \/ b = <<info, key>>
  <2>1. PICK n \in 0..(c - 1) : b = <<info, n * s>>
    BY <1>3
  <2>2. n * s \in Int
    BY <1>2
  <2>3. n <= j => n * s <= j * s
    BY <1>2, TimesMonotone
  <2>4. j < n => j * s + s <= n * s
    BY <1>2, TimesMonotone
  <2>5. n * s <= j * s => n <= j
    BY <1>2, TimesMonotone
  <2>6. CASE n <= j
    <3>1. b[2] < key + s
      BY <1>2, <1>4, <1>5, <2>1, <2>2, <2>3, <2>6
    <3>2. b[2] < key \/ b = <<info, key>>
      BY <1>4, <1>5, <2>1, <2>2, <2>3, <2>6
    <3> QED BY <3>1, <3>2
  <2>7. CASE j < n
    <3>1. ~(b[2] < key + s)
      BY <1>2, <1>4, <1>5, <2>1, <2>2, <2>4, <2>7
    <3>2. b[2] # key /\ ~(b[2] < key)
      BY <1>2, <1>4, <1>5, <2>1, <2>2, <2>4, <2>7
    <3> QED BY <3>1, <3>2
  <2> QED BY <2>6, <2>7
<1> QED BY <1>2, <1>4, <1>7, <1>8, <1>9 DEF s

-----------------------------------------------------------------------------
\* What Ends says of the history.
LEMMA EndsFacts ==
  ASSUME PlaceTyped
  PROVE  /\ Ends \in Nat /\ responses \in Nat /\ responses <= Ends
         /\ Ends = 0 <=> responses = 0 /\ ~unmerged
         /\ ~unmerged => Ends = responses
         /\ unmerged => Ends = responses + 1
BY DEF PlaceTyped, Ends

LEMMA SameEnds ==
  ASSUME UNCHANGED <<responses, unmerged>>
  PROVE  Ends' = Ends
BY DEF Ends

\* The batches are those of the request.
LEMMA SameRequest ==
  ASSUME request' = request
  PROVE  /\ AllBatches' = AllBatches /\ Fetched' = Fetched
         /\ \A f : BatchesOf(f)' = BatchesOf(f)
         /\ \A k : StepSize(k)' = StepSize(k) /\ BatchCount(k)' = BatchCount(k)
<1>1. \A k : StepSize(k)' = StepSize(k) /\ BatchCount(k)' = BatchCount(k)
  BY DEF StepSize, BatchCount
<1>2. Fetched' = Fetched
  BY DEF Fetched
<1>3. \A f : BatchesOf(f)' = BatchesOf(f)
  BY <1>1 DEF BatchesOf
<1> QED BY <1>1, <1>2, <1>3 DEF AllBatches

\* Batches are told from do_service, and from each other.
LEMMA Threads ==
  ASSUME request \in Requests
  PROVE  /\ DoService \in Thread /\ DoService \notin Batch
         /\ Thread = {DoService} \cup Batch
         /\ AllBatches \subseteq Batch
         /\ \A b \in Batch : b[1] \in 1..MaxInfos /\ b[2] \in Nat /\ b = <<b[1], b[2]>>
         /\ \A b : b \in AllBatches <=> b[1] \in Fetched /\ b \in BatchesOf(b[1])
<1>1. MaxInfos \in Nat /\ MaxKeys \in Nat
  BY RequestFacts
<1>2. AllBatches \subseteq Batch
  BY BatchFacts DEF AllBatches
<1>3. \A b \in Batch : b[1] \in 1..MaxInfos /\ b[2] \in Nat /\ b = <<b[1], b[2]>>
  BY <1>1 DEF Batch
<1>4. DoService \notin Batch
  <2>1. DoService[1] \notin 1..MaxInfos
    BY DEF DoService
  <2> QED BY <1>3, <2>1
<1>5. \A b : b \in AllBatches <=> b[1] \in Fetched /\ b \in BatchesOf(b[1])
  <2>1. \A f \in Fetched : \A b \in BatchesOf(f) : b[1] = f
    BY BatchFacts
  <2> QED BY <2>1 DEF AllBatches
<1> QED BY <1>2, <1>3, <1>4, <1>5 DEF Thread

(***************************************************************************)
(* A thread that moves while the loops stand still.                        *)
(***************************************************************************)
LEMMA PlaceKept ==
  ASSUME PlaceInv, UNCHANGED <<request, info, key>>,
         NEW t \in Thread, NEW where \in Stages, pc' = [pc EXCEPT ![t] = where],
         t = DoService => where \in {"merge", "parse", "await", "respond", "notify"}
                            \/ (where = "cond" /\ key > 0)
                            \/ (where \in {"loop", "done"} /\ key = 0)
                            \/ (where = "fetch" /\ info \in Fetched),
         t \in Batch => /\ pc[t] \notin {"none", "refused"}
                        /\ where \in CallbackStages \ {"none"}
  PROVE  Place'
<1> USE DEF PlaceInv, PlaceTyped
<1>1. /\ DoService \in Thread /\ DoService \notin Batch /\ Thread = {DoService} \cup Batch
      /\ \A b \in Batch : b[1] \in 1..MaxInfos /\ b[2] \in Nat
  BY Threads
<1>2. AllBatches' = AllBatches /\ Fetched' = Fetched /\ LastBatch' = LastBatch
      /\ \A b : Passed(b)' = Passed(b)
      /\ \A k : StepSize(k)' = StepSize(k)
      /\ Keys' = Keys
  BY SameRequest DEF LastBatch, Passed, Keys
<1>3. /\ pc' \in [Thread -> Stages] /\ pc'[t] = where
      /\ \A u \in Thread \ {t} : pc'[u] = pc[u]
  OBVIOUS
<1>4. \A b \in Batch : pc'[b] \in CallbackStages /\ (pc'[b] # "none" <=> Passed(b)')
  BY <1>1, <1>2, <1>3 DEF Place
<1>5. pc'[DoService] = "begin" => info' = 1 /\ key' = 0 /\ t = DoService
  <2> SUFFICES ASSUME pc'[DoService] = "begin", t \in Batch PROVE FALSE
    BY <1>1, <1>3 DEF Place
  <2>1. info = 1 /\ key = 0
    BY <1>1, <1>3 DEF Place
  <2>2. Passed(t)
    BY <1>3 DEF Place
  <2> QED BY <1>1, <2>1, <2>2 DEF Passed
<1>6. pc'[DoService] # "begin"
  BY <1>1, <1>3, <1>5
<1>7. pc'[DoService] = "items" =>
        key' > 0 /\ LastBatch' \in BatchesOf(info)' /\ pc'[LastBatch'] = "refused"
  <2> SUFFICES ASSUME pc'[DoService] = "items"
               PROVE  /\ key > 0 /\ LastBatch \in BatchesOf(info)
                      /\ pc'[LastBatch] = "refused"
    BY <1>2, SameRequest
  <2>1. t \in Batch /\ pc[DoService] = "items" /\ t # LastBatch
    BY <1>1, <1>3 DEF Place
  <2>2. LastBatch \in Thread
    BY <1>1, <2>1, BatchFacts DEF Place
  <2> QED BY <1>3, <2>1, <2>2 DEF Place
<1> QED BY <1>1, <1>2, <1>3, <1>4, <1>6, <1>7 DEF Place

(***************************************************************************)
(* Every step keeps the types; the ranges of the counters need CountInv.   *)
(***************************************************************************)
LEMMA PlaceTypedKept ==
  ASSUME PlaceInv, NEW t \in Thread, ThreadStep(t)
  PROVE  PlaceTyped'
<1> USE DEF PlaceInv, PlaceTyped
<1>1. /\ DoService \in Thread /\ DoService \notin Batch /\ Thread = {DoService} \cup Batch
      /\ \A b \in Batch : b[1] \in 1..MaxInfos
  BY Threads
<1>2. /\ Len(request.infos) \in 0..MaxInfos /\ DOMAIN request.infos = 1..Len(request.infos)
      /\ Fetched \subseteq 1..Len(request.infos) /\ MaxInfos \in Nat
      /\ request.enable_multi_get \in BOOLEAN
      /\ \A f \in Fetched : request.infos[f].keys \in Nat \ {0}
  BY RequestFacts
<1>3. /\ pc[DoService] = "fetch" \/ pc[DoService] = "items" => info \in Fetched
      /\ info \in Fetched => Keys \in Nat \ {0}
  BY <1>2 DEF Place, Keys
<1>4. pc[t] = "items" => InfoOf(t) \in 1..MaxInfos
  BY <1>1, <1>2, <1>3 DEF InfoOf
<1>5. cached_left' \in BOOLEAN /\ crashed' \in BOOLEAN /\ unmerged' \in BOOLEAN
  BY DEF ThreadStep, Finish, Callback, CountItem, CountInfo, Merge, ParseInFinish, Await,
         Respond, Notify, Begin, SkipInfo, OpenInfo, Fetch, CloseInfo, ParseRest,
         ParseCachedData, Crash, Throw, MergeThrows, cache, history
<1> DEFINE Typed ==
      /\ request \in Requests
      /\ info \in 1..(Len(request.infos) + 1) /\ key \in Nat
      /\ cond \in Int /\ item_size_cond \in [1..MaxInfos -> Int]
      /\ promise \in {"none", "unset", "set"}
      /\ guarded \subseteq Batch
      /\ parses \in Nat /\ responses \in Nat /\ outputs \in Nat
<1>6. Typed'
  <2>1. CASE Begin
    BY <1>2, <2>1 DEF Begin, history
  <2>2. CASE SkipInfo
    BY <1>2, <2>2 DEF SkipInfo, counters, cache, history
  <2>3. CASE OpenInfo
    <3>1. BatchCount(Keys) \in Nat
      BY <1>2, <1>3, <2>3, Strides DEF OpenInfo
    <3>2. item_size_cond' \in [1..MaxInfos -> Int]
      <4> DEFINE n == BatchCount(Keys)
      <4>1. item_size_cond' = [item_size_cond EXCEPT ![info] = n]
        BY <2>3 DEF OpenInfo
      <4> HIDE DEF n, PlaceTyped
      <4>2. item_size_cond \in [1..MaxInfos -> Int]
        BY DEF PlaceTyped
      <4>3. n \in Int
        BY <3>1 DEF n
      <4> QED BY <4>1, <4>2, <4>3
    <3> QED BY <2>3, <3>2 DEF OpenInfo, cache, history
  <2>4. CASE Fetch
    <3>1. StepSize(Keys) \in Nat
      BY <1>2, <1>3, <2>4, Strides DEF Fetch
    <3> QED BY <2>4, <3>1 DEF Fetch, counters, cache, history
  <2>5. CASE CloseInfo
    BY <1>2, <1>3, <2>5 DEF CloseInfo, counters, cache, history
  <2>6. CASE ParseRest
    BY <2>6 DEF ParseRest, ParseCachedData, counters, cache
  <2>7. CASE Callback(t) /\ t \in Batch
    BY <2>7 DEF Callback, counters, cache, history
  <2>8. CASE CountItem(t)
    BY <1>4, <2>8 DEF CountItem, cache, history
  <2>9. CASE CountInfo(t)
    BY <2>9 DEF CountInfo, cache, history
  <2>10. CASE Merge(t)
    BY <2>10 DEF Merge, MergeThrows, Throw, counters, cache, history
  <2>11. CASE ParseInFinish(t)
    BY <2>11 DEF ParseInFinish, ParseCachedData, counters, cache
  <2>12. CASE Await(t)
    BY <2>12 DEF Await, counters, cache, history
  <2>13. CASE Respond(t)
    BY <2>13 DEF Respond, Throw, counters, cache
  <2>14. CASE Notify(t)
    BY <2>14 DEF Notify, counters, cache
  <2> QED BY <2>1, <2>2, <2>3, <2>4, <2>5, <2>6, <2>7, <2>8, <2>9, <2>10, <2>11, <2>12,
             <2>13, <2>14 DEF ThreadStep, Finish
<1>7. pc' \in [Thread -> Stages]
  <2>1. \A w \in Stages : [pc EXCEPT ![t] = w] \in [Thread -> Stages]
    OBVIOUS
  <2>2. Resume(t) \in Stages
    BY DEF Resume, Stages
  <2>3. CASE Fetch
    BY <2>3 DEF Fetch, Stages
  <2>4. CASE t = DoService /\ (Begin \/ SkipInfo \/ OpenInfo \/ CloseInfo \/ ParseRest)
    BY <2>4 DEF Begin, SkipInfo, OpenInfo, CloseInfo, ParseRest, Crash, Stages
  <2>5. CASE Callback(t) \/ CountItem(t) \/ CountInfo(t) \/ Notify(t) \/ Await(t)
    BY <2>2, <2>5 DEF Callback, CountItem, CountInfo, Notify, Await, Stages
  <2>6. CASE Merge(t) \/ ParseInFinish(t) \/ Respond(t)
    BY <2>6 DEF Merge, MergeThrows, Throw, ParseInFinish, Respond, Crash, Stages
  <2> QED BY <2>3, <2>4, <2>5, <2>6 DEF ThreadStep, Finish
<1> QED BY <1>5, <1>6, <1>7

\* Nothing has been handed over before do_service begins.
LEMMA Begun ==
  ASSUME PlaceInv, NEW t \in Thread, pc[t] \notin {"begin", "none"}
  PROVE  pc[DoService] # "begin"
<1> SUFFICES ASSUME pc[DoService] = "begin", t \in Batch PROVE FALSE
  BY DEF Thread
<1>1. request \in Requests /\ info = 1 /\ key = 0 /\ Passed(t)
  BY DEF PlaceInv, PlaceTyped, Place
<1>2. t[1] \in 1..MaxInfos /\ t[2] \in Nat
  BY <1>1, Threads
<1> QED BY <1>1, <1>2 DEF Passed

LEMMA PlaceStill ==
  ASSUME PlaceInv, UNCHANGED <<request, info, key, pc>>,
         UNCHANGED <<cond, Ends>> \/ pc[DoService] # "begin"
  PROVE  Place'
<1>1. /\ LastBatch' = LastBatch /\ Fetched' = Fetched /\ Keys' = Keys
      /\ \A b : Passed(b)' = Passed(b)
      /\ \A k : StepSize(k)' = StepSize(k)
      /\ BatchesOf(info)' = BatchesOf(info)
  BY SameRequest DEF LastBatch, Passed, Keys
<1> QED BY <1>1 DEF PlaceInv, Place

(***************************************************************************)
(* The steps that complete the request, and those of a callback.           *)
(***************************************************************************)
LEMMA PlaceFinish ==
  ASSUME PlaceInv, NEW t \in Thread, Finish(t) \/ (t \in Batch /\ Callback(t))
  PROVE  Place'
<1> USE DEF PlaceInv
<1>1. /\ DoService \in Thread /\ DoService \notin Batch /\ Thread = {DoService} \cup Batch
      /\ DoService[1] = 0
      /\ \A b \in Batch : b[1] \in 1..MaxInfos
  BY Threads DEF PlaceTyped, DoService
<1>2. /\ UNCHANGED <<request, info, key>>
      /\ pc[t] \in {"sent", "items", "cond", "merge", "parse", "await", "respond", "notify"}
  BY DEF Finish, Callback, CountItem, CountInfo, Merge, MergeThrows, ParseInFinish, Await,
         Respond, Notify
<1>3. pc[DoService] # "begin"
  BY <1>2, Begun
<1>4. t \in Batch => pc[t] \in CallbackStages
  BY DEF Place
<1>5. t = DoService => (key = 0 => Resume(t) = "loop") /\ (key # 0 => Resume(t) = "fetch")
  BY DEF Resume
<1>6. t \in Batch => Resume(t) = "done"
  BY <1>1 DEF Resume
<1>7. key > 0 => info \in Fetched
  BY DEF Place
<1>8. key \in Nat
  BY DEF PlaceTyped
<1>10. CASE pc' = pc
  BY <1>2, <1>3, <1>10, PlaceStill
<1>11. CASE CountItem(t)
  <2> DEFINE w == IF item_size_cond[InfoOf(t)] = 1 THEN "cond" ELSE Resume(t)
  <2>1. pc' = [pc EXCEPT ![t] = w] /\ pc[t] = "items"
    BY <1>11 DEF CountItem
  <2>2. t = DoService => key > 0 /\ w \in {"cond", "fetch"} /\ info \in Fetched
    BY <1>5, <1>7, <1>8, <2>1 DEF Place
  <2>3. t \in Batch => w \in {"cond", "done"}
    BY <1>6
  <2> HIDE DEF w
  <2> QED BY <1>1, <1>2, <2>1, <2>2, <2>3, PlaceKept DEF Stages, CallbackStages
<1>12. CASE CountInfo(t)
  <2> DEFINE w == IF cond = 1 THEN "merge" ELSE Resume(t)
  <2>1. pc' = [pc EXCEPT ![t] = w] /\ pc[t] = "cond"
    BY <1>12 DEF CountInfo
  <2>2. t = DoService => w = "merge" \/ (w = "loop" /\ key = 0) \/ (w = "fetch" /\ info \in Fetched)
    BY <1>5, <1>7, <1>8
  <2>3. t \in Batch => w \in {"merge", "done"}
    BY <1>6
  <2> HIDE DEF w
  <2> QED BY <1>1, <1>2, <2>1, <2>2, <2>3, PlaceKept DEF Stages, CallbackStages
<1>13. CASE pc' # pc /\ (Merge(t) \/ ParseInFinish(t) \/ Await(t) \/ Respond(t))
  <2>1. /\ pc[t] \in {"merge", "parse", "await", "respond"}
        /\ \E w \in {"parse", "await", "respond", "notify", "items"} :
             /\ pc' = [pc EXCEPT ![t] = w]
             /\ w = "parse" => t = DoService
             /\ w = "items" => t \in Batch
    BY <1>13 DEF Merge, MergeThrows, Throw, ParseInFinish, Await, Respond, Crash, PlaceTyped
  <2>2. PICK w \in {"parse", "await", "respond", "notify", "items"} :
             /\ pc' = [pc EXCEPT ![t] = w]
             /\ w = "parse" => t = DoService
             /\ w = "items" => t \in Batch
    BY <2>1
  <2> QED BY <1>1, <1>2, <2>1, <2>2, PlaceKept DEF Stages, CallbackStages
<1>14. CASE Notify(t)
  <2> DEFINE w == Resume(t)
  <2>1. pc' = [pc EXCEPT ![t] = w] /\ pc[t] = "notify"
    BY <1>14 DEF Notify
  <2>2. t = DoService => (w = "loop" /\ key = 0) \/ (w = "fetch" /\ info \in Fetched)
    BY <1>5, <1>7, <1>8
  <2>3. t \in Batch => w = "done"
    BY <1>6
  <2> HIDE DEF w
  <2> QED BY <1>1, <1>2, <2>1, <2>2, <2>3, PlaceKept DEF Stages, CallbackStages
<1>15. CASE t \in Batch /\ Callback(t)
  <2>1. pc' = [pc EXCEPT ![t] = "items"] /\ pc[t] = "sent"
    BY <1>15 DEF Callback
  <2> QED BY <1>1, <1>2, <1>15, <2>1, PlaceKept DEF Stages, CallbackStages
<1> QED BY <1>10, <1>11, <1>12, <1>13, <1>14, <1>15 DEF Finish

(***************************************************************************)
(* The steps of the loops: the batch handed over is the next one, and none *)
(* is left behind when the loop over a fetch_info ends.                    *)
(***************************************************************************)
LEMMA PlaceLoops ==
  ASSUME PlaceInv, Begin \/ SkipInfo \/ OpenInfo \/ Fetch \/ CloseInfo \/ ParseRest,
         PlaceTyped'
  PROVE  Place'
<1> USE DEF PlaceInv
<1>1. /\ DoService \in Thread /\ DoService \notin Batch /\ Thread = {DoService} \cup Batch
      /\ AllBatches \subseteq Batch
      /\ \A b \in Batch : b[1] \in 1..MaxInfos /\ b[2] \in Nat
      /\ \A b : b \in AllBatches <=> b[1] \in Fetched /\ b \in BatchesOf(b[1])
  BY Threads DEF PlaceTyped
<1>2. /\ Len(request.infos) \in Nat /\ DOMAIN request.infos = 1..Len(request.infos)
      /\ Fetched \subseteq 1..Len(request.infos) /\ MaxInfos \in Nat
      /\ info \in 1..(Len(request.infos) + 1) /\ key \in Nat
      /\ request.infos = <<>> <=> Len(request.infos) = 0
  BY RequestFacts DEF PlaceTyped
<1>3. request' = request
  BY DEF Begin, SkipInfo, OpenInfo, Fetch, CloseInfo, ParseRest
<1>4. /\ AllBatches' = AllBatches /\ Fetched' = Fetched
      /\ \A f : BatchesOf(f)' = BatchesOf(f)
      /\ \A k : StepSize(k)' = StepSize(k) /\ BatchCount(k)' = BatchCount(k)
  BY <1>3, SameRequest
<1>5. CASE Begin
  <2>1. PICK w \in {"respond", "loop"} : pc' = [pc EXCEPT ![DoService] = w]
    BY <1>5 DEF Begin
  <2>2. key = 0 /\ UNCHANGED <<request, info, key>>
    BY <1>5 DEF Begin, Place
  <2> QED BY <1>1, <2>1, <2>2, PlaceKept DEF Stages
<1>6. CASE OpenInfo
  <2>1. /\ pc' = [pc EXCEPT ![DoService] = "fetch"] /\ info \in Fetched
        /\ UNCHANGED <<request, info, key>>
    BY <1>6 DEF OpenInfo
  <2> QED BY <1>1, <2>1, PlaceKept DEF Stages
<1>7. CASE ParseRest
  <2>2. pc[DoService] = "loop" /\ key = 0 /\ UNCHANGED <<request, info, key>>
    BY <1>7 DEF ParseRest, Place
  <2>3. CASE pc' = pc
    BY <1>7, <2>2, <2>3, PlaceStill DEF ParseRest
  <2>4. CASE pc' = [pc EXCEPT ![DoService] = "done"]
    BY <1>1, <2>2, <2>4, PlaceKept DEF Stages
  <2> QED BY <1>7, <2>3, <2>4 DEF ParseRest, Crash
<1>8. CASE SkipInfo
  <2>1. /\ info \in 1..Len(request.infos) /\ info \notin Fetched /\ key = 0
        /\ info' = info + 1 /\ key' = 0
        /\ pc' = [pc EXCEPT ![DoService] = "cond"]
    BY <1>2, <1>8 DEF SkipInfo, Place
  <2>3. \A b \in Batch : Passed(b)' <=> Passed(b)
    BY <1>1, <1>2, <1>4, <2>1 DEF Passed
  <2>4. pc'[DoService] = "cond" /\ \A b \in Batch : pc'[b] = pc[b]
    BY <1>1, <2>1 DEF PlaceTyped
  <2> QED BY <1>2, <1>3, <1>4, <2>1, <2>3, <2>4 DEF Place
<1>9. CASE CloseInfo
  <2>1. /\ info \in Fetched /\ key >= Keys
        /\ info' = info + 1 /\ key' = 0
        /\ pc' = [pc EXCEPT ![DoService] = "loop"]
    BY <1>9 DEF CloseInfo, Place
  <2>3. ASSUME NEW b \in Batch PROVE Passed(b)' <=> Passed(b)
    <3>1. b \in BatchesOf(info) => b[2] < key
      <4>1. b \in BatchesOf(info) => b[2] \in 0..(Keys - 1)
        BY <2>1, BatchFacts DEF Keys, PlaceTyped
      <4>2. Keys \in Nat
        BY <2>1, RequestFacts DEF Keys, PlaceTyped
      <4> QED BY <1>1, <1>2, <2>1, <4>1, <4>2
    <3> QED BY <1>1, <1>2, <1>4, <2>1, <3>1 DEF Passed
  <2>4. pc'[DoService] = "loop" /\ \A b \in Batch : pc'[b] = pc[b]
    BY <1>1, <2>1 DEF PlaceTyped
  <2> QED BY <1>2, <1>3, <1>4, <2>1, <2>3, <2>4 DEF Place
<1>10. CASE Fetch
  <2> DEFINE s == StepSize(Keys)
             b0 == <<info, key>>
  <2>1. /\ info \in Fetched /\ key < Keys /\ pc[DoService] = "fetch"
        /\ info' = info /\ key' = key + s
    BY <1>10 DEF Fetch, Place
  <2>2. PICK j \in 0..key : key = j * s
    <3>1. Keys \in Nat /\ Keys # 0 /\ request.enable_multi_get \in BOOLEAN
      BY <2>1, RequestFacts DEF Keys, PlaceTyped
    <3>2. s \in Nat
      BY <3>1, Strides
    <3>3. CASE key = 0
      <4>1. 0 * s = 0
        BY <3>2
      <4> HIDE DEF s
      <4> QED BY <3>3, <4>1
    <3>4. CASE key > 0
      BY <3>4 DEF Place
    <3> QED BY <1>2, <3>3, <3>4
  <2>3. /\ b0 \in BatchesOf(info) /\ key' = (j + 1) * s /\ s \in Nat \ {0}
        /\ \A b \in BatchesOf(info) : b[2] < key' <=> b[2] < key \/ b = b0
    <3>1. j \in Nat /\ request \in Requests
      BY <1>2, <2>2 DEF PlaceTyped
    <3>2. /\ b0 \in BatchesOf(info) /\ key + s = (j + 1) * s /\ s \in Nat \ {0}
          /\ \A b \in BatchesOf(info) : b[2] < key + s <=> b[2] < key \/ b = b0
      BY <2>1, <2>2, <3>1, NextBatch
    <3> HIDE DEF s, b0
    <3> QED BY <2>1, <3>2
  <2>4. /\ b0 \in AllBatches /\ b0 \in Batch /\ b0 # DoService
        /\ Keys' = Keys /\ s' = s /\ b0[1] = info
    BY <1>1, <1>4, <2>1, <2>3, <1>3 DEF Keys
  <2>5. /\ pc' \in [Thread -> Stages]
        /\ pc'[b0] \in {"sent", "refused"}
        /\ pc'[DoService] \in {"fetch", "items"}
        /\ pc'[DoService] = "items" => pc'[b0] = "refused"
        /\ \A b \in Batch \ {b0} : pc'[b] = pc[b]
    BY <1>1, <1>10, <2>1, <2>4 DEF Fetch, PlaceTyped
  <2> HIDE DEF s, b0
  <2>7. ASSUME NEW b \in Batch PROVE Passed(b)' <=> Passed(b) \/ b = b0
    BY <1>1, <1>2, <1>4, <2>1, <2>3, <2>4 DEF Passed
  <2>8. key' > 0 /\ j + 1 \in 0..key' /\ (key + s) - s = key
    <3>1. j \in Nat /\ s \in Nat \ {0} /\ key \in Nat /\ key' = key + s /\ key' = (j + 1) * s
      BY <1>2, <2>1, <2>2, <2>3
    <3>2. (j + 1) * 1 <= (j + 1) * s
      BY <3>1
    <3> QED BY <3>1, <3>2
  <2>9. LastBatch' = b0
    BY <1>2, <2>1, <2>3, <2>4, <2>8 DEF LastBatch, s, b0
  <2>10. \A b \in Batch : pc'[b] \in CallbackStages /\ (pc'[b] # "none" <=> Passed(b)')
    BY <2>4, <2>5, <2>7 DEF Place, CallbackStages
  <2>11. StepSize(Keys)' = s
    BY <1>4, <2>4 DEF s
  <2>12. BatchesOf(info)' = BatchesOf(info) /\ info' \in Fetched'
    BY <1>4, <2>1
  <2>13. key' > 0 => info' \in Fetched' /\ \E i \in 0..key' : key' = i * StepSize(Keys)'
    BY <2>3, <2>8, <2>11, <2>12
  <2>14. pc'[DoService] = "items" =>
           key' > 0 /\ LastBatch' \in BatchesOf(info)' /\ pc'[LastBatch'] = "refused"
    BY <2>3, <2>5, <2>8, <2>9, <2>12
  <2> QED BY <2>5, <2>10, <2>12, <2>13, <2>14 DEF Place
<1> QED BY <1>5, <1>6, <1>7, <1>8, <1>9, <1>10

LEMMA PlaceCorrect == Spec => []PlaceInv
<1>1. Init => PlaceInv
  <2> SUFFICES ASSUME Init PROVE PlaceInv
    OBVIOUS
  <2>1. /\ request \in Requests /\ info = 1 /\ key = 0
        /\ Len(request.infos) \in Nat /\ request.cached \in BOOLEAN
    BY RequestFacts DEF Init
  <2>2. /\ DoService \in Thread /\ DoService \notin Batch
        /\ \A b \in Batch : b[1] \in 1..MaxInfos /\ b[2] \in Nat /\ b \in Thread
    BY <2>1, Threads
  <2>3. pc \in [Thread -> Stages]
    BY DEF Init, Stages
  <2>4. PlaceTyped
    <3>1. cached_left \in BOOLEAN /\ crashed \in BOOLEAN /\ unmerged \in BOOLEAN
      BY <2>1 DEF Init
    <3> QED BY <2>1, <2>3, <3>1 DEF Init, PlaceTyped
  <2>5. pc[DoService] = "begin" /\ \A b \in Batch : pc[b] = "none"
    BY <2>2 DEF Init
  <2>6. \A b \in Batch : ~Passed(b)
    BY <2>1, <2>2 DEF Passed
  <2>7. Ends = 0
    BY DEF Init, Ends
  <2> QED BY <2>1, <2>4, <2>5, <2>6, <2>7 DEF Init, PlaceInv, Place, CallbackStages
<1>2. PlaceInv /\ [Next]_vars => PlaceInv'
  <2> SUFFICES ASSUME PlaceInv, [Next]_vars PROVE PlaceInv'
    OBVIOUS
  <2>1. ASSUME NEW t \in Thread, ThreadStep(t) PROVE PlaceInv'
    BY <2>1, PlaceTypedKept, PlaceFinish, PlaceLoops DEF ThreadStep, PlaceInv
  <2>2. CASE UNCHANGED vars
    <3>1. PlaceTyped'
      BY <2>2 DEF vars, PlaceInv, PlaceTyped
    <3> QED BY <2>2, <3>1, PlaceStill, SameEnds DEF vars, PlaceInv
  <2> QED BY <2>1, <2>2 DEF Next, Terminated
<1> QED BY <1>1, <1>2, PTL DEF Spec

-----------------------------------------------------------------------------
(***************************************************************************)
(* The cached values and the promise.                                      *)
(***************************************************************************)
\* A step that leaves the cached values alone.
LEMMA CacheStill ==
  ASSUME PlaceInv, CacheInv, UNCHANGED <<request, cached_left, promise, parses>>,
         pc[DoService] # "begin", pc'[DoService] # "begin",
         \A u \in Thread : /\ pc'[u] \in {"parse", "await"} =>
                                pc[u] \in {"parse", "await"} \/ promise # "none"
                           /\ pc'[u] \in {"respond", "notify"} =>
                                pc[u] \in {"respond", "notify"} \/ promise # "unset",
         responses' > 0 => responses > 0 \/ promise # "unset"
  PROVE  CacheInv'
BY DEF CacheInv

LEMMA NextCache ==
  ASSUME PlaceInv, PlaceInv', CacheInv, [Next]_vars
  PROVE  CacheInv'
<1>1. /\ DoService \in Thread /\ DoService \notin Batch /\ Thread = {DoService} \cup Batch
      /\ pc \in [Thread -> Stages] /\ request \in Requests
      /\ request.cached \in BOOLEAN /\ request.cached => request.infos # <<>>
      /\ cached_left \in BOOLEAN /\ responses \in Nat
  BY Threads, RequestFacts DEF PlaceInv, PlaceTyped
<1>2. \A t \in Thread : pc[t] \notin {"begin", "none"} => pc[DoService] # "begin"
  BY Begun
<1>3. CASE Begin
  <2>1. /\ promise = "none" /\ cached_left = request.cached /\ responses = 0
        /\ pc[DoService] = "begin"
        /\ UNCHANGED <<request, cached_left, parses, responses>>
    BY <1>3, EndsFacts DEF Begin, CacheInv, PlaceInv, Place, history
  <2>2. /\ pc'[DoService] \in {"respond", "loop"}
        /\ pc'[DoService] = "respond" => request.infos = <<>>
        /\ promise' = IF request.infos # <<>> /\ cached_left THEN "unset" ELSE "none"
    BY <1>1, <1>3, <2>1 DEF Begin
  <2>3. \A b \in Batch : pc'[b] \in {"none", "begin"}
    <3>1. \A b \in Batch : pc'[b] = pc[b]
      BY <1>1, <1>3 DEF Begin
    <3> QED BY <1>1, <1>2, <2>1, <3>1
  <2>4. parses' = IF request.cached /\ ~cached_left THEN 1 ELSE 0
    BY <2>1 DEF CacheInv
  <2> QED BY <1>1, <2>1, <2>2, <2>3, <2>4 DEF CacheInv
<1>4. CASE SkipInfo \/ OpenInfo \/ CloseInfo
  <2>1. /\ UNCHANGED <<request, cached_left, promise, parses, responses>>
        /\ pc[DoService] \in {"loop", "fetch"}
        /\ pc'[DoService] \in {"cond", "fetch", "loop"}
        /\ \A b \in Batch : pc'[b] = pc[b]
    BY <1>1, <1>4 DEF SkipInfo, OpenInfo, CloseInfo, cache, history
  <2> QED BY <1>1, <2>1, CacheStill
<1>5. CASE Fetch
  <2>1. /\ UNCHANGED <<request, cached_left, promise, parses, responses>>
        /\ pc[DoService] = "fetch"
        /\ \A u \in Thread : pc'[u] \in {"sent", "refused", "items", pc[u]}
    BY <1>1, <1>5 DEF Fetch, cache, history
  <2> QED BY <1>1, <2>1, CacheStill
<1>6. CASE ParseRest
  <2>1. /\ pc[DoService] = "loop"
        /\ UNCHANGED <<request, responses>>
        /\ pc'[DoService] \in {"loop", "done"} /\ \A b \in Batch : pc'[b] = pc[b]
    BY <1>1, <1>6 DEF ParseRest, Crash
  <2>2. \/ UNCHANGED <<cached_left, promise, parses>>
        \/ cached_left /\ ~cached_left' /\ promise' = "set" /\ parses' = parses + 1
    BY <1>6 DEF ParseRest, ParseCachedData, cache
  <2>3. CASE UNCHANGED <<cached_left, promise, parses>>
    BY <1>1, <2>1, <2>3, CacheStill
  <2>4. CASE cached_left /\ ~cached_left' /\ promise' = "set" /\ parses' = parses + 1
    BY <1>1, <2>1, <2>4 DEF CacheInv
  <2> QED BY <2>2, <2>3, <2>4
<1>7. ASSUME NEW t \in Thread, Finish(t) \/ (t \in Batch /\ Callback(t))
      PROVE  CacheInv'
  <2>1. /\ pc[t] \in {"sent", "items", "cond", "merge", "parse", "await", "respond", "notify"}
        /\ request' = request
        /\ \A u \in Thread \ {t} : pc'[u] = pc[u]
    BY <1>1, <1>7 DEF Finish, Callback, CountItem, CountInfo, Merge, MergeThrows, Throw,
                      ParseInFinish, Await, Respond, Notify, Crash
  <2>2. pc[DoService] # "begin" /\ pc'[DoService] # "begin"
    BY <1>1, <1>2, <1>7, <2>1 DEF Finish, Callback, CountItem, CountInfo, Merge, MergeThrows,
         Throw, ParseInFinish, Await, Respond, Notify, Crash, Resume
  <2>3. CASE CountItem(t) \/ CountInfo(t) \/ Notify(t) \/ Callback(t)
    <3>1. /\ UNCHANGED <<cached_left, promise, parses, responses>>
          /\ pc'[t] \in {"items", "cond", "merge", "loop", "fetch", "done"}
      BY <1>1, <2>3 DEF CountItem, CountInfo, Notify, Callback, Resume, cache, history
    <3> QED BY <2>1, <2>2, <3>1, CacheStill
  <2>4. CASE Merge(t)
    <3>1. /\ UNCHANGED <<cached_left, promise, parses, responses>>
          /\ \/ pc'[t] = pc[t]
             \/ pc'[t] = "items"
             \/ pc'[t] = "respond" /\ promise = "none"
             \/ pc'[t] \in {"parse", "await"} /\ promise # "none"
      BY <1>1, <2>4 DEF Merge, MergeThrows, Throw, Crash, cache
    <3> QED BY <2>1, <2>2, <3>1, CacheStill
  <2>5. CASE Await(t)
    <3>1. /\ UNCHANGED <<cached_left, promise, parses, responses>>
          /\ pc'[t] = "respond" /\ promise = "set"
      BY <1>1, <2>5 DEF Await, cache, history
    <3> QED BY <2>1, <2>2, <3>1, CacheStill
  <2>6. CASE Respond(t)
    <3>1. /\ UNCHANGED <<cached_left, promise, parses>>
          /\ pc[t] = "respond" /\ pc'[t] \in {"respond", "notify", "items"}
      BY <1>1, <2>6 DEF Respond, Throw, Crash, cache
    <3>2. promise # "unset"
      BY <3>1 DEF CacheInv
    <3> QED BY <2>1, <2>2, <3>1, <3>2, CacheStill
  <2>7. CASE ParseInFinish(t)
    <3>1. /\ pc[t] = "parse" /\ responses' = responses
          /\ \/ /\ UNCHANGED <<cached_left, promise, parses>>
                /\ pc'[t] = "parse"
             \/ /\ parses' = parses + (IF cached_left THEN 1 ELSE 0)
                /\ ~cached_left' /\ promise' = "set" /\ pc'[t] = "await"
      BY <1>1, <2>7 DEF ParseInFinish, ParseCachedData, Crash, cache
    <3>2. CASE UNCHANGED <<cached_left, promise, parses>> /\ pc'[t] = "parse"
      BY <2>1, <2>2, <3>1, <3>2, CacheStill
    <3>3. CASE /\ parses' = parses + (IF cached_left THEN 1 ELSE 0)
               /\ ~cached_left' /\ promise' = "set" /\ pc'[t] = "await"
      <4>1. request.cached
        BY <2>2, <3>1 DEF CacheInv
      <4>2. parses' = 1
        BY <3>3, <4>1 DEF CacheInv
      <4> QED BY <1>1, <2>1, <2>2, <3>1, <3>3, <4>1, <4>2 DEF CacheInv
    <3> QED BY <3>1, <3>2, <3>3
  <2> QED BY <1>7, <2>3, <2>4, <2>5, <2>6, <2>7 DEF Finish
<1>8. CASE UNCHANGED vars
  BY <1>8 DEF vars, CacheInv
<1> QED BY <1>3, <1>4, <1>5, <1>6, <1>7, <1>8 DEF Next, ThreadStep, Terminated

LEMMA CacheCorrect == Spec => []CacheInv
<1>1. Init => CacheInv
  <2> SUFFICES ASSUME Init PROVE CacheInv
    OBVIOUS
  <2>1. /\ DoService \in Thread /\ request.cached \in BOOLEAN
    BY Threads, RequestFacts DEF Init
  <2>2. pc[DoService] = "begin" /\ \A t \in Thread : pc[t] \in {"begin", "none"}
    BY <2>1 DEF Init
  <2> QED BY <2>1, <2>2 DEF Init, CacheInv
<1> QED BY <1>1, NextCache, PlaceCorrect, PTL DEF Spec

(***************************************************************************)
(* Whichever thread parses the values found in the cache, they are parsed  *)
(* once, and before process_response: do_service and a callback never      *)
(* parse them both, and nobody gets past the promise too early             *)
(* (redis_service.cpp:378-379).                                            *)
(***************************************************************************)
THEOREM CachedParsedOnceCorrect == Spec => []CachedParsedOnce
<1>1. PlaceInv /\ CacheInv => CachedParsedOnce
  <2> SUFFICES ASSUME PlaceInv, CacheInv PROVE CachedParsedOnce
    OBVIOUS
  <2>1. promise \in {"none", "unset", "set"} /\ responses \in Nat
        /\ (pc[DoService] = "begin" => responses = 0)
    BY EndsFacts DEF PlaceInv, PlaceTyped, Place
  <2> QED BY <2>1 DEF CacheInv, CachedParsedOnce
<1> QED BY <1>1, PlaceCorrect, CacheCorrect, PTL

-----------------------------------------------------------------------------
(***************************************************************************)
(* What the counters count: finite sets.                                   *)
(***************************************************************************)
LEMMA UncountedFacts ==
  ASSUME PlaceInv, NEW f \in Fetched
  PROVE  /\ IsFiniteSet(Uncounted(f))
         /\ Cardinality(Uncounted(f)) \in 0..MaxKeys
         /\ Cardinality(Uncounted(f)) = 0 <=> Uncounted(f) = {}
<1>1. /\ IsFiniteSet(BatchesOf(f)) /\ Cardinality(BatchesOf(f)) \in 1..MaxKeys
      /\ MaxKeys \in Nat
  <2>1. request \in Requests
    BY DEF PlaceInv, PlaceTyped
  <2>2. /\ IsFiniteSet(BatchesOf(f)) /\ BatchCount(request.infos[f].keys) \in 1..MaxKeys
        /\ Cardinality(BatchesOf(f)) = BatchCount(request.infos[f].keys)
    BY <2>1, BatchFacts
  <2>3. MaxKeys \in Nat
    BY <2>1, RequestFacts
  <2> QED BY <2>2, <2>3
<1>2. Uncounted(f) \subseteq BatchesOf(f)
  BY DEF Uncounted
<1>3. /\ IsFiniteSet(Uncounted(f))
      /\ Cardinality(Uncounted(f)) <= Cardinality(BatchesOf(f))
  BY <1>1, <1>2, FS_Subset
<1>4. Cardinality(Uncounted(f)) \in Nat
  BY <1>3, FS_CardinalityType
<1> QED BY <1>1, <1>3, <1>4, FS_EmptySet

LEMMA LeftFacts ==
  ASSUME PlaceInv
  PROVE  /\ IsFiniteSet(InfosLeft)
         /\ Cardinality(InfosLeft) \in 0..MaxInfos
         /\ Cardinality(InfosLeft) = 0 <=> InfosLeft = {}
         /\ IsFiniteSet(DOMAIN request.infos)
         /\ Cardinality(DOMAIN request.infos) = Len(request.infos)
<1>1. /\ Len(request.infos) \in 0..MaxInfos /\ DOMAIN request.infos = 1..Len(request.infos)
      /\ MaxInfos \in Nat
  BY RequestFacts DEF PlaceInv, PlaceTyped
<1>2. /\ IsFiniteSet(DOMAIN request.infos)
      /\ Cardinality(DOMAIN request.infos) = Len(request.infos)
  BY <1>1, FS_Interval
<1>3. InfosLeft \subseteq DOMAIN request.infos
  BY DEF InfosLeft
<1>4. /\ IsFiniteSet(InfosLeft)
      /\ Cardinality(InfosLeft) <= Len(request.infos)
  BY <1>2, <1>3, FS_Subset
<1>5. Cardinality(InfosLeft) \in Nat
  BY <1>4, FS_CardinalityType
<1> QED BY <1>1, <1>2, <1>4, <1>5, FS_EmptySet

\* A batch that has been handed over belongs to a fetch_info that is open.
LEMMA PassedOpened ==
  ASSUME PlaceInv, NEW b \in Batch, pc[b] # "none"
  PROVE  b \in AllBatches /\ b[1] \in Fetched /\ b \in BatchesOf(b[1]) /\ Opened(b[1])
<1>1. Passed(b) /\ request \in Requests /\ key \in Nat
  BY DEF PlaceInv, PlaceTyped, Place
<1>2. b[1] \in Fetched /\ b \in BatchesOf(b[1]) /\ b[2] \in Nat
  BY <1>1, Threads DEF Passed
<1> QED BY <1>1, <1>2 DEF Passed, Opened

\* The batch a thread counts down.
Counts(t) == IF t = DoService THEN LastBatch ELSE t

(***************************************************************************)
(* A thread about to count down item_size_cond, before process_response    *)
(* has thrown, counts a batch that waits.                                  *)
(***************************************************************************)
LEMMA ItemWaits ==
  ASSUME PlaceInv, NEW t \in Thread, pc[t] = "items", Ends = 0 \/ t = DoService
  PROVE  /\ InfoOf(t) \in Fetched /\ Opened(InfoOf(t))
         /\ Counts(t) \in Uncounted(InfoOf(t))
         /\ InfoOf(t) \in InfosLeft
         /\ key = 0 => t \in Batch
         /\ InfoOf(t) = EndOf(t)
<1>1. /\ DoService \notin Batch /\ Thread = {DoService} \cup Batch
      /\ Fetched \subseteq DOMAIN request.infos /\ key \in Nat
  BY Threads, RequestFacts DEF PlaceInv, PlaceTyped
<1>2. CASE t = DoService
  <2>1. /\ key > 0 /\ LastBatch \in BatchesOf(info) /\ pc[DoService] = "items"
        /\ info \in Fetched
    BY <1>2 DEF PlaceInv, Place
  <2>2. InfoOf(t) = info /\ Counts(t) = LastBatch /\ EndOf(t) = info
    BY <1>1, <1>2, <2>1 DEF InfoOf, Counts, EndOf
  <2>3. Opened(info) /\ LastBatch \in Uncounted(info)
    BY <2>1 DEF Opened, Uncounted, Waits
  <2> QED BY <1>1, <2>1, <2>2, <2>3 DEF InfosLeft, Open
<1>3. CASE t \in Batch
  <2>1. InfoOf(t) = t[1] /\ Counts(t) = t /\ Ends = 0 /\ EndOf(t) = t[1]
    BY <1>1, <1>3 DEF InfoOf, Counts, EndOf
  <2>2. t[1] \in Fetched /\ t \in BatchesOf(t[1]) /\ Opened(t[1])
    BY <1>3, PassedOpened
  <2>3. t \in Uncounted(t[1])
    BY <2>1, <2>2 DEF Uncounted, Waits
  <2> QED BY <1>1, <1>3, <2>1, <2>2, <2>3 DEF InfosLeft, Open
<1> QED BY <1>1, <1>2, <1>3

\* When no fetch_info is left nobody is about to count for the first time.
LEMMA NobodyCounts ==
  ASSUME PlaceInv, InfosLeft = {}
  PROVE  /\ pc[DoService] # "items"
         /\ \A t \in Thread : pc[t] = "items" => Ends # 0
         /\ \A f \in Fetched : Opened(f) /\ Uncounted(f) = {}
         /\ \A t \in Thread : pc[t] # "cond"
<1>1. DoService \in Thread /\ Fetched \subseteq DOMAIN request.infos /\ key \in Nat
      /\ Thread = {DoService} \cup Batch /\ DoService \notin Batch
  BY Threads, RequestFacts DEF PlaceInv, PlaceTyped
<1>2. \A f \in Fetched : Opened(f) /\ Uncounted(f) = {}
  BY <1>1 DEF InfosLeft, Open
<1>3. ASSUME NEW t \in Thread, pc[t] = "cond" PROVE FALSE
  <2>1. EndOf(t) \in DOMAIN request.infos
    <3>1. CASE t = DoService
      BY <1>1, <1>3, <3>1 DEF EndOf, InfoOf, PlaceInv, Place
    <3>2. CASE t \in Batch
      BY <1>1, <1>3, <3>2, PassedOpened DEF EndOf, InfoOf
    <3> QED BY <1>1, <3>1, <3>2
  <2>2. t \in Ended(EndOf(t))
    BY <1>3 DEF Ended
  <2> QED BY <2>1, <2>2 DEF InfosLeft
<1> QED BY <1>1, <1>2, <1>3, ItemWaits

LEMMA SameUncounted ==
  ASSUME request' = request, NEW f, \A b \in BatchesOf(f) : Waits(b)' <=> Waits(b)
  PROVE  Uncounted(f)' = Uncounted(f)
BY SameRequest DEF Uncounted

(***************************************************************************)
(* A step that counts nothing.                                             *)
(***************************************************************************)
LEMMA CountStill ==
  ASSUME PlaceInv, CountInv, request' = request, pc[DoService] # "begin",
         UNCHANGED <<cond, item_size_cond, Ends, responses, outputs>>,
         crashed => crashed',
         \A f \in Fetched : Opened(f)' <=> Opened(f),
         \A b \in AllBatches : Waits(b)' <=> Waits(b),
         \A f \in DOMAIN request.infos \ Fetched : f >= info' <=> f >= info,
         \A t \in Thread :
            /\ pc'[t] = "cond" <=> pc[t] = "cond"
            /\ pc[t] = "cond" => EndOf(t)' = EndOf(t)
            /\ Finisher(t)' <=> Finisher(t)
            /\ pc'[t] = "items" /\ Ends > 0 => pc[t] = "items" /\ InfoOf(t)' = InfoOf(t)
            /\ pc'[t] \in {"merge", "parse", "await", "respond"} =>
                 pc[t] \in {"merge", "parse", "await", "respond"}
            /\ pc'[t] = "notify" => pc[t] = "notify"
  PROVE  CountInv'
<1>1. Fetched' = Fetched /\ AllBatches' = AllBatches /\ \A f : BatchesOf(f)' = BatchesOf(f)
  BY SameRequest
<1>2. \A f \in Fetched : Uncounted(f)' = Uncounted(f)
  BY SameUncounted DEF AllBatches
<1>3. \A f \in DOMAIN request.infos : Open(f)' <=> Open(f)
  BY <1>1, <1>2 DEF Open
<1>4. \A f : Ended(f)' = Ended(f)
  BY DEF Ended
<1>5. InfosLeft' = InfosLeft
  BY <1>3, <1>4 DEF InfosLeft
<1>6. Ends' = 0 => \A f \in 1..MaxInfos : item_size_cond'[f] =
        IF f \in Fetched' /\ Opened(f)' THEN Cardinality(Uncounted(f)') ELSE 0
  BY <1>1, <1>2 DEF CountInv
<1> QED BY <1>3, <1>4, <1>5, <1>6 DEF CountInv

(***************************************************************************)
(* deep_cond_finish_func: the thread that takes item_size_cond to zero has *)
(* counted the last batch of its fetch_info, and goes on to count that.    *)
(***************************************************************************)
LEMMA CountItemInv ==
  ASSUME PlaceInv, PlaceInv', CountInv, NEW t \in Thread, CountItem(t)
  PROVE  CountInv'
<1>0. PICK f, b0 : f = InfoOf(t) /\ b0 = Counts(t)
  OBVIOUS
<1> DEFINE w == IF item_size_cond[f] = 1 THEN "cond" ELSE Resume(t)
<1>1. /\ DoService \in Thread /\ DoService \notin Batch /\ Thread = {DoService} \cup Batch
      /\ AllBatches \subseteq Batch /\ key \in Nat /\ Ends \in Nat
      /\ pc \in [Thread -> Stages] /\ item_size_cond \in [1..MaxInfos -> Int]
      /\ Fetched \subseteq DOMAIN request.infos /\ DOMAIN request.infos \subseteq 1..MaxInfos
      /\ \A b : b \in AllBatches <=> b[1] \in Fetched /\ b \in BatchesOf(b[1])
  <2>1. /\ request \in Requests /\ key \in Nat /\ Ends \in Nat
        /\ pc \in [Thread -> Stages] /\ item_size_cond \in [1..MaxInfos -> Int]
    BY EndsFacts DEF PlaceInv, PlaceTyped
  <2>2. DOMAIN request.infos \subseteq 1..MaxInfos
    BY <2>1, RequestFacts
  <2> QED BY <2>1, <2>2, Threads, RequestFacts
<1>2. /\ pc[t] = "items" /\ pc' = [pc EXCEPT ![t] = w]
      /\ item_size_cond' = [item_size_cond EXCEPT ![f] = @ - 1]
      /\ UNCHANGED <<request, info, key, cond, Ends, outputs, crashed>>
  BY <1>0, SameEnds DEF CountItem, history
<1>3. /\ Fetched' = Fetched /\ AllBatches' = AllBatches
      /\ \A g : BatchesOf(g)' = BatchesOf(g)
      /\ LastBatch' = LastBatch
      /\ \A u : InfoOf(u)' = InfoOf(u) /\ EndOf(u)' = EndOf(u)
  BY <1>2, SameRequest DEF LastBatch, Keys, InfoOf, EndOf
<1>4. pc[DoService] # "begin"
  BY <1>2, Begun
<1>5. /\ pc'[t] = w /\ \A u \in Thread \ {t} : pc'[u] = pc[u]
      /\ item_size_cond[f] = 1 => w = "cond"
      /\ item_size_cond[f] # 1 => w = Resume(t)
  BY <1>1, <1>2
<1>6. /\ Resume(t) \in {"done", "loop", "fetch"}
      /\ t = DoService => key > 0 /\ Resume(t) = "fetch"
  BY <1>1, <1>2 DEF Resume, PlaceInv, Place
<1> HIDE DEF w
<1>7. \A g \in Fetched : Opened(g)' <=> Opened(g)
  BY <1>1, <1>2, <1>5, <1>6 DEF Opened
<1>8. CASE Ends = 0
  <2>1. /\ f \in Fetched /\ Opened(f) /\ b0 \in Uncounted(f) /\ f \in InfosLeft /\ f = EndOf(t)
        /\ f \in 1..MaxInfos /\ b0 \in BatchesOf(f) /\ b0 \in AllBatches
    BY <1>0, <1>1, <1>2, <1>8, ItemWaits DEF Uncounted, AllBatches
  <2>2. \A b \in AllBatches : Waits(b)' <=> Waits(b) /\ b # b0
    <3>1. CASE t = DoService
      <4>1. b0 = LastBatch /\ pc[b0] = "refused" /\ b0 # t /\ pc'[t] \in {"cond", "fetch"}
        BY <1>0, <1>1, <1>2, <1>5, <1>6, <2>1, <3>1 DEF Counts, PlaceInv, Place
      <4> QED BY <1>1, <1>2, <1>3, <1>5, <3>1, <4>1 DEF Waits
    <3>2. CASE t \in Batch
      <4>1. b0 = t /\ pc'[DoService] = pc[DoService] /\ pc'[t] \in {"cond", "done", "loop", "fetch"}
        BY <1>0, <1>1, <1>5, <1>6, <3>2 DEF Counts
      <4>2. pc[DoService] = "items" => t # LastBatch
        BY <1>2 DEF PlaceInv, Place
      <4> QED BY <1>1, <1>2, <1>3, <1>5, <3>2, <4>1, <4>2 DEF Waits
    <3> QED BY <1>1, <3>1, <3>2
  <2>3. Uncounted(f)' = Uncounted(f) \ {b0}
    BY <1>3, <2>1, <2>2 DEF Uncounted, AllBatches
  <2>4. \A g \in Fetched \ {f} : Uncounted(g)' = Uncounted(g)
    <3>1. ASSUME NEW g \in Fetched \ {f} PROVE b0 \notin BatchesOf(g)
      <4>1. b0[1] = f /\ (b0 \in BatchesOf(g) => b0[1] = g)
        BY <2>1, <3>1, BatchFacts DEF PlaceInv, PlaceTyped
      <4> QED BY <3>1, <4>1
    <3> QED BY <1>3, <2>2, <3>1 DEF Uncounted, AllBatches
  <2>5. /\ item_size_cond[f] = Cardinality(Uncounted(f))
        /\ Cardinality(Uncounted(f)') = item_size_cond[f] - 1
        /\ Cardinality(Uncounted(f)') = 0 <=> Uncounted(f)' = {}
    <3>1. item_size_cond[f] = Cardinality(Uncounted(f))
      BY <1>8, <2>1 DEF CountInv
    <3>2. IsFiniteSet(Uncounted(f)) /\ Cardinality(Uncounted(f)) \in Nat
      BY <2>1, UncountedFacts
    <3>3. /\ Cardinality(Uncounted(f) \ {b0}) = Cardinality(Uncounted(f)) - 1
          /\ IsFiniteSet(Uncounted(f) \ {b0})
      BY <2>1, <3>2, FS_RemoveElement
    <3> QED BY <2>3, <3>1, <3>3, FS_EmptySet
  <2>6. item_size_cond'[f] = item_size_cond[f] - 1
        /\ \A g \in 1..MaxInfos \ {f} : item_size_cond'[g] = item_size_cond[g]
    BY <1>1, <1>2, <2>1
  <2>7. /\ Open(f) /\ Ended(f) = {}
        /\ Open(f)' <=> item_size_cond[f] # 1
    BY <1>1, <1>3, <1>7, <2>1, <2>5, UncountedFacts DEF Open, CountInv
  <2>8. \A g \in DOMAIN request.infos \ {f} : Open(g)' <=> Open(g)
    BY <1>2, <1>3, <1>7, <2>4 DEF Open
  <2>9. /\ \A g \in DOMAIN request.infos \ {f} : Ended(g)' = Ended(g)
        /\ Ended(f)' = IF item_size_cond[f] = 1 THEN {t} ELSE {}
    BY <1>2, <1>3, <1>5, <1>6, <2>1, <2>7 DEF Ended
  <2>10. InfosLeft' = InfosLeft
    BY <1>1, <1>2, <2>1, <2>7, <2>8, <2>9 DEF InfosLeft
  <2>11. \A u \in Thread : ~Finisher(u)
    BY <2>1 DEF CountInv
  <2>12. \A u \in Thread : ~Finisher(u)' /\ pc'[u] \notin {"merge", "parse", "await", "respond", "notify"}
    BY <1>2, <1>5, <1>6, <1>8, <2>11 DEF Finisher
  <2>13. Ends' = 0 /\ outputs' <= Ends'
    BY <1>2, <1>8 DEF CountInv
  <2>14. cond' = Cardinality(InfosLeft')
    BY <1>2, <1>4, <2>10 DEF CountInv
  <2>15. ASSUME NEW g \in 1..MaxInfos
         PROVE  item_size_cond'[g] =
                  IF g \in Fetched' /\ Opened(g)' THEN Cardinality(Uncounted(g)') ELSE 0
    <3>1. CASE g = f
      BY <1>3, <1>7, <2>1, <2>5, <2>6, <3>1
    <3>2. CASE g # f
      BY <1>3, <1>7, <1>8, <2>4, <2>6, <3>2 DEF CountInv
    <3> QED BY <3>1, <3>2
  <2>16. ASSUME NEW g \in DOMAIN request'.infos
         PROVE  /\ Open(g)' => Ended(g)' = {}
                /\ \A u, v \in Ended(g)' : u = v
    <3>1. CASE g = f
      BY <2>7, <2>9, <3>1
    <3>2. CASE g # f
      BY <1>2, <2>8, <2>9, <3>2 DEF CountInv
    <3> QED BY <3>1, <3>2
  <2> QED BY <2>12, <2>13, <2>14, <2>15, <2>16 DEF CountInv
<1>9. CASE Ends # 0
  <2>1. Ends > 0 /\ Finisher(t)
    BY <1>1, <1>2, <1>9 DEF Finisher
  <2>2. /\ InfosLeft = {} /\ outputs = 0 /\ \A u \in Thread \ {t} : ~Finisher(u)
        /\ item_size_cond[f] = 0
    BY <1>0, <1>2, <2>1 DEF CountInv
  <2>3. t \in Batch /\ w = "done"
    BY <1>1, <1>2, <1>5, <2>2, NobodyCounts DEF Resume
  <2>4. f \in 1..MaxInfos
    BY <1>0, <1>1, <1>2, <2>3, PassedOpened DEF InfoOf
  <2>5. \A b \in AllBatches : Waits(b)' <=> Waits(b)
    BY <1>1, <1>2, <1>3, <1>5, <1>9, <2>3 DEF Waits
  <2>6. \A g \in Fetched : Uncounted(g)' = Uncounted(g)
    BY <1>2, <2>5, SameUncounted DEF AllBatches
  <2>7. \A g \in DOMAIN request.infos : (Open(g)' <=> Open(g)) /\ Ended(g)' = Ended(g)
    BY <1>2, <1>3, <1>5, <1>7, <2>3, <2>6 DEF Open, Ended
  <2>8. InfosLeft' = InfosLeft
    BY <1>2, <2>7 DEF InfosLeft
  <2>9. \A u \in Thread : /\ ~Finisher(u)' /\ pc'[u] # "items"
                          /\ pc'[u] \notin {"merge", "parse", "await", "respond", "notify"}
    BY <1>2, <1>5, <2>1, <2>2, <2>3 DEF Finisher
  <2>10. \A g \in 1..MaxInfos : item_size_cond'[g] \in {-1, 0}
    <3>1. \A g \in 1..MaxInfos : item_size_cond[g] \in {-1, 0}
      BY <2>1 DEF CountInv
    <3> QED BY <1>1, <1>2, <2>2, <2>4, <3>1
  <2>11. cond' = Cardinality(InfosLeft')
    BY <1>2, <1>4, <2>8 DEF CountInv
  <2> QED BY <1>2, <2>1, <2>2, <2>7, <2>8, <2>9, <2>10, <2>11 DEF CountInv
<1> QED BY <1>8, <1>9

(***************************************************************************)
(* The second counter: the thread that takes it to zero has ended the last *)
(* fetch_info, and nobody completes the request before it.                 *)
(***************************************************************************)
LEMMA CountInfoInv ==
  ASSUME PlaceInv, PlaceInv', CountInv, NEW t \in Thread, CountInfo(t)
  PROVE  CountInv'
<1>0. PICK f : f = EndOf(t)
  OBVIOUS
<1> DEFINE w == IF cond = 1 THEN "merge" ELSE Resume(t)
<1>1. /\ DoService \in Thread /\ DoService \notin Batch /\ Thread = {DoService} \cup Batch
      /\ AllBatches \subseteq Batch /\ key \in Nat /\ Ends \in Nat
      /\ pc \in [Thread -> Stages]
      /\ Fetched \subseteq DOMAIN request.infos
  BY Threads, RequestFacts, EndsFacts DEF PlaceInv, PlaceTyped
<1>2. /\ pc[t] = "cond" /\ pc' = [pc EXCEPT ![t] = w]
      /\ cond' = cond - 1
      /\ UNCHANGED <<request, info, key, item_size_cond, Ends, outputs, crashed>>
  BY SameEnds DEF CountInfo, history
<1>3. /\ Fetched' = Fetched /\ AllBatches' = AllBatches
      /\ \A g : BatchesOf(g)' = BatchesOf(g)
      /\ LastBatch' = LastBatch
      /\ \A u : InfoOf(u)' = InfoOf(u) /\ EndOf(u)' = EndOf(u)
  BY <1>2, SameRequest DEF LastBatch, Keys, InfoOf, EndOf
<1>4. pc[DoService] # "begin"
  BY <1>2, Begun
<1>5. /\ pc'[t] = w /\ \A u \in Thread \ {t} : pc'[u] = pc[u]
      /\ cond = 1 => w = "merge"
      /\ cond # 1 => w = Resume(t)
  BY <1>1, <1>2
<1>6. /\ Resume(t) \in {"done", "loop", "fetch"}
      /\ t = DoService => (key = 0 => Resume(t) = "loop")
  BY <1>1 DEF Resume
<1>7. t \in Ended(f)
  BY <1>0, <1>2 DEF Ended
<1> HIDE DEF w
<1>8. f \in DOMAIN request.infos
  <2>1. CASE t = DoService
    BY <1>0, <1>1, <1>2, <2>1 DEF EndOf, InfoOf, PlaceInv, Place
  <2>2. CASE t \in Batch
    BY <1>0, <1>1, <1>2, <2>2, PassedOpened DEF EndOf, InfoOf
  <2> QED BY <1>1, <2>1, <2>2
<1>9. ~Open(f) /\ Ended(f) = {t} /\ f \in InfosLeft
  BY <1>7, <1>8 DEF CountInv, InfosLeft
<1>10. \A g \in Fetched : Opened(g)' <=> Opened(g)
  BY <1>1, <1>2, <1>5, <1>6 DEF Opened
<1>11. \A b \in AllBatches : Waits(b)' <=> Waits(b)
  BY <1>1, <1>2, <1>3, <1>5, <1>6 DEF Waits
<1>12. \A g \in Fetched : Uncounted(g)' = Uncounted(g)
  BY <1>2, <1>11, SameUncounted DEF AllBatches
<1>13. \A g \in DOMAIN request.infos : Open(g)' <=> Open(g)
  BY <1>2, <1>3, <1>10, <1>12 DEF Open
<1>14. Ended(f)' = {} /\ \A g \in DOMAIN request.infos \ {f} : Ended(g)' = Ended(g)
  <2>1. pc'[t] # "cond"
    BY <1>5, <1>6
  <2>2. \A g : Ended(g)' = Ended(g) \ {t}
    BY <1>3, <1>5, <2>1 DEF Ended
  <2>3. \A g : g # f => t \notin Ended(g)
    BY <1>0 DEF Ended
  <2> QED BY <1>9, <2>2, <2>3
<1>15. InfosLeft' = InfosLeft \ {f}
  BY <1>2, <1>8, <1>9, <1>13, <1>14 DEF InfosLeft
<1>16. /\ cond = Cardinality(InfosLeft) /\ cond \in Nat
       /\ cond' = Cardinality(InfosLeft')
       /\ cond = 1 => InfosLeft' = {}
  <2>1. cond = Cardinality(InfosLeft) /\ IsFiniteSet(InfosLeft) /\ cond \in Nat
    BY <1>4, LeftFacts, RequestFacts DEF CountInv
  <2>2. /\ Cardinality(InfosLeft \ {f}) = Cardinality(InfosLeft) - 1
        /\ IsFiniteSet(InfosLeft \ {f})
    BY <1>9, <2>1, FS_RemoveElement
  <2> QED BY <1>2, <1>15, <2>1, <2>2, FS_EmptySet
<1>17. Ends = 0 /\ outputs = 0 /\ \A u \in Thread : ~Finisher(u)
  <2>1. Ends = 0 /\ \A u \in Thread : ~Finisher(u)
    BY <1>1, <1>9 DEF CountInv
  <2> QED BY <2>1 DEF CountInv, PlaceInv, PlaceTyped
<1>18. /\ \A u \in Thread \ {t} : ~Finisher(u)'
                /\ pc'[u] \notin {"merge", "parse", "await", "respond", "notify"}
       /\ Finisher(t)' => cond = 1
       /\ pc'[t] # "notify"
  BY <1>2, <1>5, <1>6, <1>17 DEF Finisher
<1>19. \A u \in Thread : Finisher(u)' => /\ InfosLeft' = {} /\ outputs' = 0
                                         /\ \A v \in Thread : Finisher(v)' => u = v
  BY <1>2, <1>16, <1>17, <1>18
<1>20. ASSUME NEW g \in DOMAIN request'.infos
       PROVE  /\ Open(g)' => Ended(g)' = {}
              /\ \A u, v \in Ended(g)' : u = v
  BY <1>2, <1>13, <1>14 DEF CountInv
<1>21. \A g \in 1..MaxInfos : item_size_cond'[g] =
         IF g \in Fetched' /\ Opened(g)' THEN Cardinality(Uncounted(g)') ELSE 0
  BY <1>2, <1>3, <1>10, <1>12, <1>17 DEF CountInv
<1> QED BY <1>2, <1>16, <1>17, <1>18, <1>19, <1>20, <1>21 DEF CountInv

(***************************************************************************)
(* process_response, the outputs and an exception in merge_cache_data:     *)
(* only the thread that took the second counter to zero gets here, with    *)
(* every batch counted.                                                    *)
(***************************************************************************)
LEMMA CompleteInv ==
  ASSUME PlaceInv, PlaceInv', CountInv, NEW t \in Thread, ~crashed,
         Respond(t) \/ Notify(t) \/ (Merge(t) /\ MergeThrows(t))
  PROVE  CountInv'
<1>1. /\ DoService \in Thread /\ DoService \notin Batch /\ Thread = {DoService} \cup Batch
      /\ AllBatches \subseteq Batch /\ key \in Nat /\ Ends \in Nat
      /\ pc \in [Thread -> Stages] /\ guarded \subseteq Batch
      /\ Fetched \subseteq DOMAIN request.infos /\ DOMAIN request.infos \subseteq 1..MaxInfos
  <2>1. request \in Requests
    BY DEF PlaceInv, PlaceTyped
  <2>2. DOMAIN request.infos \subseteq 1..MaxInfos
    BY <2>1, RequestFacts
  <2> QED BY <2>1, <2>2, Threads, RequestFacts, EndsFacts DEF PlaceInv, PlaceTyped
<1>2. /\ pc[t] \in {"merge", "respond", "notify"}
      /\ \A u \in Thread \ {t} : pc'[u] = pc[u]
      /\ pc'[t] \in {"merge", "respond", "notify", "items", Resume(t)}
      /\ pc'[t] = "items" => t \in Batch
      /\ UNCHANGED <<request, info, key, cond, item_size_cond>>
  <2>1. CASE Respond(t)
    <3>1. /\ pc[t] = "respond" /\ UNCHANGED <<request, info, key, cond, item_size_cond>>
          /\ \/ pc' = [pc EXCEPT ![t] = "notify"]
             \/ pc' = [pc EXCEPT ![t] = "items"] /\ t \in guarded
             \/ pc' = pc
      BY <2>1 DEF Respond, Throw, Crash, counters
    <3> QED BY <1>1, <3>1
  <2>2. CASE Notify(t)
    <3>1. Resume(t) # "items"
      BY DEF Resume
    <3> QED BY <1>1, <2>2, <3>1 DEF Notify, counters
  <2>3. CASE Merge(t) /\ MergeThrows(t)
    <3>1. /\ pc[t] = "merge" /\ UNCHANGED <<request, info, key, cond, item_size_cond>>
          /\ \/ pc' = [pc EXCEPT ![t] = "items"] /\ t \in guarded
             \/ pc' = pc
      BY <2>3 DEF Merge, MergeThrows, Throw, Crash, counters
    <3> QED BY <1>1, <3>1
  <2> QED BY <2>1, <2>2, <2>3
<1>3. /\ Fetched' = Fetched /\ AllBatches' = AllBatches
      /\ LastBatch' = LastBatch
      /\ \A u : InfoOf(u)' = InfoOf(u) /\ EndOf(u)' = EndOf(u)
  BY <1>2, SameRequest DEF LastBatch, Keys, InfoOf, EndOf
<1>4. pc[DoService] # "begin"
  BY <1>2, Begun
<1>5. /\ Resume(t) \in {"done", "loop", "fetch"}
      /\ t = DoService => (key = 0 => Resume(t) = "loop")
  BY <1>1 DEF Resume
<1>6. /\ InfosLeft = {} /\ outputs = 0 /\ \A u \in Thread \ {t} : ~Finisher(u)
      /\ pc[t] \in {"merge", "respond"} => Ends = 0 /\ responses = 0
      /\ pc[t] = "notify" => Ends = 1 /\ responses = 1
  <2>1. /\ InfosLeft = {} /\ outputs = 0 /\ \A u \in Thread \ {t} : ~Finisher(u)
        /\ pc[t] \in {"merge", "respond"} => Ends = 0
        /\ pc[t] = "notify" => responses = 1
        /\ Ends <= 1
    BY <1>2 DEF CountInv, Finisher
  <2>2. responses \in Nat /\ responses <= Ends
    BY EndsFacts DEF PlaceInv
  <2> QED BY <1>1, <2>1, <2>2
<1>7. /\ pc[DoService] # "items"
      /\ \A u \in Thread \ {t} : pc[u] # "items"
      /\ \A u \in Thread : pc[u] # "cond"
      /\ \A f \in Fetched : Opened(f) /\ Uncounted(f) = {}
  BY <1>1, <1>6, NobodyCounts DEF Finisher
<1>8. /\ outputs' = IF pc[t] = "notify" THEN 1 ELSE 0
      /\ pc'[t] \in {"notify", "items"} => pc[t] \in {"merge", "respond"}
      /\ pc'[t] = "notify" => responses' = 1
      /\ pc'[t] \in {"merge", "respond"} => crashed'
      /\ pc[t] = "notify" => pc'[t] = Resume(t)
  BY <1>1, <1>2, <1>5, <1>6 DEF Respond, Notify, Merge, MergeThrows, Throw, Crash
<1>9. Ends' = 1
  <2>1. CASE Respond(t)
    <3>1. ~unmerged /\ unmerged' = unmerged /\ responses' = 1
      BY <1>6, <2>1, EndsFacts DEF Respond, PlaceInv
    <3> QED BY <3>1 DEF Ends
  <2>2. CASE Notify(t)
    BY <1>6, <2>2, SameEnds DEF Notify
  <2>3. CASE Merge(t) /\ MergeThrows(t)
    <3>1. unmerged' /\ responses' = 0
      BY <1>6, <2>3 DEF Merge, MergeThrows
    <3> QED BY <3>1 DEF Ends
  <2> QED BY <2>1, <2>2, <2>3
<1>10. \A f \in Fetched : Opened(f)' <=> Opened(f)
  BY <1>1, <1>2, <1>5 DEF Opened
<1>11. \A f \in Fetched : Uncounted(f)' = {}
  <2>1. \A b \in AllBatches : ~Waits(b)
    BY <1>7 DEF Uncounted, AllBatches
  <2>2. \A b \in AllBatches : ~Waits(b)'
    BY <1>1, <1>2, <1>3, <1>5, <1>7, <1>9, <2>1 DEF Waits
  <2> QED BY <1>2, <2>2, SameRequest DEF Uncounted, AllBatches
<1>12. \A f : Ended(f)' = {} /\ Ended(f) = {}
  BY <1>1, <1>2, <1>5, <1>7 DEF Ended
<1>13. \A f \in DOMAIN request.infos : ~Open(f)'
  BY <1>2, <1>3, <1>6, <1>7, <1>10, <1>11 DEF Open, InfosLeft
<1>14. InfosLeft' = {}
  BY <1>2, <1>12, <1>13 DEF InfosLeft
<1>15. \A f \in 1..MaxInfos : item_size_cond[f] \in {-1, 0}
  <2>1. CASE pc[t] \in {"merge", "respond"}
    <3>1. ASSUME NEW f \in Fetched PROVE Cardinality(Uncounted(f)) = 0
      BY <1>7, UncountedFacts
    <3> QED BY <1>6, <2>1, <3>1 DEF CountInv
  <2>2. CASE pc[t] = "notify"
    BY <1>6, <2>2 DEF CountInv
  <2> QED BY <1>2, <2>1, <2>2
<1>16. ASSUME NEW u \in Thread, pc'[u] = "items" PROVE item_size_cond[InfoOf(u)] = 0
  <2>1. u = t /\ t \in Batch /\ pc[t] \in {"merge", "respond"} /\ Ends = 0
    BY <1>2, <1>6, <1>7, <1>8, <1>16
  <2>2. InfoOf(u) \in Fetched
    BY <1>1, <2>1, PassedOpened DEF InfoOf
  <2>3. Cardinality(Uncounted(InfoOf(u))) = 0
    BY <1>7, <2>2, UncountedFacts
  <2> QED BY <1>1, <1>7, <2>1, <2>2, <2>3 DEF CountInv
<1>17. \A u \in Thread \ {t} : ~Finisher(u)'
  BY <1>2, <1>6, <1>7 DEF Finisher
<1>18. Finisher(t)' => outputs' = 0
  BY <1>5, <1>8, <1>2 DEF Finisher
<1>19. cond' = Cardinality(InfosLeft')
  BY <1>2, <1>4, <1>6, <1>14 DEF CountInv
<1>20. \A u \in Thread : /\ pc'[u] \in {"merge", "parse", "await", "respond"} => crashed'
                         /\ pc'[u] = "notify" => responses' = 1
  BY <1>2, <1>5, <1>6, <1>8 DEF Finisher
<1>21. /\ \A u \in Thread : pc'[u] = "items" => item_size_cond'[InfoOf(u)'] = 0
       /\ \A f \in 1..MaxInfos : item_size_cond'[f] \in {-1, 0}
  BY <1>2, <1>3, <1>15, <1>16
<1>22. Ends' # 0 /\ Ends' <= 1 /\ outputs' <= Ends'
  BY <1>8, <1>9
<1> QED BY <1>9, <1>12, <1>14, <1>17, <1>18, <1>19, <1>20, <1>21, <1>22 DEF CountInv

(***************************************************************************)
(* The other steps of a callback, and of the thread that completes the     *)
(* request, count nothing.                                                 *)
(***************************************************************************)
LEMMA CallbackInv ==
  ASSUME PlaceInv, PlaceInv', CountInv, NEW t \in Thread,
         \/ t \in Batch /\ Callback(t)
         \/ Merge(t) /\ ~MergeThrows(t)
         \/ ParseInFinish(t) \/ Await(t)
  PROVE  CountInv'
<1>1. /\ DoService \in Thread /\ DoService \notin Batch /\ Thread = {DoService} \cup Batch
      /\ AllBatches \subseteq Batch /\ key \in Nat /\ Ends \in Nat
      /\ pc \in [Thread -> Stages]
  BY Threads, EndsFacts DEF PlaceInv, PlaceTyped
<1>2. /\ pc[t] \in {"sent", "merge", "parse", "await"}
      /\ pc[t] = "sent" => pc'[t] = "items" /\ t \in Batch
      /\ pc[t] # "sent" => pc'[t] \in {"merge", "parse", "await", "respond"}
      /\ \A u \in Thread \ {t} : pc'[u] = pc[u]
      /\ UNCHANGED <<request, info, key, cond, item_size_cond, Ends, responses, outputs>>
      /\ crashed => crashed'
  BY <1>1, SameEnds DEF Callback, Merge, ParseInFinish, Await, Crash, counters, history
<1>3. /\ LastBatch' = LastBatch
      /\ \A u : InfoOf(u)' = InfoOf(u) /\ EndOf(u)' = EndOf(u)
  BY <1>2, SameRequest DEF LastBatch, Keys, InfoOf, EndOf
<1>4. pc[DoService] # "begin"
  BY <1>2, Begun
<1>5. pc[t] = "sent" => Ends = 0
  <2> SUFFICES ASSUME pc[t] = "sent" PROVE Ends = 0
    OBVIOUS
  <2>1. t[1] \in Fetched /\ t \in BatchesOf(t[1])
    BY <1>2, PassedOpened
  <2>2. t \in Uncounted(t[1])
    BY <2>1 DEF Uncounted, Waits
  <2>3. InfosLeft # {}
    BY <2>1, <2>2, NobodyCounts
  <2> QED BY <1>1, <2>3 DEF CountInv
<1>6. \A f \in Fetched : Opened(f)' <=> Opened(f)
  BY <1>1, <1>2 DEF Opened
<1>7. \A b \in AllBatches : Waits(b)' <=> Waits(b)
  BY <1>1, <1>2, <1>3, <1>5 DEF Waits
<1>8. \A u \in Thread : Finisher(u)' <=> Finisher(u)
  BY <1>2, <1>5 DEF Finisher
<1> QED BY <1>1, <1>2, <1>3, <1>4, <1>5, <1>6, <1>7, <1>8, CountStill

(***************************************************************************)
(* The loops: a fetch_info that is skipped ends at once, one that is       *)
(* opened starts its counter at the number of its batches.                 *)
(***************************************************************************)
LEMMA LoopsInv ==
  ASSUME PlaceInv, PlaceInv', CountInv,
         Begin \/ SkipInfo \/ OpenInfo \/ Fetch \/ CloseInfo \/ ParseRest
  PROVE  CountInv'
<1>1. /\ DoService \in Thread /\ DoService \notin Batch /\ Thread = {DoService} \cup Batch
      /\ AllBatches \subseteq Batch /\ key \in Nat /\ Ends \in Nat /\ outputs \in Nat
      /\ pc \in [Thread -> Stages] /\ item_size_cond \in [1..MaxInfos -> Int]
      /\ \A b \in Batch : b[1] \in 1..MaxInfos /\ b[2] \in Nat
      /\ \A b : b \in AllBatches <=> b[1] \in Fetched /\ b \in BatchesOf(b[1])
  BY Threads, EndsFacts DEF PlaceInv, PlaceTyped
<1>2. /\ request \in Requests /\ Len(request.infos) \in 0..MaxInfos /\ MaxInfos \in Nat
      /\ DOMAIN request.infos = 1..Len(request.infos)
      /\ Fetched \subseteq 1..Len(request.infos)
      /\ info \in 1..(Len(request.infos) + 1)
      /\ request.infos = <<>> <=> Len(request.infos) = 0
  BY RequestFacts DEF PlaceInv, PlaceTyped
<1>3. request' = request /\ Ends' = Ends /\ responses' = responses /\ outputs' = outputs
  BY SameEnds DEF Begin, SkipInfo, OpenInfo, Fetch, CloseInfo, ParseRest, history
<1>4. /\ AllBatches' = AllBatches /\ Fetched' = Fetched
      /\ \A f : BatchesOf(f)' = BatchesOf(f)
  BY <1>3, SameRequest
<1>5. \A b \in Batch : pc[b] # "none" => b[1] \in Fetched /\ Opened(b[1])
  BY PassedOpened
<1>6. CASE Begin
  <2>1. /\ info = 1 /\ key = 0 /\ cond = 0 /\ Ends = 0 /\ outputs = 0
        /\ pc[DoService] = "begin"
        /\ UNCHANGED <<info, key, item_size_cond>>
        /\ \A b \in Batch : pc[b] = "none" /\ pc'[b] = "none"
    <3>1. pc[DoService] = "begin" /\ UNCHANGED <<info, key, item_size_cond>>
          /\ \A b \in Batch : pc'[b] = pc[b]
      BY <1>1, <1>6 DEF Begin
    <3>2. info = 1 /\ key = 0 /\ cond = 0 /\ Ends = 0
      BY <3>1 DEF PlaceInv, Place
    <3>3. \A b \in Batch : pc[b] \in {"none", "begin"}
      BY <1>1, <3>1, Begun
    <3>4. \A b \in Batch : pc[b] \in CallbackStages
      BY DEF PlaceInv, Place
    <3> QED BY <1>1, <3>1, <3>2, <3>3, <3>4 DEF CountInv, CallbackStages
  <2>2. /\ pc'[DoService] \in {"respond", "loop"}
        /\ pc'[DoService] = "respond" => request.infos = <<>> /\ cond' = 0
        /\ pc'[DoService] = "loop" => cond' = Len(request.infos)
        /\ request.infos = <<>> => pc'[DoService] = "respond"
    BY <1>1, <1>6, <2>1 DEF Begin
  <2>3. /\ \A f \in Fetched : ~Opened(f) /\ ~Opened(f)'
        /\ \A f : Ended(f)' = {}
    BY <1>1, <1>2, <2>1, <2>2 DEF Opened, Ended
  <2>4. InfosLeft' = DOMAIN request.infos
    BY <1>2, <1>3, <1>4, <2>1, <2>3 DEF InfosLeft, Open
  <2>5. cond' = Cardinality(InfosLeft')
    BY <1>2, <2>2, <2>4, LeftFacts
  <2>6. \A f \in 1..MaxInfos : item_size_cond'[f] = 0
    BY <2>1, <2>3 DEF CountInv
  <2>7. \A t \in Thread : /\ Finisher(t)' => t = DoService /\ InfosLeft' = {}
                          /\ pc'[t] \in {"respond", "loop", "none"}
    BY <1>1, <1>2, <1>3, <2>1, <2>2, <2>4 DEF Finisher
  <2> QED BY <1>3, <1>4, <2>1, <2>3, <2>5, <2>6, <2>7 DEF CountInv
<1>7. CASE SkipInfo
  <2>1. /\ info \in 1..Len(request.infos) /\ info \notin Fetched /\ key = 0
        /\ info' = info + 1 /\ key' = 0 /\ pc[DoService] = "loop"
        /\ pc'[DoService] = "cond" /\ \A b \in Batch : pc'[b] = pc[b]
        /\ UNCHANGED <<cond, item_size_cond, crashed>>
    BY <1>1, <1>2, <1>7 DEF SkipInfo, PlaceInv, Place, counters
  <2>2. \A f \in Fetched : Opened(f)' <=> Opened(f)
    BY <1>1, <1>2, <2>1 DEF Opened
  <2>3. \A b \in AllBatches : Waits(b)' <=> Waits(b)
    BY <1>1, <1>3, <2>1 DEF Waits
  <2>4. \A f \in Fetched : Uncounted(f)' = Uncounted(f)
    BY <1>3, <2>3, SameUncounted DEF AllBatches
  <2>5. /\ \A f \in DOMAIN request.infos \ {info} : Open(f)' <=> Open(f)
        /\ Open(info) /\ ~(info \in Fetched)
    BY <1>2, <1>3, <1>4, <2>1, <2>2, <2>4 DEF Open
  <2>6. \A f \in DOMAIN request'.infos : f = info => ~Open(f)'
    BY <1>2, <1>3, <1>4, <2>1 DEF Open
  <2>7. /\ \A b \in Batch : EndOf(b)' = EndOf(b) /\ (pc[b] = "cond" => EndOf(b) # info)
        /\ EndOf(DoService)' = info
    BY <1>1, <1>5, <2>1 DEF EndOf, InfoOf
  <2>8. \A f : Ended(f)' = IF f = info THEN {DoService} ELSE Ended(f)
    BY <1>1, <2>1, <2>7 DEF Ended
  <2>9. InfosLeft' = InfosLeft /\ info \in InfosLeft
    BY <1>2, <1>3, <2>1, <2>5, <2>6, <2>8 DEF InfosLeft
  <2>10. Ends = 0 /\ \A t \in Thread : ~Finisher(t)
    BY <1>1, <2>9 DEF CountInv
  <2>11. \A t \in Thread : ~Finisher(t)' /\ pc'[t] \notin {"merge", "parse", "await", "respond", "notify"}
    BY <1>1, <1>3, <2>1, <2>10 DEF Finisher
  <2>12. \A f \in 1..MaxInfos : item_size_cond'[f] =
           IF f \in Fetched' /\ Opened(f)' THEN Cardinality(Uncounted(f)') ELSE 0
    BY <1>4, <2>1, <2>2, <2>4, <2>10 DEF CountInv
  <2>13. ASSUME NEW f \in DOMAIN request'.infos
         PROVE  /\ Open(f)' => Ended(f)' = {}
                /\ \A t, u \in Ended(f)' : t = u
    BY <1>3, <2>5, <2>6, <2>8 DEF CountInv
  <2>14. cond' = Cardinality(InfosLeft') /\ outputs' <= Ends'
    BY <1>3, <2>1, <2>9 DEF CountInv
  <2> QED BY <1>3, <2>10, <2>11, <2>12, <2>13, <2>14 DEF CountInv
<1>8. CASE OpenInfo
  <2>1. /\ info \in Fetched /\ key = 0 /\ pc[DoService] = "loop"
        /\ info' = info /\ key' = 0 /\ cond' = cond
        /\ pc'[DoService] = "fetch" /\ \A b \in Batch : pc'[b] = pc[b]
        /\ item_size_cond' = [item_size_cond EXCEPT ![info] = BatchCount(Keys)]
    BY <1>1, <1>2, <1>8 DEF OpenInfo, PlaceInv, Place
  <2>2. /\ \A f \in Fetched \ {info} : Opened(f)' <=> Opened(f)
        /\ ~Opened(info) /\ Opened(info)'
    BY <1>1, <1>2, <2>1 DEF Opened
  <2>3. \A b \in AllBatches : Waits(b)' <=> Waits(b)
    BY <1>1, <1>3, <2>1 DEF Waits
  <2>4. \A f \in Fetched : Uncounted(f)' = Uncounted(f)
    BY <1>3, <2>3, SameUncounted DEF AllBatches
  <2>5. Uncounted(info) = BatchesOf(info) /\ BatchesOf(info) # {}
    <3>1. \A b \in BatchesOf(info) : b \in Batch /\ b[1] = info
      BY <1>2, <2>1, BatchFacts
    <3>2. \A b \in BatchesOf(info) : pc[b] = "none"
      BY <1>5, <2>2, <3>1
    <3> QED BY <1>2, <2>1, <3>2, BatchFacts DEF Uncounted, Waits
  <2>6. BatchCount(Keys) = Cardinality(BatchesOf(info)) /\ BatchCount(Keys) \in Nat
    <3>1. /\ Cardinality(BatchesOf(info)) = BatchCount(Keys)
          /\ BatchCount(Keys) \in 1..MaxKeys
      BY <1>2, <2>1, BatchFacts DEF Keys
    <3>2. MaxKeys \in Nat
      BY <1>2, RequestFacts
    <3> QED BY <3>1, <3>2
  <2>7. \A f \in DOMAIN request.infos : Open(f)' <=> Open(f)
    BY <1>3, <1>4, <2>1, <2>2, <2>4, <2>5 DEF Open
  <2>8. \A t : pc[t] = "cond" => t = DoService \/ EndOf(t)' = EndOf(t)
    BY <2>1 DEF EndOf, InfoOf
  <2>9. \A f : Ended(f)' = Ended(f)
    BY <1>1, <2>1, <2>8 DEF Ended
  <2>10. InfosLeft' = InfosLeft /\ info \in InfosLeft
    BY <1>2, <1>3, <2>1, <2>2, <2>7, <2>9 DEF InfosLeft, Open
  <2>11. Ends = 0 /\ \A t \in Thread : ~Finisher(t)
    BY <1>1, <2>10 DEF CountInv
  <2>12. \A t \in Thread : ~Finisher(t)' /\ pc'[t] \notin {"merge", "parse", "await", "respond", "notify"}
    BY <1>1, <1>3, <2>1, <2>11 DEF Finisher
  <2>13. ASSUME NEW f \in 1..MaxInfos
         PROVE item_size_cond'[f] =
                 IF f \in Fetched' /\ Opened(f)' THEN Cardinality(Uncounted(f)') ELSE 0
    <3>1. CASE f = info
      BY <1>1, <1>4, <2>1, <2>2, <2>4, <2>5, <2>6, <3>1
    <3>2. CASE f # info
      <4>1. item_size_cond'[f] = item_size_cond[f]
        BY <1>1, <2>1, <3>2
      <4> QED BY <1>4, <2>2, <2>4, <2>11, <3>2, <4>1 DEF CountInv
    <3> QED BY <3>1, <3>2
  <2>14. ASSUME NEW f \in DOMAIN request'.infos
         PROVE  /\ Open(f)' => Ended(f)' = {}
                /\ \A t, u \in Ended(f)' : t = u
    BY <1>3, <2>7, <2>9 DEF CountInv
  <2>15. cond' = Cardinality(InfosLeft') /\ outputs' <= Ends'
    BY <1>3, <2>1, <2>10 DEF CountInv
  <2> QED BY <1>3, <2>11, <2>12, <2>13, <2>14, <2>15 DEF CountInv
<1>9. CASE CloseInfo
  <2>1. /\ info \in Fetched /\ pc[DoService] = "fetch"
        /\ info' = info + 1 /\ key' = 0
        /\ pc'[DoService] = "loop" /\ \A b \in Batch : pc'[b] = pc[b]
        /\ UNCHANGED <<cond, item_size_cond, crashed>>
    BY <1>1, <1>2, <1>9 DEF CloseInfo, PlaceInv, Place, counters
  <2>2. \A f \in Fetched : Opened(f)' <=> Opened(f)
    BY <1>1, <1>2, <2>1 DEF Opened
  <2>3. \A b \in AllBatches : Waits(b)' <=> Waits(b)
    BY <1>1, <1>3, <2>1 DEF Waits
  <2>4. \A f \in DOMAIN request.infos \ Fetched : f >= info' <=> f >= info
    BY <1>2, <2>1
  <2>5. \A b \in Batch : EndOf(b)' = EndOf(b) /\ InfoOf(b)' = InfoOf(b)
    BY <1>1 DEF EndOf, InfoOf
  <2>6. \A t \in Thread : Finisher(t)' <=> Finisher(t)
    BY <1>1, <1>3, <2>1 DEF Finisher
  <2> QED BY <1>1, <1>3, <2>1, <2>2, <2>3, <2>4, <2>5, <2>6, CountStill
<1>10. CASE Fetch
  <2> DEFINE b0 == <<info, key>>
  <2>1. /\ info \in Fetched /\ key < Keys /\ pc[DoService] = "fetch"
        /\ info' = info /\ key' = key + StepSize(Keys)
        /\ UNCHANGED <<cond, item_size_cond, crashed>>
    BY <1>10 DEF Fetch, PlaceInv, Place, counters
  <2>2. StepSize(Keys) \in Nat \ {0} /\ Keys \in Nat
    BY <1>2, <2>1, RequestFacts, Strides DEF Keys
  <2>3. b0 \in Thread /\ b0 # DoService /\ b0 \in Batch
    <3>1. info \in 1..MaxInfos
      BY <1>2, <2>1
    <3>2. Keys \in 1..MaxKeys /\ MaxKeys \in Nat
      BY <1>2, <2>1, RequestFacts DEF Keys
    <3>3. key \in 0..(MaxKeys - 1)
      BY <1>1, <2>1, <3>2
    <3>4. b0 \in Batch
      BY <3>1, <3>3 DEF Batch
    <3> QED BY <1>1, <3>4
  <2>4. pc[b0] = "none"
    <3>1. ~Passed(b0)
      BY <1>1, <1>2 DEF Passed
    <3> QED BY <2>3, <3>1 DEF PlaceInv, Place
  <2>5. /\ \/ pc'[b0] = "sent" /\ pc'[DoService] = "fetch"
           \/ pc'[b0] = "refused" /\ pc'[DoService] = "items"
        /\ \A b \in Batch \ {b0} : pc'[b] = pc[b]
    <3>1. \/ pc' = [pc EXCEPT ![b0] = "sent"]
          \/ pc' = [pc EXCEPT ![b0] = "refused", ![DoService] = "items"]
      BY <1>10 DEF Fetch
    <3>2. pc[DoService] = "fetch" /\ DoService \in Thread
      BY <1>1, <2>1
    <3> HIDE DEF b0
    <3>3. CASE pc' = [pc EXCEPT ![b0] = "sent"]
      BY <1>1, <2>3, <3>2, <3>3
    <3>4. CASE pc' = [pc EXCEPT ![b0] = "refused", ![DoService] = "items"]
      BY <1>1, <2>3, <3>2, <3>4
    <3> QED BY <3>1, <3>3, <3>4
  <2>6. LastBatch' = b0
    <3>1. Keys' = Keys /\ StepSize(Keys)' = StepSize(Keys)
      BY <1>3, <2>1, SameRequest DEF Keys
    <3>2. (key + StepSize(Keys)) - StepSize(Keys) = key
      BY <1>1, <2>2
    <3> QED BY <2>1, <3>1, <3>2 DEF LastBatch
  <2> HIDE DEF b0
  <2>7. \A f \in Fetched : Opened(f)' <=> Opened(f)
    BY <1>1, <2>1, <2>2 DEF Opened
  <2>8. \A b \in AllBatches : Waits(b)' <=> Waits(b)
    BY <1>1, <1>3, <2>1, <2>4, <2>5, <2>6 DEF Waits
  <2>9. Ends = 0
    <3>1. b0 \in AllBatches /\ b0[1] = info
      BY <1>1, <2>1, <2>2, <2>3, <2>5, <2>6, <1>4, PassedOpened DEF b0, PlaceInv, Place, Passed
    <3>2. b0 \in Uncounted(info)
      BY <1>1, <2>4, <3>1 DEF Uncounted, Waits
    <3>3. InfosLeft # {}
      BY <2>1, <3>2, NobodyCounts
    <3> QED BY <1>1, <3>3 DEF CountInv
  <2>10. \A b \in Batch : EndOf(b)' = EndOf(b) /\ InfoOf(b)' = InfoOf(b)
    BY <1>1 DEF EndOf, InfoOf
  <2>11. \A t \in Thread : Finisher(t)' <=> Finisher(t)
    BY <1>1, <1>3, <2>1, <2>3, <2>4, <2>5, <2>9 DEF Finisher
  <2> QED BY <1>1, <1>3, <2>1, <2>3, <2>4, <2>5, <2>7, <2>8, <2>9, <2>10, <2>11, CountStill
<1>11. CASE ParseRest
  <2>1. /\ pc[DoService] = "loop" /\ info \notin Fetched
        /\ UNCHANGED <<info, key, cond, item_size_cond>>
        /\ pc'[DoService] \in {"loop", "done"} /\ \A b \in Batch : pc'[b] = pc[b]
        /\ crashed => crashed'
    BY <1>1, <1>2, <1>11 DEF ParseRest, Crash, counters
  <2>2. \A f \in Fetched : Opened(f)' <=> Opened(f)
    BY <1>1, <2>1 DEF Opened
  <2>3. \A b \in AllBatches : Waits(b)' <=> Waits(b)
    BY <1>1, <1>3, <2>1 DEF Waits
  <2>4. \A b \in Batch : EndOf(b)' = EndOf(b) /\ InfoOf(b)' = InfoOf(b)
    BY <1>1 DEF EndOf, InfoOf
  <2>5. \A t \in Thread : Finisher(t)' <=> Finisher(t)
    BY <1>1, <1>3, <2>1 DEF Finisher
  <2> QED BY <1>1, <1>3, <2>1, <2>2, <2>3, <2>4, <2>5, CountStill
<1> QED BY <1>6, <1>7, <1>8, <1>9, <1>10, <1>11

LEMMA CountCorrect == Spec => []CountInv
<1>1. Init => CountInv
  <2> SUFFICES ASSUME Init PROVE CountInv
    OBVIOUS
  <2>1. /\ DoService \in Thread /\ DoService \notin Batch /\ Thread = {DoService} \cup Batch
        /\ request \in Requests /\ info = 1 /\ key = 0
    BY Threads DEF Init
  <2>2. /\ pc[DoService] = "begin" /\ \A t \in Thread : pc[t] \in {"begin", "none"}
        /\ Ends = 0 /\ outputs = 0
    BY <2>1 DEF Init, Ends
  <2>3. \A f : Ended(f) = {}
    BY <2>2 DEF Ended
  <2>4. \A t \in Thread : ~Finisher(t)
    BY <2>2 DEF Finisher
  <2>5. \A f \in Fetched : ~Opened(f)
    <3>1. \A f \in Fetched : f \in 1..Len(request.infos) /\ Len(request.infos) \in Nat
      BY <2>1, RequestFacts
    <3> QED BY <2>1, <2>2, <3>1 DEF Opened
  <2>6. \A f \in 1..MaxInfos : item_size_cond[f] = 0
    BY DEF Init
  <2> QED BY <2>2, <2>3, <2>4, <2>5, <2>6 DEF CountInv
<1>2. PlaceInv /\ PlaceInv' /\ CountInv /\ [Next]_vars => CountInv'
  <2> SUFFICES ASSUME PlaceInv, PlaceInv', CountInv, [Next]_vars PROVE CountInv'
    OBVIOUS
  <2>1. ASSUME NEW t \in Thread, ThreadStep(t) PROVE CountInv'
    BY <2>1, CountItemInv, CountInfoInv, CompleteInv, CallbackInv, LoopsInv DEF ThreadStep, Finish
  <2>2. CASE UNCHANGED vars
    <3>1. /\ Fetched' = Fetched /\ LastBatch' = LastBatch
          /\ \A f : BatchesOf(f)' = BatchesOf(f)
          /\ \A t : InfoOf(t)' = InfoOf(t) /\ EndOf(t)' = EndOf(t)
      BY <2>2, SameRequest DEF vars, LastBatch, Keys, InfoOf, EndOf
    <3>2. /\ \A f : (Opened(f)' <=> Opened(f)) /\ Uncounted(f)' = Uncounted(f)
          /\ \A f : Ended(f)' = Ended(f)
          /\ \A t : Finisher(t)' <=> Finisher(t)
      BY <2>2, <3>1, SameEnds DEF vars, Opened, Uncounted, Waits, Ended, Finisher
    <3>3. InfosLeft' = InfosLeft /\ \A f : Open(f)' <=> Open(f)
      BY <2>2, <3>1, <3>2 DEF vars, InfosLeft, Open
    <3> QED BY <2>2, <3>1, <3>2, <3>3, SameEnds DEF vars, CountInv
  <2> QED BY <2>1, <2>2 DEF Next, Terminated
<1> QED BY <1>1, <1>2, PlaceCorrect, PTL DEF Spec

\* What the counters count bounds them.
LEMMA CountersTyped ==
  ASSUME PlaceInv, CountInv
  PROVE  TypeOK
<1>1. /\ MaxInfos \in Nat /\ MaxKeys \in Nat /\ request \in Requests
  BY RequestFacts DEF PlaceInv, PlaceTyped
<1>2. cond \in 0..MaxInfos
  BY <1>1, LeftFacts DEF CountInv, PlaceInv, Place
<1>3. item_size_cond \in [1..MaxInfos -> -1..MaxKeys]
  <2>1. \A f \in 1..MaxInfos : item_size_cond[f] \in -1..MaxKeys
    <3>1. \A f \in Fetched : Cardinality(Uncounted(f)) \in 0..MaxKeys
      BY UncountedFacts
    <3>2. CASE Ends = 0
      BY <1>1, <3>1, <3>2 DEF CountInv
    <3>3. CASE Ends > 0
      BY <1>1, <3>3 DEF CountInv
    <3>4. Ends \in Nat
      BY EndsFacts DEF PlaceInv
    <3> QED BY <3>2, <3>3, <3>4
  <2>2. item_size_cond \in [1..MaxInfos -> Int]
    BY DEF PlaceInv, PlaceTyped
  <2> QED BY <2>1, <2>2
<1> QED BY <1>2, <1>3 DEF PlaceInv, PlaceTyped, TypeOK, Stages

\* A batch is filled in, or refused, unless it waits.
LEMMA AllFilled ==
  ASSUME PlaceInv, InfosLeft = {}, NEW b \in AllBatches
  PROVE  pc[b] = "refused" \/ Filled(b)
<1>1. b[1] \in Fetched /\ b \in BatchesOf(b[1])
  BY Threads DEF PlaceInv, PlaceTyped
<1>2. ~Waits(b)
  BY <1>1, NobodyCounts DEF Uncounted
<1> QED BY <1>2 DEF Waits, Filled

(***************************************************************************)
(* However do_service, the callbacks and refused calls interleave, one     *)
(* thread completes the request, once, and every batch has been filled in  *)
(* or refused by then; only the catch of a batch may count once more,      *)
(* which completes nothing.                                                *)
(***************************************************************************)
THEOREM CompletedOnceAfterAllCorrect == Spec => []CompletedOnceAfterAll
<1>1. PlaceInv /\ CountInv => CompletedOnceAfterAll
  <2> SUFFICES ASSUME PlaceInv, CountInv PROVE CompletedOnceAfterAll
    OBVIOUS
  <2>1. TypeOK /\ outputs \in Nat /\ responses \in Nat /\ responses <= Ends /\ Ends \in Nat
    BY CountersTyped, EndsFacts DEF TypeOK, PlaceInv
  <2>2. \A t \in Completing : t \in Thread /\ Finisher(t)
    BY DEF Completing, Finisher
  <2>3. Cardinality(Completing) + outputs <= 1
    <3>1. CASE Completing = {}
      BY <2>1, <3>1, FS_EmptySet DEF CountInv
    <3>2. CASE Completing # {}
      <4>1. PICK t : t \in Completing
        BY <3>2
      <4>2. Completing = {t} /\ outputs = 0
        BY <2>2, <4>1 DEF CountInv
      <4> QED BY <4>2, FS_Singleton
    <3> QED BY <3>1, <3>2
  <2>4. responses <= 1
    BY <2>1 DEF CountInv
  <2>5. Completing # {} \/ responses > 0 => InfosLeft = {}
    BY <2>1, <2>2 DEF CountInv
  <2> QED BY <2>1, <2>3, <2>4, <2>5, AllFilled DEF CompletedOnceAfterAll
<1> QED BY <1>1, PlaceCorrect, CountCorrect, PTL

-----------------------------------------------------------------------------
(***************************************************************************)
(* Nobody is left behind: do_service waits for the promise only when it    *)
(* has kept it itself, it has kept it when it returns, and who brought     *)
(* cond to zero is still there until process_response has been called.     *)
(***************************************************************************)
Finishing == {"merge", "parse", "await", "respond"}

Followed == Ends > 0 \/ \E t \in Thread : pc[t] \in Finishing

RestInv ==
  /\ pc[DoService] \in {"await", "done"} => promise # "unset"
  /\ pc[DoService] = "done" => info \notin DOMAIN request.infos
  /\ pc[DoService] # "begin" /\ cond = 0 => crashed \/ Followed

\* A step of a thread that is not completing the request.
LEMMA FollowedKept ==
  ASSUME PlaceInv, Followed, Ends' = Ends,
         \A t \in Thread : pc[t] \in Finishing => pc'[t] \in Finishing
  PROVE  Followed'
BY DEF Followed

LEMMA RestLoops ==
  ASSUME PlaceInv, PlaceInv', CacheInv, RestInv,
         Begin \/ SkipInfo \/ OpenInfo \/ Fetch \/ CloseInfo \/ ParseRest
  PROVE  RestInv'
<1>1. /\ DoService \in Thread /\ DoService \notin Batch /\ Thread = {DoService} \cup Batch
      /\ pc \in [Thread -> Stages] /\ request \in Requests /\ request' = request
      /\ promise \in {"none", "unset", "set"} /\ cached_left \in BOOLEAN
      /\ crashed \in BOOLEAN
  BY Threads DEF PlaceInv, PlaceTyped, Begin, SkipInfo, OpenInfo, Fetch, CloseInfo, ParseRest
<1>2. CASE Begin
  <2>1. pc'[DoService] = IF request.infos = <<>> THEN "respond" ELSE "loop"
    BY <1>1, <1>2 DEF Begin
  <2>2. request.infos # <<>> => cond' # 0
    <3>1. /\ Len(request.infos) \in Nat
          /\ request.infos = <<>> <=> Len(request.infos) = 0
      BY <1>1, RequestFacts
    <3> QED BY <1>2, <3>1 DEF Begin
  <2>3. request.infos = <<>> => Followed'
    BY <1>1, <2>1 DEF Followed, Finishing
  <2>4. pc'[DoService] \notin {"await", "done"}
    BY <2>1
  <2> QED BY <2>2, <2>3, <2>4 DEF RestInv
<1>3. CASE SkipInfo \/ OpenInfo \/ Fetch \/ CloseInfo
  <2>1. /\ pc[DoService] \in {"loop", "fetch"}
        /\ pc'[DoService] \in {"cond", "fetch", "items", "loop"}
        /\ UNCHANGED <<cond, crashed, Ends>>
    <3>1. CASE Fetch
      <4> DEFINE b0 == <<info, key>>
      <4>1. b0 # DoService
        <5>1. b0[1] # 0 /\ DoService[1] = 0
          BY DEF PlaceInv, PlaceTyped, DoService
        <5> QED BY <5>1
      <4>2. /\ UNCHANGED <<cond, crashed, Ends>> /\ pc[DoService] = "fetch"
            /\ \/ pc' = [pc EXCEPT ![b0] = "sent"]
               \/ pc' = [pc EXCEPT ![b0] = "refused", ![DoService] = "items"]
        BY <3>1, SameEnds DEF Fetch, counters, history
      <4> HIDE DEF b0
      <4>3. pc'[DoService] \in {"fetch", "items"}
        BY <1>1, <4>1, <4>2
      <4> QED BY <4>2, <4>3
    <3>2. CASE SkipInfo \/ OpenInfo \/ CloseInfo
      BY <1>1, <1>3, <3>2, SameEnds DEF SkipInfo, OpenInfo, CloseInfo, counters, history
    <3> QED BY <1>3, <3>1, <3>2
  <2>2. \A t \in Thread : pc[t] \in Finishing => pc'[t] \in Finishing
    <3>1. CASE Fetch
      <4> DEFINE b0 == <<info, key>>
      <4>1. b0 \in Batch => pc[b0] = "none"
        <5>1. ~Passed(b0)
          BY DEF PlaceInv, PlaceTyped, Passed
        <5> HIDE DEF b0
        <5> QED BY <5>1 DEF PlaceInv, Place
      <4>2. \A t \in Thread \ {DoService, b0} : pc'[t] = pc[t]
        <5> HIDE DEF b0
        <5> QED BY <1>1, <3>1 DEF Fetch, b0
      <4> HIDE DEF b0
      <4> QED BY <1>1, <2>1, <4>1, <4>2 DEF Finishing
    <3>2. CASE SkipInfo \/ OpenInfo \/ CloseInfo
      <4>1. \A b \in Batch : pc'[b] = pc[b]
        BY <1>1, <3>2 DEF SkipInfo, OpenInfo, CloseInfo
      <4> QED BY <1>1, <2>1, <4>1 DEF Finishing
    <3> QED BY <1>3, <3>1, <3>2
  <2>3. Followed => Followed'
    BY <2>1, <2>2, FollowedKept
  <2> QED BY <2>1, <2>3 DEF RestInv
<1>4. CASE ParseRest
  <2>1. /\ pc[DoService] = "loop" /\ info \notin DOMAIN request.infos
        /\ UNCHANGED <<info, cond, Ends>>
        /\ pc'[DoService] \in {"loop", "done"} /\ \A b \in Batch : pc'[b] = pc[b]
    BY <1>1, <1>4, SameEnds DEF ParseRest, Crash, counters
  <2>2. crashed => crashed'
    BY <1>4 DEF ParseRest, Crash
  <2>3. pc'[DoService] = "done" => promise' # "unset"
    <3>1. CASE promise' = "set"
      BY <3>1
    <3>2. CASE pc'[DoService] = "done" /\ promise' # "set"
      <4>1. ~cached_left /\ promise' = promise
        BY <1>1, <1>4, <2>1, <3>2 DEF ParseRest, ParseCachedData, Crash, cache
      <4> QED BY <1>1, <2>1, <4>1 DEF CacheInv
    <3> QED BY <3>1, <3>2
  <2>4. \A t \in Thread : pc[t] \in Finishing => pc'[t] \in Finishing
    BY <1>1, <2>1 DEF Finishing
  <2>5. Followed => Followed'
    BY <2>1, <2>4, FollowedKept
  <2> QED BY <1>1, <2>1, <2>2, <2>3, <2>5 DEF RestInv
<1> QED BY <1>2, <1>3, <1>4

LEMMA RestFinish ==
  ASSUME PlaceInv, CacheInv, CountInv, RestInv,
         NEW t \in Thread, Finish(t) \/ (t \in Batch /\ Callback(t))
  PROVE  RestInv'
<1>1. /\ DoService \in Thread /\ DoService \notin Batch /\ Thread = {DoService} \cup Batch
      /\ pc \in [Thread -> Stages] /\ promise \in {"none", "unset", "set"}
      /\ Ends \in Nat /\ cond \in Int
  BY Threads, EndsFacts DEF PlaceInv, PlaceTyped
<1>2. /\ pc[t] \in {"sent", "items", "cond", "merge", "parse", "await", "respond", "notify"}
      /\ UNCHANGED <<request, info>>
      /\ \A u \in Thread \ {t} : pc'[u] = pc[u]
  BY <1>1 DEF Finish, Callback, CountItem, CountInfo, Merge, MergeThrows, Throw,
              ParseInFinish, Await, Respond, Notify, Crash
<1>3. pc[DoService] # "begin"
  BY <1>2, Begun
<1>4. promise' = promise \/ promise' = "set"
  BY DEF Finish, Callback, CountItem, CountInfo, Merge, ParseInFinish, Await, Respond,
         Notify, ParseCachedData, cache
<1>5. t = DoService => pc'[t] # "done"
  BY <1>1, <1>2 DEF Finish, Callback, CountItem, CountInfo, Merge, MergeThrows, Throw,
                    ParseInFinish, Await, Respond, Notify, Crash, Resume
<1>6. t = DoService /\ pc'[t] = "await" => promise' # "unset"
  <2> SUFFICES ASSUME t = DoService, pc'[t] = "await" PROVE promise' # "unset"
    OBVIOUS
  <2>1. Merge(t) \/ ParseInFinish(t)
    BY <1>1, <1>2 DEF Finish, Callback, CountItem, CountInfo, Await, Respond, Notify,
                      Throw, Crash, Resume
  <2>2. ~Merge(t)
    BY <1>1 DEF Merge, MergeThrows, Throw, Crash
  <2>3. promise' = "set"
    BY <1>1, <2>1, <2>2 DEF ParseInFinish, ParseCachedData, Crash
  <2> QED BY <2>3
<1>7. pc'[DoService] \in {"await", "done"} => promise' # "unset"
  BY <1>1, <1>2, <1>4, <1>5, <1>6 DEF RestInv
<1>8. pc'[DoService] = "done" => info' \notin DOMAIN request'.infos
  BY <1>1, <1>2, <1>5 DEF RestInv
<1>9. ASSUME cond' = 0 PROVE crashed' \/ Followed'
  <2>1. CASE CountInfo(t) /\ cond = 1
    <3>1. pc'[t] = "merge"
      BY <1>1, <2>1 DEF CountInfo
    <3> QED BY <3>1 DEF Followed, Finishing
  <2>2. CASE CountInfo(t) /\ cond # 1
    BY <1>1, <1>9, <2>2 DEF CountInfo
  <2>3. CASE Callback(t) \/ CountItem(t)
    <3>1. UNCHANGED <<cond, crashed, Ends>> /\ pc[t] \notin Finishing
      BY <2>3, SameEnds DEF Callback, CountItem, counters, history, Finishing
    <3>2. \A u \in Thread : pc[u] \in Finishing => pc'[u] \in Finishing
      BY <1>2, <3>1
    <3>3. Followed => Followed'
      BY <3>1, <3>2, FollowedKept
    <3> QED BY <1>3, <1>9, <3>1, <3>3 DEF RestInv
  <2>4. CASE (Merge(t) /\ ~MergeThrows(t)) \/ ParseInFinish(t) \/ Await(t)
    <3>1. UNCHANGED cond /\ pc'[t] \in Finishing
      BY <1>1, <2>4 DEF Merge, ParseInFinish, Await, Crash, counters, Finishing
    <3> QED BY <3>1 DEF Followed
  <2>5. CASE Respond(t) \/ (Merge(t) /\ MergeThrows(t))
    <3>1. Ends' > 0
      <4>1. CASE Respond(t)
        BY <1>1, <4>1 DEF Respond, Ends, PlaceInv, PlaceTyped
      <4>2. CASE Merge(t) /\ MergeThrows(t)
        BY <1>1, <4>2 DEF Merge, MergeThrows, Ends, PlaceInv, PlaceTyped
      <4> QED BY <2>5, <4>1, <4>2
    <3> QED BY <3>1 DEF Followed
  <2>6. CASE Notify(t)
    <3>1. Ends' = Ends /\ responses = 1
      BY <2>6, SameEnds DEF Notify, CountInv
    <3>2. Ends' > 0
      BY <1>1, <3>1, EndsFacts DEF PlaceInv
    <3> QED BY <3>2 DEF Followed
  <2> QED BY <2>1, <2>2, <2>3, <2>4, <2>5, <2>6 DEF Finish
<1> QED BY <1>7, <1>8, <1>9 DEF RestInv

LEMMA RestCorrect == Spec => []RestInv
<1>1. Init => RestInv
  <2> SUFFICES ASSUME Init PROVE RestInv
    OBVIOUS
  <2>1. pc[DoService] = "begin"
    BY Threads DEF Init
  <2> QED BY <2>1 DEF RestInv
<1>2. PlaceInv /\ PlaceInv' /\ CacheInv /\ CountInv /\ RestInv /\ [Next]_vars => RestInv'
  <2> SUFFICES ASSUME PlaceInv, PlaceInv', CacheInv, CountInv, RestInv, [Next]_vars
               PROVE  RestInv'
    OBVIOUS
  <2>1. ASSUME NEW t \in Thread, ThreadStep(t) PROVE RestInv'
    BY <2>1, RestLoops, RestFinish DEF ThreadStep
  <2>2. CASE UNCHANGED vars
    <3>1. Followed' <=> Followed
      BY <2>2, SameEnds DEF vars, Followed
    <3> QED BY <2>2, <3>1 DEF vars, RestInv
  <2> QED BY <2>1, <2>2 DEF Next, Terminated
<1> QED BY <1>1, <1>2, PlaceCorrect, CacheCorrect, CountCorrect, PTL DEF Spec

\* Everything has been counted when nothing moves any more.
LEMMA RestCounted ==
  ASSUME PlaceInv, RestInv, AtRest, pc[DoService] = "done"
  PROVE  InfosLeft = {}
<1>1. /\ DoService \in Thread /\ DoService \notin Batch /\ Thread = {DoService} \cup Batch
      /\ AllBatches \subseteq Batch
      /\ \A b : b \in AllBatches <=> b[1] \in Fetched /\ b \in BatchesOf(b[1])
      /\ request \in Requests /\ key \in Nat
  BY Threads DEF PlaceInv, PlaceTyped
<1>2. /\ Len(request.infos) \in Nat /\ DOMAIN request.infos = 1..Len(request.infos)
      /\ Fetched \subseteq DOMAIN request.infos
      /\ info \in 1..(Len(request.infos) + 1)
  BY <1>1, RequestFacts DEF PlaceInv, PlaceTyped
<1>3. \A f \in DOMAIN request.infos : f < info
  BY <1>2 DEF RestInv
<1>4. \A t \in Thread : pc[t] \notin {"sent", "items", "cond"}
  BY DEF AtRest
<1>5. ASSUME NEW f \in Fetched PROVE Uncounted(f) = {}
  <2> SUFFICES ASSUME NEW b \in BatchesOf(f), Waits(b) PROVE FALSE
    BY DEF Uncounted
  <2>1. b[1] = f /\ b \in AllBatches /\ b \in Batch
    BY <1>1, BatchFacts
  <2>2. Passed(b)
    BY <1>2, <1>3, <2>1 DEF Passed
  <2>3. pc[b] # "none"
    BY <2>1, <2>2 DEF PlaceInv, Place
  <2> QED BY <1>1, <1>4, <2>1, <2>3 DEF Waits
<1>6. ASSUME NEW f \in DOMAIN request.infos PROVE ~Open(f) /\ Ended(f) = {}
  <2>1. Opened(f) /\ ~(f >= info)
    BY <1>2, <1>3 DEF Opened
  <2>2. Ended(f) = {}
    BY <1>4 DEF Ended
  <2> QED BY <1>5, <2>1, <2>2 DEF Open
<1> QED BY <1>6 DEF InfosLeft

(***************************************************************************)
(* When nothing moves any more and the program has not crashed, nobody     *)
(* waits for the promise: do_service and the thread that completes the     *)
(* request never wait for each other (redis_service.cpp:168 and 332).  The *)
(* request has been completed then, or merge_cache_data has thrown: one or *)
(* the other, since the catch of the batch counts, but completes nothing.  *)
(***************************************************************************)
THEOREM CompletedAtRestCorrect == Spec => []CompletedAtRest
<1>1. PlaceInv /\ CacheInv /\ CountInv /\ RestInv => CompletedAtRest
  <2> SUFFICES ASSUME PlaceInv, CacheInv, CountInv, RestInv, ~crashed, AtRest
               PROVE  Completing = {} /\ responses = IF unmerged THEN 0 ELSE 1
    BY DEF CompletedAtRest
  <2>1. DoService \in Thread /\ promise \in {"none", "unset", "set"} /\ Ends \in Nat
    BY Threads, EndsFacts DEF PlaceInv, PlaceTyped
  <2>2. pc[DoService] \in {"await", "done"} /\ promise # "unset"
    BY <2>1 DEF AtRest, PlaceInv, Place, RestInv
  <2>3. \A t \in Thread : pc[t] \in {"none", "refused", "done"}
    <3>1. ASSUME NEW t \in Thread, pc[t] = "await" PROVE promise = "set"
      BY <2>1, <2>2, <3>1 DEF CacheInv
    <3> QED BY <3>1 DEF AtRest
  <2>4. pc[DoService] = "done" /\ Completing = {}
    BY <2>1, <2>2, <2>3 DEF Completing
  <2>5. InfosLeft = {}
    BY <2>4, RestCounted
  <2>6. cond = 0
    BY <2>4, <2>5, LeftFacts DEF CountInv
  <2>7. Ends > 0
    BY <2>3, <2>4, <2>6 DEF RestInv, Followed, Finishing
  <2>8. Ends <= 1
    BY DEF CountInv
  <2>9. responses = IF unmerged THEN 0 ELSE 1
    BY <2>1, <2>7, <2>8, EndsFacts DEF PlaceInv
  <2> QED BY <2>4, <2>9
<1> QED BY <1>1, PlaceCorrect, CacheCorrect, CountCorrect, RestCorrect, PTL


-----------------------------------------------------------------------------
\* What RedisService means by the results being complete.
Completed ==
  /\ responses > 0
  /\ ~cached_left
  /\ \A b \in AllBatches : pc[b] = "refused" \/ Filled(b)

CompletedMeans == Completed <=> responses > 0

LEMMA RespondCompletes == PlaceInv /\ CacheInv /\ CountInv => CompletedMeans
<1> SUFFICES ASSUME PlaceInv, CacheInv, CountInv, responses > 0 PROVE Completed
  BY DEF CompletedMeans, Completed
<1>1. InfosLeft = {}
  BY EndsFacts DEF CountInv, PlaceInv
<1>2. promise # "unset" /\ pc[DoService] # "begin" /\ promise \in {"none", "unset", "set"}
  <2>1. Ends # 0
    BY EndsFacts DEF PlaceInv
  <2> QED BY <2>1 DEF CacheInv, PlaceInv, PlaceTyped, Place
<1>3. ~cached_left
  BY <1>2 DEF CacheInv
<1> QED BY <1>1, <1>3, AllFilled DEF Completed

(***************************************************************************)
(* The contract of an io node: Respond completes the node's service        *)
(* context, by then every batch is filled in and the cached values are     *)
(* parsed; ParseRest is the return of do_service; whoever notifies the     *)
(* outputs does it once, after Respond.                                    *)
(***************************************************************************)
THEOREM ImplementsIoNodeCorrect == Spec => ImplementsIoNode
<1> DEFINE Inv == PlaceInv /\ CacheInv /\ CountInv
<1>1. Init => Io!Init
  <2> SUFFICES ASSUME Init PROVE Io!Init
    OBVIOUS
  <2>1. pc[DoService] = "begin"
    BY Threads DEF Init
  <2> QED BY <2>1 DEF Init, Io!Init
<1>2. Inv /\ CompletedMeans /\ CompletedMeans' /\ [Next]_vars => [Io!Next]_(Io!ioVars)
  <2> SUFFICES ASSUME Inv, CompletedMeans, CompletedMeans', [Next]_vars
               PROVE  [Io!Next]_(Io!ioVars)
    OBVIOUS
  <2>1. (Completed <=> responses > 0) /\ (Completed' <=> responses' > 0)
    BY DEF CompletedMeans
  <2>2. /\ DoService \in Thread /\ Thread = {DoService} \cup Batch /\ DoService \notin Batch
        /\ pc \in [Thread -> Stages] /\ responses \in Nat
    BY Threads DEF PlaceInv, PlaceTyped
  <2>3. ASSUME NEW t \in Thread, ~crashed, Respond(t) PROVE [Io!Next]_(Io!ioVars)
    <3>1. pc[t] = "respond" /\ pc'[t] # "done" /\ responses' = responses + 1
          /\ outputs' = outputs /\ \A u \in Thread \ {t} : pc'[u] = pc[u]
      BY <2>2, <2>3 DEF Respond, Throw, Crash
    <3>2. responses = 0
      BY <2>3, <3>1, EndsFacts DEF CountInv, PlaceInv
    <3>3. pc'[DoService] = "done" <=> pc[DoService] = "done"
      BY <2>2, <3>1
    <3>4. ~Completed /\ Completed'
      BY <2>1, <3>1, <3>2
    <3> QED BY <3>1, <3>3, <3>4, Zenon DEF Io!Next, Io!Complete, Completed
  <2>4. ASSUME NEW t \in Thread, Notify(t) PROVE [Io!Next]_(Io!ioVars)
    <3>1. pc[t] = "notify" /\ responses' = responses /\ outputs' = outputs + 1
          /\ pc' = [pc EXCEPT ![t] = Resume(t)]
      BY <2>4 DEF Notify
    <3>2. responses = 1 /\ outputs = 0
      BY <3>1 DEF CountInv, Finisher
    <3>3. pc'[DoService] = "done" <=> pc[DoService] = "done"
      BY <2>2, <3>1 DEF Resume
    <3>4. Completed /\ Completed' /\ outputs' = 1
      BY <2>1, <3>1, <3>2
    <3> QED BY <3>2, <3>3, <3>4, Zenon DEF Io!Next, Io!Notify, Completed
  <2>5. CASE ParseRest
    <3>1. pc[DoService] = "loop" /\ responses' = responses /\ outputs' = outputs
          /\ pc'[DoService] \in {"loop", "done"}
      BY <2>2, <2>5 DEF ParseRest, Crash
    <3>2. Completed' <=> Completed
      BY <2>1, <3>1
    <3>3. CASE pc'[DoService] = "done"
      <4>1. pc[DoService] # "done"
        BY <3>1
      <4> QED BY <3>1, <3>2, <3>3, <4>1, Zenon DEF Io!Next, Io!Return, Completed
    <3>4. CASE pc'[DoService] = "loop"
      <4>1. pc[DoService] # "done" /\ pc'[DoService] # "done"
        BY <3>1, <3>4
      <4> QED BY <3>1, <3>2, <4>1, Zenon DEF Io!ioVars, Completed
    <3> QED BY <3>1, <3>3, <3>4
  <2>6. ASSUME UNCHANGED <<responses, outputs>>,
               pc'[DoService] = "done" <=> pc[DoService] = "done"
        PROVE  [Io!Next]_(Io!ioVars)
    <3>1. Completed' <=> Completed
      BY <2>1, <2>6
    <3> QED BY <2>6, <3>1, Zenon DEF Io!ioVars, Completed
  <2>7. CASE Begin \/ SkipInfo \/ OpenInfo \/ Fetch \/ CloseInfo
    <3>1. UNCHANGED <<responses, outputs>> /\ pc[DoService] # "done" /\ pc'[DoService] # "done"
      <4>1. CASE Fetch
        BY <2>2, <4>1 DEF Fetch, history
      <4>2. CASE Begin \/ SkipInfo \/ OpenInfo \/ CloseInfo
        BY <2>2, <4>2 DEF Begin, SkipInfo, OpenInfo, CloseInfo, history
      <4> QED BY <2>7, <4>1, <4>2
    <3> QED BY <2>6, <3>1
  <2>8. ASSUME NEW t \in Thread,
               (t \in Batch /\ Callback(t)) \/ CountItem(t) \/ CountInfo(t) \/ Merge(t)
               \/ ParseInFinish(t) \/ Await(t)
        PROVE  [Io!Next]_(Io!ioVars)
    <3>1. UNCHANGED <<responses, outputs>> /\ pc[t] # "done"
      BY <2>8 DEF Callback, CountItem, CountInfo, Merge, ParseInFinish, Await, history
    <3>2. /\ \A u \in Thread \ {t} : pc'[u] = pc[u]
          /\ t = DoService => pc'[t] # "done"
      BY <2>2, <2>8 DEF Callback, CountItem, CountInfo, Merge, MergeThrows, Throw,
                        ParseInFinish, Await, Crash, Resume
    <3>3. pc'[DoService] = "done" <=> pc[DoService] = "done"
      BY <2>2, <3>1, <3>2
    <3> QED BY <2>6, <3>1, <3>3
  <2>9. CASE UNCHANGED vars
    BY <2>6, <2>9 DEF vars
  <2> QED BY <2>3, <2>4, <2>5, <2>7, <2>8, <2>9 DEF Next, ThreadStep, Finish, Terminated
<1> QED BY <1>1, <1>2, RespondCompletes, PlaceCorrect, CacheCorrect, CountCorrect, PTL
        DEF Spec, ImplementsIoNode, Io!Spec
=============================================================================
