----------------------------- MODULE RedisKeys -----------------------------
(***************************************************************************)
(* The keys of a RedisService (service/base/redis_service.cpp): how a      *)
(* request fills the keys of the service's fetch_infos in, which of them   *)
(* it takes from the cache and which it asks redis for, and under which    *)
(* key an answer is parsed and cached.                                     *)
(*                                                                         *)
(* The fetch_infos belong to the service, not to the request:              *)
(* make_up_fetch_info_vec casts their const away, rewrites their keys, and *)
(* appends to the vector itself; a batch remembers only a fetch_info and   *)
(* the index of its first key, and looks its keys up again when it is      *)
(* answered and once more when it is cached.                               *)
(*                                                                         *)
(* One request at a time is in the part of do_service that sends; the      *)
(* callbacks and the completion of the others run meanwhile.  (Two         *)
(* requests in that part at once would race on the vector itself.)  The    *)
(* counters and refused calls are RedisService's.                          *)
(***************************************************************************)
EXTENDS SequencesExt, Integers

CONSTANTS Key, Request,
          Configured,   \* fetch_infos of node_service.conf, see ConfType
          Wanteds,      \* what key_gen_funcs may make, see WantedType
          SlotOf,       \* ChannelPool::GetKeySlot
          MultiGet,     \* the values enable_multi_get may have
          batch_size,
          Other,        \* a value that is not that of the key asked for, or none
          NoEntry       \* the cache has no entry

(***************************************************************************)
(* A configured fetch_info: whether it uses the cache (with a positive     *)
(* expire_time), whether its redis client exists, and whether its          *)
(* key_gen_func empties keys first or appends to them, as that of          *)
(* unittest/redis_service does.  Without a key_gen_func nothing is wanted. *)
(***************************************************************************)
ConfType == Seq([use_cache : BOOLEAN, client : BOOLEAN, clears : BOOLEAN])

WantedType == [Request -> [DOMAIN Configured -> Seq(Key)]]

ASSUME RedisKeysAssumption ==
  /\ Configured \in ConfType
  /\ Wanteds \subseteq WantedType
  /\ DOMAIN SlotOf = Key
  /\ MultiGet \subseteq BOOLEAN
  /\ batch_size \in Nat \ {0}
  /\ Other \notin Key /\ NoEntry \notin Key \cup {Other}

VARIABLES
  wanted, enable_multi_get,   \* chosen once
  fetch_info_vec,   \* the service's, each with its configuration and its keys
  cache,            \* the value cached under each key; k stands for k's value
  stage,            \* new, make_up, sent, merge, done; stuck if at() has thrown
  position, added,  \* make_up_fetch_info_vec: i, and add_fetch_info_vec
  hits,             \* per request: key-value pairs of cache_data_vec
  batches,          \* per request: the batches not answered
  items,            \* per request: the answers of result_map
  parsed,           \* per request: key-value pairs given to the parse_func
  failed, disturbed \* requests with a failed call; requests whose fetch_infos
                    \* were rewritten while they still used them (history)

making == <<fetch_info_vec, position, added, hits>>
vars == <<wanted, enable_multi_get, making, cache, stage, batches, items, parsed,
          failed, disturbed>>

Init ==
  /\ wanted \in Wanteds /\ enable_multi_get \in MultiGet
  /\ fetch_info_vec = [c \in DOMAIN Configured |-> [conf |-> c, keys |-> <<>>]]
  /\ cache = [k \in Key |-> NoEntry]
  /\ stage = [r \in Request |-> "new"]
  /\ position = 1 /\ added = <<>>
  /\ hits = [r \in Request |-> {}]
  /\ batches = [r \in Request |-> {}]
  /\ items = [r \in Request |-> {}]
  /\ parsed = [r \in Request |-> {}]
  /\ failed = {} /\ disturbed = {}

-----------------------------------------------------------------------------
Conf(f) == Configured[fetch_info_vec[f].conf]

Begin(r) ==
  /\ stage[r] = "new"
  /\ \A q \in Request : stage[q] # "make_up"
  /\ stage' = [stage EXCEPT ![r] = "make_up"]
  /\ position' = 1 /\ added' = <<>>
  /\ UNCHANGED <<wanted, enable_multi_get, fetch_info_vec, hits, cache, batches,
                 items, parsed, failed, disturbed>>

\* What key_gen_func leaves in the keys of fetch_info f.
Generated(r, f) ==
  (IF Conf(f).clears THEN <<>> ELSE fetch_info_vec[f].keys)
    \o wanted[r][fetch_info_vec[f].conf]

\* get_from_cache: the keys it finds.
Found(r, f) ==
  {k \in ToSet(Generated(r, f)) : Conf(f).use_cache /\ cache[k] # NoEntry}

\* The keys of ks that are in S, in their order.
Keep(ks, S) ==
  LET places == {i \in DOMAIN ks : ks[i] \in S}
      order == CHOOSE o \in [1..Cardinality(places) -> places] :
                 \A i, j \in DOMAIN o : i < j => o[i] < o[j]
  IN  [i \in 1..Cardinality(places) |-> ks[order[i]]]

Missed(r, f) == Keep(Generated(r, f), Key \ Found(r, f))

KeysOfSlot(s) == {k \in Key : SlotOf[k] = s}

\* Mutants of Groups: the keys are not told apart by their slots; only those of
\* the first key's slot are kept.
GroupsWhole(f, ks) == {<<ks>>}
GroupsFirst(f, ks) == {<<Keep(ks, KeysOfSlot(SlotOf[ks[1]]))>>}

\* The keys of fetch_info f slot by slot, in the order of an unordered_map;
\* not split if no client could be asked for the slots.
Groups(f, ks) ==
  LET slots == {SlotOf[k] : k \in ToSet(ks)}
  IN  IF ks = <<>> \/ ~Conf(f).client
        THEN {<<ks>>}
        ELSE {[i \in 1..Len(order) |-> Keep(ks, KeysOfSlot(order[i]))] :
                order \in SetToSeqs(slots)}

\* Requests that still look keys up in fetch_info f.
Using(f) == {q \in Request : \E b \in batches[q] \cup items[q] : b.info = f}

\* One turn of make_up_fetch_info_vec: the keys of a fetch_info are generated,
\* looked up in the cache and reduced to those of one slot; those of the other
\* slots go to fetch_infos of their own.
MakeUpInfo(r) ==
  /\ stage[r] = "make_up" /\ position <= Len(fetch_info_vec)
  /\ hits' = [hits EXCEPT ![r] = @ \cup {<<k, cache[k]>> : k \in Found(r, position)}]
  /\ \E groups \in Groups(position, Missed(r, position)) :
       /\ fetch_info_vec' = [fetch_info_vec EXCEPT ![position].keys = groups[1]]
       /\ added' = added \o [i \in 1..(Len(groups) - 1) |->
                              [conf |-> fetch_info_vec[position].conf, keys |-> groups[i + 1]]]
  /\ disturbed' = disturbed \cup Using(position)
  /\ position' = position + 1
  /\ UNCHANGED <<wanted, enable_multi_get, cache, stage, batches, items, parsed, failed>>

CeilDiv(a, b) == (a + b - 1) \div b

\* The stride at which do_service cuts n keys into batches.
StepSize(n) == IF enable_multi_get THEN CeilDiv(n, CeilDiv(n, batch_size)) ELSE 1

\* The batches of fetch_info f of vec, each with its place and its keys.
BatchesOf(vec, f) ==
  LET ks == vec[f].keys
      step == StepSize(Len(ks))
  IN  IF ks = <<>> \/ ~Configured[vec[f].conf].client
        THEN {}
        ELSE {[info |-> f, start |-> n * step,
               keys |-> SubSeq(ks, n * step + 1,
                               IF (n + 1) * step < Len(ks) THEN (n + 1) * step ELSE Len(ks))] :
                n \in 0..(CeilDiv(Len(ks), step) - 1)}

\* The end of make_up_fetch_info_vec and the loops of do_service.  The new
\* fetch_infos stay in the service's vector.
Send(r) ==
  /\ stage[r] = "make_up" /\ position > Len(fetch_info_vec)
  /\ fetch_info_vec' = fetch_info_vec \o added
  /\ added' = <<>>
  /\ LET all == UNION {BatchesOf(fetch_info_vec', f) : f \in DOMAIN fetch_info_vec'}
     IN  /\ batches' = [batches EXCEPT ![r] = all]
         /\ stage' = [stage EXCEPT ![r] = IF all = {} THEN "merge" ELSE "sent"]
  /\ UNCHANGED <<wanted, enable_multi_get, position, hits, cache, items, parsed,
                 failed, disturbed>>

-----------------------------------------------------------------------------
(***************************************************************************)
(* What redis answers to the command of a batch.  fetch sends its key.     *)
(* multi_fetch puts pointers into the command to a local copy of each key  *)
(* that has gone out of scope by then (redis_client.cpp:309-311): a part   *)
(* of the command is its key if the bytes are still there, and otherwise   *)
(* that of a later iteration, or no key at all.                            *)
(***************************************************************************)
Replies(ks) ==
  IF enable_multi_get
    THEN {v \in [DOMAIN ks -> ToSet(ks) \cup {Other}] :
            \A i \in DOMAIN ks : v[i] \in {ks[i], Other}}
    ELSE {ks}

\* Mutant of Places: the index is one too large.
PlacesNext(b) == {i \in DOMAIN b.keys : b.start + i + 1 <= Len(fetch_info_vec[b.info].keys)}

\* The places of the values of b, or of its answer, in the keys its fetch_info
\* has now; keys.at throws where there are none.
Places(b) == {i \in DOMAIN b.keys : b.start + i <= Len(fetch_info_vec[b.info].keys)}

\* Mutant of Pairs: start_index is not taken into account.
PairsFromFirst(b, values) ==
  {<<fetch_info_vec[b.info].keys[i], values[i]>> : i \in Places(b)}

\* The values of b with the keys they are taken to belong to.
Pairs(b, values) ==
  {<<fetch_info_vec[b.info].keys[b.start + i], values[i]>> : i \in Places(b)}

\* The callback of batch b: the answer is stored and parsed, or the call failed.
\* The last callback goes on to merge.
Answer(r, b) ==
  /\ stage[r] = "sent" /\ b \in batches[r]
  /\ batches' = [batches EXCEPT ![r] = @ \ {b}]
  /\ stage' = [stage EXCEPT ![r] = IF batches[r] = {b} THEN "merge" ELSE "sent"]
  /\ \/ \E values \in Replies(b.keys) :
          /\ items' = [items EXCEPT ![r] = @ \cup {[info |-> b.info, start |-> b.start,
                                                    keys |-> b.keys, values |-> values]}]
          /\ parsed' = [parsed EXCEPT ![r] = @ \cup Pairs(b, values)]
          /\ UNCHANGED failed
     \/ /\ failed' = failed \cup {r}
        /\ UNCHANGED <<items, parsed>>
  /\ UNCHANGED <<wanted, enable_multi_get, making, cache, disturbed>>

\* merge_cache_data, which sets the pairs of every answer unless keys.at throws,
\* and the completion of the request.
Merge(r) ==
  /\ stage[r] = "merge"
  /\ LET cached == {b \in items[r] : Conf(b.info).use_cache}
         written == UNION {Pairs(b, b.values) : b \in cached}
         throws == \E b \in cached : Places(b) # DOMAIN b.keys
     IN  /\ cache' \in {c \in [Key -> Key \cup {Other, NoEntry}] :
                          \A k \in Key :
                            \/ <<k, c[k]>> \in written
                            \/ c[k] = cache[k]
                               /\ (throws \/ \A p \in written : p[1] # k)}
         /\ stage' = [stage EXCEPT ![r] = IF throws THEN "stuck" ELSE "done"]
  /\ items' = [items EXCEPT ![r] = {}]
  /\ UNCHANGED <<wanted, enable_multi_get, making, batches, parsed, failed, disturbed>>

RequestStep(r) ==
  \/ Begin(r)
  \/ MakeUpInfo(r)
  \/ Send(r)
  \/ \E b \in batches[r] : Answer(r, b)
  \/ Merge(r)

Terminated ==
  /\ \A r \in Request : stage[r] \in {"done", "stuck"}
  /\ UNCHANGED vars

Next ==
  \/ \E r \in Request : RequestStep(r)
  \/ Terminated

Spec == Init /\ [][Next]_vars
-----------------------------------------------------------------------------
TypeOK ==
  /\ wanted \in Wanteds /\ enable_multi_get \in BOOLEAN
  /\ fetch_info_vec \in Seq([conf : DOMAIN Configured, keys : Seq(Key)])
  /\ added \in Seq([conf : DOMAIN Configured, keys : Seq(Key)])
  /\ cache \in [Key -> Key \cup {Other, NoEntry}]
  /\ stage \in [Request -> {"new", "make_up", "sent", "merge", "done", "stuck"}]
  /\ position \in 1..(Len(fetch_info_vec) + 1)
  /\ \A r \in Request :
       /\ hits[r] \cup parsed[r] \subseteq Key \X (Key \cup {Other})
       /\ \A b \in batches[r] \cup items[r] :
            b.info \in DOMAIN fetch_info_vec /\ b.start \in Nat /\ b.keys \in Seq(Key)
  /\ failed \subseteq Request /\ disturbed \subseteq Request

(***************************************************************************)
(* An MGET to a redis cluster must ask for keys of one slot.  However the  *)
(* fetch_infos have been split and rewritten by earlier requests, every    *)
(* batch does.                                                             *)
(***************************************************************************)
OneSlotPerBatch ==
  /\ TypeOK
  /\ \A r \in Request : \A b \in batches[r] :
       Cardinality({SlotOf[k] : k \in ToSet(b.keys)}) = 1

\* The keys a request is to be served, those without a redis client left out.
Served(r) ==
  UNION {ToSet(wanted[r][c]) : c \in {d \in DOMAIN Configured : Configured[d].client}}

(***************************************************************************)
(* A request that no other has disturbed, and whose calls have all         *)
(* succeeded, has a value for every key it wanted when it is completed,    *)
(* from the cache or from redis, whatever the splitting did with the keys. *)
(***************************************************************************)
EverythingServed ==
  \A r \in Request :
    stage[r] = "done" /\ r \notin failed \cup disturbed =>
      Served(r) \subseteq {p[1] : p \in hits[r] \cup parsed[r]}

(***************************************************************************)
(* With single GETs the value of an answer is parsed under its own key, as *)
(* long as no other request rewrites the fetch_info it was asked with, and *)
(* until that has happened to some request the cache is right too.         *)
(***************************************************************************)
UndisturbedIsTrue ==
  ~enable_multi_get =>
    /\ \A r \in Request \ disturbed : \A p \in parsed[r] : p[1] = p[2]
    /\ disturbed = {} => \A k \in Key : cache[k] \in {k, NoEntry}

(***************************************************************************)
(* keys.at (redis_service.cpp:554) only throws, and leaves a request       *)
(* without completion, if another request has rewritten its fetch_infos.   *)
(***************************************************************************)
StuckOnlyIfDisturbed == \A r \in Request : stage[r] = "stuck" => r \in disturbed

(***************************************************************************)
(* unittest/redis_service/src/redis_data_service.cpp:18-19: a parse_func   *)
(* is given a redis key and "the redis value".  The value may be that of   *)
(* another key, for the two reasons above: the dangling pointers of        *)
(* multi_fetch, and fetch_infos rewritten by the next request.             *)
(***************************************************************************)
ParsedUnderOwnKey == \A r \in Request : \A p \in parsed[r] : p[1] = p[2]
=============================================================================
