---------------------------- MODULE MCRedisKeys ----------------------------
(***************************************************************************)
(* RedisKeys with three configured fetch_infos: one with a cache and a     *)
(* key_gen_func that empties the keys, one as in unittest/redis_service,   *)
(* and one whose redis client does not exist.  Keys 1 and 3 have the same  *)
(* slot, key 2 another.                                                    *)
(***************************************************************************)
EXTENDS RedisKeys

MCConfigured == <<[use_cache |-> TRUE, client |-> TRUE, clears |-> TRUE],
                  [use_cache |-> FALSE, client |-> TRUE, clears |-> FALSE],
                  [use_cache |-> TRUE, client |-> FALSE, clears |-> TRUE]>>

MCSlotOf == [k \in Key |-> k % 2]

\* Both requests want keys of two slots; or one or both of them keys of one slot.
MCWanteds ==
  {[r \in Request |-> <<first[r], second, <<2>>>>] :
     <<first, second>> \in [Request -> {<<1, 3>>, <<2, 1>>}] \X {<<>>}
                            \cup [Request -> {<<1, 3>>}] \X {<<2>>}}

RequestSymmetry == Permutations(Request)
=============================================================================
