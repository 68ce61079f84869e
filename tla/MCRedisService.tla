--------------------------- MODULE MCRedisService ---------------------------
(***************************************************************************)
(* RedisService on every request of at most MaxInfos fetch_infos with at   *)
(* most MaxKeys keys each; two keys if each is fetched by its own call.    *)
(***************************************************************************)
EXTENDS RedisService

MCRequests ==
  {r \in RequestType :
     /\ r.cached => r.infos # <<>>
     /\ r.enable_multi_get \/ \A f \in DOMAIN r.infos : r.infos[f].keys <= 2}
=============================================================================
