---------------------------- MODULE ResultCache ----------------------------
(***************************************************************************)
(* What the execution log promises: the last result of each key and        *)
(* inputs, until everything is forgotten.                                  *)
(***************************************************************************)
CONSTANTS Key, Inputs, Response

VARIABLE cache  \* the last response for a key and inputs, as a set; {} if none

CacheInit == cache = [ki \in Key \X Inputs |-> {}]

Put(k, i, r) == cache' = [cache EXCEPT ![<<k, i>>] = {r}]

Forget == cache' = [ki \in Key \X Inputs |-> {}]

CacheNext ==
    \/ \E k \in Key, i \in Inputs, r \in Response : Put(k, i, r)
    \/ Forget

CacheSpec == CacheInit /\ [][CacheNext]_cache
=============================================================================
