----------------------------- MODULE MCCacheStore -----------------------------
(* CacheStore on small instances: one job, one fill, one reader. *)
EXTENDS CacheStore, TLC

Symmetry == Permutations(Ids)

Reading == \E r \in Readers : rpc[r] # "idle"
Undisturbed == price = 0 /\ faults = 0

\* A read begins and ends before anything goes wrong; what it has memoized stays.
CalmReads == Reading \/ Reading' => Undisturbed'
=============================================================================
