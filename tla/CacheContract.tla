---------------------------- MODULE CacheContract ----------------------------
(***************************************************************************)
(* What the action cache (src/internal/actioncache) promises its jobs: for *)
(* each key at most one archive is published, it is one job's whole        *)
(* upload, it is never changed in place, and only an eviction takes it     *)
(* away.                                                                   *)
(***************************************************************************)
CONSTANTS Keys, Uploads, None   \* None is no upload

VARIABLE published

Init == published = [k \in Keys |-> None]

Publish(k, upload) ==
  /\ published[k] = None
  /\ published' = [published EXCEPT ![k] = upload]

(* One eviction may take several keys.                                      *)
Evict(gone) ==
  published' = [k \in Keys |-> IF k \in gone THEN None ELSE published[k]]

Next ==
  \/ \E k \in Keys, upload \in Uploads : Publish(k, upload)
  \/ \E gone \in SUBSET Keys : Evict(gone)

Spec == Init /\ [][Next]_published
=============================================================================
