------------------------------ MODULE Catalog ------------------------------
(***************************************************************************)
(* What the catalog promises its readers, with the ingest machinery left   *)
(* out: one record per URN, changed only by a whole upsert or a whole      *)
(* tombstone of the record as it is at that moment.  A record is never     *)
(* removed: a deleted entity stays as a tombstone                          *)
(* (control-plane/storage/relational/store.py).                            *)
(***************************************************************************)
CONSTANTS Urn,     \* the entity identities of one tenant
          Hash,    \* the content hashes an entity can carry
          NoHash   \* a record or an entity without a content hash

VARIABLE catalog
-----------------------------------------------------------------------------
States == {"absent", "live", "deleted"}

\* A store's copy of one entity: whether it is there, and the content it holds.
Copy == [state : States, hash : Hash \cup {NoHash}]

Absent == [state |-> "absent", hash |-> NoHash]

Upserted(h) == [state |-> "live", hash |-> h]

\* A tombstone keeps the content, and an unknown entity has none to keep.
Tombstoned(c) == IF c.state = "absent" THEN c ELSE [c EXCEPT !.state = "deleted"]
-----------------------------------------------------------------------------
Init == catalog = [u \in Urn |-> Absent]

Put(u) == \E h \in Hash \cup {NoHash} : catalog' = [catalog EXCEPT ![u] = Upserted(h)]

Delete(u) == catalog' = [catalog EXCEPT ![u] = Tombstoned(@)]

Next == \E u \in Urn : Put(u) \/ Delete(u)

Spec == Init /\ [][Next]_catalog
=============================================================================
