----------------------------- MODULE IngestRace -----------------------------
(***************************************************************************)
(* The ingest API served by several replicas at once, with a history of    *)
(* which requests were carrying the same entity at the same time.  The     *)
(* history only watches: it never keeps a step of Ingest from happening.   *)
(***************************************************************************)
EXTENDS Ingest

CONSTANT Known  \* the catalogs that the stores may hold when the replicas start

ASSUME RaceAssumption ==
    /\ Known \subseteq [Urn -> C!Copy]
    /\ \A k \in Known, u \in Urn : KindOf[u] = "scrape_run" => k[u] = C!Absent

\* fought: the requests under way, by replica, that carried an entity together
\* with a request that may write something else to it.  contested: the entities of
\* such requests, until a request that has carried one alone projects it.
VARIABLES fought, contested

raceVars == <<vars, fought, contested>>

Places(b, u) == {i \in DOMAIN Entities[b] : Entities[b][i].urn = u}

Carries(r, u) == w[r].pc # "idle" /\ Places(w[r].batch, u) # {}

\* Two requests carry u and are not both about the same entity of the same batch.
Clash(r, q, u) ==
    /\ r # q /\ Carries(r, u) /\ Carries(q, u)
    /\ w[r].batch # w[q].batch \/ \E i, j \in Places(w[r].batch, u) : i # j

Overlap == {ru \in Replica \X Urn : \E q \in Replica : Clash(ru[1], q, ru[2])}

ProjectedBy(r, u) == w[r].pc \in {"graph", "search"} /\ w'[r].pc = "analytics" /\ Cur(r).urn = u

Watch ==
    /\ fought' = Overlap' \cup {ru \in fought : w'[ru[1]].pc # "idle"}
    /\ contested' = {ru[2] : ru \in Overlap'} \cup
                    {u \in contested : ~\E r \in Replica : <<r, u>> \notin fought /\ ProjectedBy(r, u)}

\* The stores hold the same catalog, be it empty, and every replica is idle.
RaceInit ==
    /\ rel \in Known \cup {[u \in Urn |-> C!Absent]}
    /\ graph = rel
    /\ search = [u \in Urn |-> IF KindOf[u] \in SEARCHABLE_ENTITY_TYPES THEN rel[u] ELSE C!Absent]
    /\ events = [s \in Slots |-> 0]
    /\ cache = [r \in Replica |-> {}]
    /\ w = [r \in Replica |-> Idle]
    /\ reply = [r \in Replica |-> [batch |-> NoBatch, status |-> 0]]
    /\ faults = 0 /\ torn = {}
    /\ fought = {} /\ contested = {}

RaceSpec == RaceInit /\ [][Next /\ Watch]_raceVars
-----------------------------------------------------------------------------
\* With several replicas nothing orders the projections of different writes of
\* one entity (store.py:88-126 and worker.py:161-176 use a transaction for each
\* store): but only where two such requests were in service at once do the read
\* models ever disagree with the row, and the next request alone that changes the
\* entity puts them right.
OnlyContestedDrift ==
    \A u \in Urn : ~Fanning(u) /\ u \notin torn \cup contested => InSync(u)
=============================================================================
