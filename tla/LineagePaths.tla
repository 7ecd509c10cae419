---------------------------- MODULE LineagePaths ----------------------------
(***************************************************************************)
(* What a lineage query asks for by its definition, paths that repeat no   *)
(* relationship, and what the traversal and the endpoint make of it.       *)
(***************************************************************************)
EXTENDS Lineage, Sequences, FiniteSets

\* Each relationship of p starts where the one before it ends.
Chained(p, direction) ==
    \A i \in 1..(Len(p) - 1) :
        IF direction = "upstream" THEN p[i].up = p[i + 1].down ELSE p[i].down = p[i + 1].up

RepeatsNone(p) == \A i, j \in DOMAIN p : i # j => p[i] # p[j]

PathsIn(E, direction) ==
    {p \in UNION {[1..m -> E] : m \in 1..Cardinality(E)} : RepeatsNone(p) /\ Chained(p, direction)}

Source(p, direction) == IF direction = "upstream" THEN p[1].down ELSE p[1].up
Target(p, direction) == IF direction = "upstream" THEN p[Len(p)].up ELSE p[Len(p)].down

\* Those that lead from an anchor to a live entity in at most n relationships.
PathsFrom(t, u, d, n) ==
    {p \in PathsIn(EdgesOf(t), d) : Source(p, d).urn = u /\ Len(p) <= n /\ Target(p, d) \in LiveOf(t)}

ShortestHits(paths, d) ==
    {[urn |-> Target(p, d).urn, entity_type |-> Target(p, d).label, hops |-> Len(p)] :
        p \in {q \in paths : \A r \in paths : Target(r, d) = Target(q, d) => Len(q) <= Len(r)}}
-----------------------------------------------------------------------------
TraversalIsShortest(t, u, d, n) == Traversal(t, u, d, n) = ShortestHits(PathsFrom(t, u, d, n), d)

\* The lineage of an anchor is what its paths of at most n relationships lead
\* to, each entity once and with the length of its shortest path, through
\* shortcuts and cycles (graph/store.py:293-306).
HopsAreShortest ==
    \A t \in Tenant, u \in Urn, d \in {"upstream", "downstream"}, n \in 1..2 :
        TraversalIsShortest(t, u, d, n)

\* A path of the graph leads from the anchor to the entity of each hit, in the
\* direction it is listed under and with exactly its hops.
Explained(t, u, hits, d) ==
    \A hit \in hits : \E p \in PathsIn(EdgesOf(t), d) :
        /\ Source(p, d).urn = u
        /\ Target(p, d) = [tenant |-> t, label |-> hit.entity_type, urn |-> hit.urn]
        /\ Len(p) = hit.hops

\* The two directions are read in two transactions, with writes in between. No
\* write takes an edge away, so one graph, the present one, still explains both
\* halves of the answer.
AnswersAreOfOneGraph ==
    ask.status = 200 => /\ Explained(ask.tenant, ask.urn, ask.up, "upstream")
                        /\ Explained(ask.tenant, ask.urn, ask.down, "downstream")
=============================================================================
