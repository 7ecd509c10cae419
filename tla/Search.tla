------------------------------- MODULE Search -------------------------------
(***************************************************************************)
(* Search: the index documents of all tenants, the query the API builds    *)
(* for a request (control-plane/storage/search/query_builder.py), and the  *)
(* relevance module that may be plugged into it, with the popularity it    *)
(* computes from usage events.                                             *)
(*                                                                         *)
(* Time is counted in half-lives of the popularity signal.  Field weights  *)
(* and scores are integers: a score of a boosted query is scaled by the    *)
(* raw popularity of the most popular entity, which its weights divide by. *)
(***************************************************************************)
EXTENDS Naturals, FiniteSets, FiniteSetsExt

CONSTANTS Tenant,
          Urn,         \* entities; URNs may be the same from tenant to tenant
          Source,      \* connector types
          None,
          Content,     \* what records say: [type, source, match]
          Requests,    \* what readers ask: [text, types, sources]
          Action,      \* actions of usage events
          Lookback,    \* how far back events are read
          max_popularity_functions,
          MaxSteps     \* bound on writes, events and half-lives together

Field == {"name", "description", "tags", "owner"}

SEARCHABLE_ENTITY_TYPES == {"table", "column", "dataset", "dashboard"}

\* A document; match is the set of fields the search text occurs in.
Document == [type : SEARCHABLE_ENTITY_TYPES, source : Source, match : SUBSET Field,
             is_deleted : BOOLEAN]

\* Document ids, <<tenant, urn>>.
Key == Tenant \X Urn

ASSUME SearchAssumption ==
    /\ None \notin Tenant \cup Document
    /\ IsFiniteSet(Urn)
    /\ \A c \in Content : c.source \in Source /\ c.match \subseteq Field
    /\ Lookback \in Nat /\ max_popularity_functions \in Nat /\ MaxSteps \in Nat

Event == [n : Nat, tenant : Tenant, urn : Urn, action : Action, at : Nat]

\* A popularity map as last computed: raw[u] / top is the score of u.
PopularityMap == [raw : [Urn -> Nat], top : Nat]
NoScores == [raw |-> [u \in Urn |-> 0], top |-> 0]

VARIABLES docs,    \* documents as written
          seen,    \* documents as the last index refresh left them
          usage,   \* usage events
          now,
          scores,  \* the popularity map kept for each tenant
          hook,    \* the boost hook of the index
          writes   \* documents written so far

vars == <<docs, seen, usage, now, scores, hook, writes>>

TypeOK ==
    /\ docs \in [Key -> Document \cup {None}]
    /\ seen \in [Key -> Document \cup {None}]
    /\ usage \subseteq Event
    /\ now \in Nat
    /\ scores \in [Tenant -> PopularityMap]
    /\ hook \in {"none", "relevance", "other"}
    /\ writes \in Nat

Init ==
    /\ docs = [k \in Key |-> None]
    /\ seen = docs
    /\ usage = {}
    /\ now = 0
    /\ scores = [t \in Tenant |-> NoScores]
    /\ hook = "none"
    /\ writes = 0
-----------------------------------------------------------------------------
(* The index. *)

Bounded == writes + Cardinality(usage) + now < MaxSteps

Write(k, doc) ==
    /\ Bounded
    /\ writes' = writes + 1
    /\ docs' = [docs EXCEPT ![k] = doc]
    /\ UNCHANGED <<seen, usage, now, scores, hook>>

\* Mutant: every type gets a document.
IndexAny(k, c) ==
    Write(k, [type |-> c.type, source |-> c.source, match |-> c.match, is_deleted |-> FALSE])

\* Types that nobody searches for have no document.
index_entity(k, c) ==
    /\ c.type \in SEARCHABLE_ENTITY_TYPES
    /\ Write(k, [type |-> c.type, source |-> c.source, match |-> c.match, is_deleted |-> FALSE])

\* The tombstone updates the document; without one there is nothing to do.
tombstone(k) == docs[k] # None /\ Write(k, [docs[k] EXCEPT !.is_deleted = TRUE])

Refresh ==
    /\ seen' = docs
    /\ UNCHANGED <<docs, usage, now, scores, hook, writes>>
-----------------------------------------------------------------------------
(* Popularity. *)

DEFAULT_ACTION_WEIGHTS == [view |-> 2, search_result_click |-> 2, detail_view |-> 3,
                           query |-> 6, query_execute |-> 6, download |-> 4]

\* Twice the weight of the source, so that all are integers.
weight(action) == IF action \in DOMAIN DEFAULT_ACTION_WEIGHTS
                  THEN DEFAULT_ACTION_WEIGHTS[action] ELSE 2

Age(e) == IF e.at > now THEN 0 ELSE now - e.at

\* Mutant: the tenant of an event is not looked at.
RecentOfAnyone(t) == {e \in usage : e.at + Lookback >= now}

\* What the analytics client is assumed to return since the lookback, filtered by
\* tenant once more.
Recent(t) == {e \in usage : e.at + Lookback >= now /\ e.tenant = t}

\* Decayed by half per half-life; 2^Lookback times the sum of the source.
Raw(t, u) ==
    MapThenSumSet(LAMBDA e : weight(e.action) * 2 ^ (Lookback - Age(e)),
                  {e \in Recent(t) : e.urn = u})

\* Without events there are no scores.
compute_popularity_scores(t) ==
    [raw |-> [u \in Urn |-> Raw(t, u)], top |-> Max({0} \cup {Raw(t, u) : u \in Urn})]

\* The recomputation some caller is expected to make now and then.
RefreshPopularity(t) ==
    /\ scores' = [scores EXCEPT ![t] = compute_popularity_scores(t)]
    /\ UNCHANGED <<docs, seen, usage, now, hook, writes>>

\* Writers' clocks may run ahead by one.
record_event(t, u, action, ahead) ==
    /\ Bounded
    /\ usage' = usage \cup {[n |-> Cardinality(usage) + 1, tenant |-> t, urn |-> u,
                             action |-> action, at |-> now + ahead]}
    /\ UNCHANGED <<docs, seen, now, scores, hook, writes>>

Tick ==
    /\ Bounded
    /\ now' = now + 1
    /\ UNCHANGED <<docs, seen, usage, scores, hook, writes>>
-----------------------------------------------------------------------------
(* Building and running a query. *)

\* The weights of the multi_match clause, as built and as the profile sets them.
BaseWeights == [name |-> 3, tags |-> 2, description |-> 1, owner |-> 1]

\* Mutant: the profile does not keep description above tags.
ProfileFlat == [name |-> 5, description |-> 2, tags |-> 2]

DEFAULT_BOOST_PROFILE == [name |-> 5, description |-> 2, tags |-> 1]
popularity_weight == 1

_reweight_field(f, weights) ==
    IF f \in DOMAIN DEFAULT_BOOST_PROFILE THEN DEFAULT_BOOST_PROFILE[f] ELSE weights[f]

NoBoost == [urns |-> {}, scores |-> NoScores]

\* The body without a boost.  No type asked for means all of them.
BaseQuery(t, r) ==
    [all |-> ~r.text, weights |-> BaseWeights, tenant |-> t, deleted |-> {FALSE},
     types |-> (IF r.types # {} THEN r.types ELSE SEARCHABLE_ENTITY_TYPES) \cap SEARCHABLE_ENTITY_TYPES,
     sources |-> IF r.sources # {} THEN r.sources ELSE Source,
     boost |-> NoBoost, wrapped |-> FALSE]

apply_field_boosts(body) ==
    [body EXCEPT !.weights = [f \in Field |-> _reweight_field(f, body.weights)]]

\* The entities that get a function: the most popular ones that are popular at
\* all; which of several equals come first is left open.
Functions(sc) ==
    {S \in SUBSET {u \in Urn : sc.raw[u] > 0} :
        /\ Cardinality(S) <= max_popularity_functions
        /\ \A u \in Urn \ S : sc.raw[u] > 0 =>
              Cardinality(S) = max_popularity_functions /\ \A v \in S : sc.raw[v] >= sc.raw[u]}

\* The whole body, its paging included, becomes the query of a function_score.
apply_popularity_boost(body, sc) ==
    {IF S = {} THEN body
     ELSE [body EXCEPT !.boost = [urns |-> S, scores |-> sc], !.wrapped = TRUE] : S \in Functions(sc)}

apply_relevance_boost(body, t) == apply_popularity_boost(apply_field_boosts(body), scores[t])

\* What build_search_query may return.  Another hook may lose the tenant.
build_search_query(t, r) ==
    CASE hook = "none" -> {BaseQuery(t, r)}
      [] hook = "relevance" -> apply_relevance_boost(BaseQuery(t, r), t)
      [] hook = "other" -> {BaseQuery(t, r), [BaseQuery(t, r) EXCEPT !.tenant = None]}

\* OpenSearch: the documents a body matches, and how a document scores when its
\* text is equally relevant in every field it occurs in.
Matches(body, k) ==
    LET d == seen[k] IN
    /\ d # None
    /\ body.tenant \in {k[1], None}
    /\ d.is_deleted \in body.deleted
    /\ d.type \in body.types
    /\ d.source \in body.sources
    /\ body.all \/ d.match # {}

FieldScore(body, k) == IF body.all THEN 1 ELSE Max({body.weights[f] : f \in seen[k].match})

\* 1 + popularity_weight * score, times the raw popularity of the most popular.
Factor(body, u) ==
    LET sc == body.boost.scores IN
    IF u \in body.boost.urns THEN sc.top + popularity_weight * sc.raw[u]
    ELSE IF body.boost.urns # {} THEN sc.top ELSE 1

Score(body, k) == FieldScore(body, k) * Factor(body, k[2])

\* Mutant: the hook is trusted with the tenant.
TenantFilterAssumed(body, t) == body.tenant \in {t, None}

_has_tenant_filter(body, t) == body.tenant = t

\* A request fails when the hook lost the tenant, and when OpenSearch gets a body
\* that has no query at its top.  The order of the results is left to Score.
Response(body, t) ==
    IF (hook # "none" /\ ~_has_tenant_filter(body, t)) \/ body.wrapped
    THEN [status |-> 500, found |-> {}]
    ELSE [status |-> 200, found |-> {k \in Key : Matches(body, k)}]

\* The answers a reader may get; searching changes nothing.
search(t, r) == {Response(body, t) : body \in build_search_query(t, r)}

set_boost_hook(h) ==
    /\ hook' = h
    /\ UNCHANGED <<docs, seen, usage, now, scores, writes>>
-----------------------------------------------------------------------------
Next ==
    \/ \E k \in Key : tombstone(k) \/ \E c \in Content : index_entity(k, c)
    \/ Refresh \/ Tick
    \/ \E t \in Tenant :
          \/ RefreshPopularity(t)
          \/ \E u \in Urn, a \in Action, ahead \in {0, 1} : record_event(t, u, a, ahead)
    \/ \E h \in {"none", "relevance", "other"} : set_boost_hook(h)

Spec == Init /\ [][Next]_vars
-----------------------------------------------------------------------------
(* Properties. *)

\* What a reader of tenant t means by request r, among the documents in the index.
Wanted(t, r) ==
    {<<t, u>> : u \in {v \in Urn :
        LET d == seen[<<t, v>>] IN
        /\ d # None /\ ~d.is_deleted
        /\ r.types = {} \/ d.type \in r.types
        /\ r.sources = {} \/ d.source \in r.sources
        /\ r.text => d.match # {}}}

\* Whatever hook is plugged in and whatever it makes of the query, an answer that
\* succeeds has the tenant's live documents that were asked for, no other and
\* nobody else's: a boost changes ranking only.  Without a hook, all succeed.
BoostKeepsResults ==
    \A t \in Tenant, r \in Requests : \A answer \in search(t, r) :
        /\ answer.status = 200 => answer.found = Wanted(t, r)
        /\ hook = "none" => answer.status = 200

Rank(k) == CASE "name" \in seen[k].match -> 3
             [] "name" \notin seen[k].match /\ "description" \in seen[k].match -> 2
             [] OTHER -> 1

\* With the popularity last computed, however old, a document that matches in a
\* stronger field (name, description, the rest) is never scored below one that
\* matches in a weaker field only: popularity does not override the fields.
FieldOrderKept ==
    \A t \in Tenant, r \in Requests : r.text =>
        \A body \in apply_relevance_boost(BaseQuery(t, r), t) :
            LET found == {k \in Key : Matches(body, k)} IN
            \A k, j \in found : Rank(k) > Rank(j) => Score(body, k) >= Score(body, j)

SameScores(one, other) ==
    /\ one.top = 0 <=> other.top = 0
    /\ \A u \in Urn : one.raw[u] * other.top = other.raw[u] * one.top

\* Nothing is added to what a tenant used, none of it is dated in the future, and none
\* gets too old to be read.
OwnUsageStays(t) ==
    LET own == {e \in usage : e.tenant = t} IN
    /\ {e \in usage' : e.tenant = t} = own
    /\ \A e \in own : e.at <= now /\ (e.at + Lookback >= now <=> e.at + Lookback >= now')

\* The popularity of a tenant's entities relative to each other changes only by
\* the tenant's own events: not by those of others, nor by the mere passing of
\* time while none of them is dated in the future and none gets too old.
PopularityStable ==
    [][\A t \in Tenant : OwnUsageStays(t) =>
          SameScores(compute_popularity_scores(t), compute_popularity_scores(t)')]_vars
=============================================================================
