---------------------------- MODULE SearchProofs ----------------------------
(***************************************************************************)
(* Theorems about the search, for every set of tenants, entities, records  *)
(* and requests, and any number of writes and events.                      *)
(***************************************************************************)
EXTENDS Search, Induction
-----------------------------------------------------------------------------
(* Results. *)

\* What the index may hold.
Indexed ==
    /\ docs \in [Key -> Document \cup {None}]
    /\ seen \in [Key -> Document \cup {None}]
    /\ hook \in {"none", "relevance", "other"}

LEMMA IndexedInitially == Init => Indexed
BY DEF Init, Indexed

LEMMA IndexedKept == Indexed /\ [Next]_vars => Indexed'
<1> SUFFICES ASSUME Indexed, [Next]_vars
             PROVE  Indexed'
  OBVIOUS
<1>1. ASSUME NEW k \in Key, NEW doc \in Document, Write(k, doc)
      PROVE  Indexed'
  BY <1>1 DEF Write, Indexed
<1>2. ASSUME NEW k \in Key, tombstone(k)
      PROVE  Indexed'
  <2>1. [docs[k] EXCEPT !.is_deleted = TRUE] \in Document
    BY <1>2 DEF tombstone, Indexed, Document
  <2> QED BY <1>1, <1>2, <2>1 DEF tombstone
<1>3. ASSUME NEW k \in Key, NEW c \in Content, index_entity(k, c)
      PROVE  Indexed'
  <2>1. [type |-> c.type, source |-> c.source, match |-> c.match, is_deleted |-> FALSE] \in Document
    BY <1>3, SearchAssumption DEF index_entity, Document
  <2> QED BY <1>1, <1>3, <2>1 DEF index_entity
<1>4. CASE Refresh
  BY <1>4 DEF Refresh, Indexed
<1>5. CASE Tick
  BY <1>5 DEF Tick, Indexed
<1>6. ASSUME NEW t \in Tenant, RefreshPopularity(t)
      PROVE  Indexed'
  BY <1>6 DEF RefreshPopularity, Indexed
<1>7. ASSUME NEW t, NEW u, NEW a, NEW ahead, record_event(t, u, a, ahead)
      PROVE  Indexed'
  BY <1>7 DEF record_event, Indexed
<1>8. ASSUME NEW h \in {"none", "relevance", "other"}, set_boost_hook(h)
      PROVE  Indexed'
  BY <1>8 DEF set_boost_hook, Indexed
<1>9. CASE UNCHANGED vars
  BY <1>9 DEF vars, Indexed
<1> QED BY <1>2, <1>3, <1>4, <1>5, <1>6, <1>7, <1>8, <1>9 DEF Next

\* A body with the filters of the built query, however it scores, finds what the
\* request means.
LEMMA FiltersFind ==
    ASSUME Indexed, NEW t \in Tenant, NEW r \in Requests, NEW body,
           body.tenant = t, body.deleted = {FALSE}, body.all <=> ~r.text,
           body.types = BaseQuery(t, r).types, body.sources = BaseQuery(t, r).sources
    PROVE  {k \in Key : Matches(body, k)} = Wanted(t, r)
<1>1. /\ body.types = (IF r.types # {} THEN r.types ELSE SEARCHABLE_ENTITY_TYPES) \cap SEARCHABLE_ENTITY_TYPES
      /\ body.sources = IF r.sources # {} THEN r.sources ELSE Source
  BY DEF BaseQuery
<1>2. ASSUME NEW u \in Urn
      PROVE  Matches(body, <<t, u>>) <=> <<t, u>> \in Wanted(t, r)
  <2> DEFINE k == <<t, u>>
             d == seen[k]
  <2>1. k \in Key /\ k[1] = t
    BY DEF Key
  <2>2. d \in Document \cup {None}
    BY <2>1 DEF Indexed
  <2>3. d # None => d.type \in SEARCHABLE_ENTITY_TYPES /\ d.source \in Source /\ d.is_deleted \in BOOLEAN
    BY <2>2 DEF Document
  <2>4. <<t, u>> \in Wanted(t, r) <=>
          /\ d # None /\ ~d.is_deleted
          /\ r.types = {} \/ d.type \in r.types
          /\ r.sources = {} \/ d.source \in r.sources
          /\ r.text => d.match # {}
    BY DEF Wanted
  <2>5. Matches(body, k) <=>
          /\ d # None
          /\ body.tenant \in {k[1], None}
          /\ d.is_deleted \in body.deleted
          /\ d.type \in body.types
          /\ d.source \in body.sources
          /\ body.all \/ d.match # {}
    BY DEF Matches
  <2> QED BY <1>1, <2>1, <2>3, <2>4, <2>5
<1>3. ASSUME NEW k \in Key, Matches(body, k)
      PROVE  \E u \in Urn : k = <<t, u>>
  BY <1>3, SearchAssumption DEF Matches, Key
<1>4. \A k \in Wanted(t, r) : \E u \in Urn : k = <<t, u>>
  BY DEF Wanted
<1>5. \A u \in Urn : <<t, u>> \in Key
  BY DEF Key
<1> QED BY <1>2, <1>3, <1>4, <1>5

\* The fields of a body that a boost leaves alone.
SameFilters(body, base) ==
    /\ body.tenant = base.tenant /\ body.deleted = base.deleted /\ body.all = base.all
    /\ body.types = base.types /\ body.sources = base.sources

LEMMA BoostFilters ==
    ASSUME NEW t \in Tenant, NEW r \in Requests,
           NEW body \in apply_relevance_boost(BaseQuery(t, r), t)
    PROVE  SameFilters(body, BaseQuery(t, r))
<1> DEFINE base == BaseQuery(t, r)
           fields == apply_field_boosts(base)
<1>1. SameFilters(fields, base)
  BY DEF apply_field_boosts, BaseQuery, SameFilters
<1>2. \A S, sc : SameFilters([fields EXCEPT !.boost = [urns |-> S, scores |-> sc], !.wrapped = TRUE], fields)
  BY DEF apply_field_boosts, BaseQuery, SameFilters
<1> HIDE DEF base
<1>3. body \in apply_popularity_boost(fields, scores[t])
  BY DEF apply_relevance_boost, base
<1> HIDE DEF fields
<1>4. PICK S : body = IF S = {} THEN fields
                      ELSE [fields EXCEPT !.boost = [urns |-> S, scores |-> scores[t]], !.wrapped = TRUE]
  BY <1>3 DEF apply_popularity_boost
<1>5. SameFilters(body, fields)
  BY <1>2, <1>4 DEF SameFilters
<1> QED BY <1>1, <1>5 DEF SameFilters, base

LEMMA ResponseCases ==
    ASSUME NEW t, NEW body
    PROVE  /\ Response(body, t).status = 200 => Response(body, t).found = {k \in Key : Matches(body, k)}
           /\ hook # "none" /\ ~_has_tenant_filter(body, t) => Response(body, t).status # 200
BY DEF Response

LEMMA ResultsKept ==
    ASSUME Indexed
    PROVE  BoostKeepsResults
<1> SUFFICES ASSUME NEW t \in Tenant, NEW r \in Requests, NEW body \in build_search_query(t, r)
             PROVE  /\ Response(body, t).status = 200 => Response(body, t).found = Wanted(t, r)
                    /\ hook = "none" => Response(body, t).status = 200
  BY DEF BoostKeepsResults, search
<1> DEFINE base == BaseQuery(t, r)
<1>1. /\ base.tenant = t /\ base.deleted = {FALSE} /\ base.all = ~r.text /\ base.wrapped = FALSE
  BY DEF BaseQuery
<1>2. SameFilters(body, base) => {k \in Key : Matches(body, k)} = Wanted(t, r)
  BY <1>1, FiltersFind DEF SameFilters
<1>3. CASE hook = "none"
  <2>1. body = base
    BY <1>3 DEF build_search_query
  <2>2. SameFilters(body, base)
    BY <2>1 DEF SameFilters
  <2>3. body.wrapped = FALSE
    BY <1>1, <2>1
  <2> HIDE DEF base
  <2>4. Response(body, t).status = 200
    BY <1>3, <2>3 DEF Response
  <2> QED BY <1>2, <2>2, <2>4, ResponseCases
<1>4. CASE hook = "relevance"
  <2>1. body \in apply_relevance_boost(base, t)
    BY <1>4 DEF build_search_query
  <2>2. SameFilters(body, base)
    BY <2>1, BoostFilters
  <2> QED BY <1>2, <1>4, <2>2, ResponseCases
<1>5. CASE hook = "other"
  <2>1. body \in {base, [base EXCEPT !.tenant = None]}
    BY <1>5 DEF build_search_query
  <2>2. CASE body = base
    <3>1. SameFilters(body, base)
      BY <2>2 DEF SameFilters
    <3> QED BY <1>2, <1>5, <3>1, ResponseCases
  <2>3. CASE body = [base EXCEPT !.tenant = None]
    <3>1. body.tenant = None /\ None # t
      BY <2>3, SearchAssumption DEF BaseQuery
    <3> QED BY <1>5, <3>1, ResponseCases DEF _has_tenant_filter
  <2> QED BY <2>1, <2>2, <2>3
<1> QED BY <1>3, <1>4, <1>5 DEF Indexed
-----------------------------------------------------------------------------
(* Ranking. *)

Weighed(e, n) == weight(e.action) * 2 ^ (Lookback - (IF e.at > n THEN 0 ELSE n - e.at))

\* The popularity that the events of E add up to at time n.
Popularity(E, n) == MapThenSumSet(LAMBDA e : Weighed(e, n), E)

LEMMA RawIsPopularity ==
    ASSUME NEW t, NEW u
    PROVE  /\ Raw(t, u) = Popularity({e \in Recent(t) : e.urn = u}, now)
           /\ Raw(t, u)' = Popularity({e \in Recent(t)' : e.urn = u}, now')
BY DEF Raw, Popularity, MapThenSumSet, MapThenFoldSet, Weighed, Age

LEMMA PopularityIsSum ==
    ASSUME NEW E, IsFiniteSet(E), NEW n, [e \in E |-> Weighed(e, n)] \in [E -> Nat]
    PROVE  \E it : it = Sums(E, [e \in E |-> Weighed(e, n)], it) /\ Popularity(E, n) = it[E]
<1> DEFINE w == [e \in E |-> Weighed(e, n)]
           Folded(it) == [s \in SUBSET E |->
                            IF s = {} THEN 0
                            ELSE Weighed(CHOOSE x \in s : TRUE, n) + it[s \ {CHOOSE x \in s : TRUE}]]
           found == CHOOSE it : it = Folded(it)
<1>1. ASSUME NEW it
      PROVE  Folded(it) = Sums(E, w, it)
  <2>1. \A s \in SUBSET E : s # {} => One(s) \in E
    BY DEF One
  <2>2. \A s \in SUBSET E : s # {} => w[One(s)] = Weighed(One(s), n)
    BY <2>1
  <2> HIDE DEF w
  <2> QED BY <2>2 DEF Sums, One
<1>2. \E it : it = Folded(it)
  <2>1. PICK it : it = Sums(E, w, it)
    <3>1. w \in [E -> Nat]
      OBVIOUS
    <3> HIDE DEF w
    <3> QED BY <3>1, SumsExist
  <2> HIDE DEF Folded
  <2> QED BY <1>1, <2>1
<1>3. found = Folded(found)
  <2> HIDE DEF Folded
  <2> QED BY <1>2
<1>4. Popularity(E, n) = found[E]
  BY DEF Popularity, MapThenSumSet, MapThenFoldSet
<1> HIDE DEF found, Folded
<1> QED BY <1>1, <1>3, <1>4

\* Events that are read at time n.
LEMMA WeighedIsNatural ==
    ASSUME NEW n \in Nat, NEW e \in Event, e.at + Lookback >= n
    PROVE  Weighed(e, n) \in Nat
<1> DEFINE left == Lookback - (IF e.at > n THEN 0 ELSE n - e.at)
<1>1. e.at \in Nat
  BY DEF Event
<1>2. left \in Nat
  BY <1>1, SearchAssumption
<1>3. 2 ^ left \in Nat
  <2> HIDE DEF left
  <2> QED BY <1>2, PowersOfTwo
<1>4. weight(e.action) \in Nat
  BY DEF weight, DEFAULT_ACTION_WEIGHTS
<1>5. Weighed(e, n) = weight(e.action) * 2 ^ left
  BY DEF Weighed
<1> HIDE DEF left
<1> QED BY <1>3, <1>4, <1>5

LEMMA PopularityIsNatural ==
    ASSUME NEW E \in SUBSET Event, IsFiniteSet(E), NEW n \in Nat, \A e \in E : e.at + Lookback >= n
    PROVE  Popularity(E, n) \in Nat
<1> DEFINE w == [e \in E |-> Weighed(e, n)]
<1>1. w \in [E -> Nat]
  BY WeighedIsNatural
<1>2. PICK it : it = Sums(E, w, it) /\ Popularity(E, n) = it[E]
  BY <1>1, PopularityIsSum
<1>3. it[E] \in Nat
  <2> HIDE DEF w
  <2> QED BY <1>1, <1>2, SumsAreNatural
<1> QED BY <1>2, <1>3

\* In one half-life every event that is still read loses half of what it weighs.
LEMMA PopularityHalves ==
    ASSUME NEW E \in SUBSET Event, IsFiniteSet(E), NEW n \in Nat,
           \A e \in E : e.at <= n /\ e.at + Lookback >= n + 1
    PROVE  Popularity(E, n) = 2 * Popularity(E, n + 1)
<1> DEFINE w == [e \in E |-> Weighed(e, n)]
           v == [e \in E |-> Weighed(e, n + 1)]
<1>1. ASSUME NEW e \in E
      PROVE  /\ Weighed(e, n) \in Nat /\ Weighed(e, n + 1) \in Nat
             /\ Weighed(e, n) = 2 * Weighed(e, n + 1)
  <2> DEFINE left == Lookback - (n + 1 - e.at)
  <2>1. e.at \in Nat /\ e.at + Lookback >= n + 1 /\ e.at <= n
    BY DEF Event
  <2>2. left \in Nat /\ Lookback - (n - e.at) = left + 1
    BY <2>1, SearchAssumption
  <2>3. Weighed(e, n) = weight(e.action) * 2 ^ (left + 1)
    BY <2>1, <2>2 DEF Weighed
  <2>4. Weighed(e, n + 1) = weight(e.action) * 2 ^ left
    BY <2>1 DEF Weighed
  <2>5. weight(e.action) \in Nat
    BY DEF weight, DEFAULT_ACTION_WEIGHTS
  <2> HIDE DEF left
  <2>6. 2 ^ left \in Nat /\ 2 ^ (left + 1) = 2 * 2 ^ left
    BY <2>2, PowersOfTwo
  <2>7. \A a, b \in Nat : a * (2 * b) = 2 * (a * b) /\ a * b \in Nat /\ 2 * (a * b) \in Nat
    OBVIOUS
  <2> QED BY <2>3, <2>4, <2>5, <2>6, <2>7
<1>2. w \in [E -> Nat] /\ v \in [E -> Nat] /\ \A e \in E : w[e] = 2 * v[e]
  BY <1>1
<1>3. PICK it : it = Sums(E, w, it) /\ Popularity(E, n) = it[E]
  BY <1>2, PopularityIsSum
<1>4. PICK jt : jt = Sums(E, v, jt) /\ Popularity(E, n + 1) = jt[E]
  BY <1>2, PopularityIsSum
<1>5. it[E] = 2 * jt[E]
  <2> HIDE DEF w, v
  <2> QED BY <1>2, <1>3, <1>4, SumsScale
<1> QED BY <1>3, <1>4, <1>5

\* What is known of usage: finitely many events.
Tracked ==
    /\ usage \subseteq Event /\ IsFiniteSet(usage)
    /\ now \in Nat
    /\ writes \in Nat

LEMMA TrackedInitially == Init => Tracked
BY FS_EmptySet DEF Init, Tracked

LEMMA TrackedKept == Tracked /\ [Next]_vars => Tracked'
<1> SUFFICES ASSUME Tracked, [Next]_vars
             PROVE  Tracked'
  OBVIOUS
<1>1. ASSUME NEW t \in Tenant, NEW u \in Urn, NEW a \in Action, NEW ahead \in {0, 1},
             record_event(t, u, a, ahead)
      PROVE  Tracked'
  <2> DEFINE e == [n |-> Cardinality(usage) + 1, tenant |-> t, urn |-> u, action |-> a,
                   at |-> now + ahead]
  <2>1. Cardinality(usage) \in Nat
    BY FS_CardinalityType DEF Tracked
  <2>2. e \in Event
    BY <2>1 DEF Event, Tracked
  <2>3. usage' = usage \cup {e} /\ now' = now /\ writes' = writes
    BY <1>1 DEF record_event
  <2> HIDE DEF e
  <2>4. IsFiniteSet(usage')
    BY <2>3, FS_AddElement DEF Tracked
  <2> QED BY <2>2, <2>3, <2>4 DEF Tracked
<1>2. CASE Tick
  BY <1>2 DEF Tick, Tracked
<1>3. CASE \E k \in Key : \E doc : Write(k, doc)
  BY <1>3 DEF Write, Tracked
<1>4. CASE UNCHANGED <<usage, now, writes>>
  BY <1>4 DEF Tracked
<1> QED BY <1>1, <1>2, <1>3, <1>4
        DEF Next, vars, tombstone, index_entity, Refresh, RefreshPopularity, set_boost_hook

LEMMA RawIsNatural ==
    ASSUME Tracked, NEW t, NEW u
    PROVE  Raw(t, u) \in Nat
<1> DEFINE E == {e \in Recent(t) : e.urn = u}
<1>1. E \in SUBSET Event /\ E \in SUBSET usage /\ \A e \in E : e.at + Lookback >= now
  BY DEF Recent, Tracked
<1>2. Raw(t, u) = Popularity(E, now)
  BY RawIsPopularity
<1> HIDE DEF E
<1>3. IsFiniteSet(E)
  BY <1>1, FS_Subset DEF Tracked
<1> QED BY <1>1, <1>2, <1>3, PopularityIsNatural DEF Tracked

\* No entity is more popular than the most popular one, in the maps that are kept.
Ranked(sc) == sc \in PopularityMap /\ \A u \in Urn : sc.raw[u] <= sc.top

ScoresAreRanked == scores \in [Tenant -> PopularityMap] /\ \A t \in Tenant : Ranked(scores[t])

LEMMA RankedInitially == Init => ScoresAreRanked
BY DEF Init, ScoresAreRanked, Ranked, NoScores, PopularityMap

\* The top of a map.
LEMMA TopOf ==
    ASSUME NEW f \in [Urn -> Nat]
    PROVE  LET top == Max({0} \cup {f[u] : u \in Urn})
           IN  /\ top \in Nat /\ \A u \in Urn : f[u] <= top
               /\ top = 0 \/ \E u \in Urn : top = f[u]
<1> DEFINE R == {f[u] : u \in Urn}
           S == {0} \cup R
<1>1. S \in SUBSET Nat /\ S # {} /\ 0 \in S /\ \A u \in Urn : f[u] \in S
  OBVIOUS
<1>2. IsFiniteSet(S)
  <2>1. f \in Surjection(Urn, R)
    BY DEF Surjection
  <2> HIDE DEF R
  <2>2. IsFiniteSet(R)
    BY <2>1, SearchAssumption, FS_Surjection
  <2>3. S = R \cup {0}
    OBVIOUS
  <2> HIDE DEF S
  <2> QED BY <2>2, <2>3, FS_AddElement
<1>3. \A m \in S : m = 0 \/ \E u \in Urn : m = f[u]
  OBVIOUS
<1>4. Max(S) \in S /\ \A y \in S : Max(S) >= y
  <2> HIDE DEF S
  <2> QED BY <1>1, <1>2, MaxIsGreatest
<1> HIDE DEF S
<1>5. Max(S) \in Nat /\ (\A u \in Urn : f[u] <= Max(S)) /\ (Max(S) = 0 \/ \E u \in Urn : Max(S) = f[u])
  BY <1>1, <1>3, <1>4
<1> QED BY <1>5 DEF S

LEMMA ComputedIsRanked ==
    ASSUME Tracked, NEW t
    PROVE  Ranked(compute_popularity_scores(t))
<1> DEFINE f == [u \in Urn |-> Raw(t, u)]
<1>1. f \in [Urn -> Nat]
  BY RawIsNatural
<1>2. /\ compute_popularity_scores(t) = [raw |-> f, top |-> Max({0} \cup {f[u] : u \in Urn})]
  BY DEF compute_popularity_scores
<1> HIDE DEF f
<1> QED BY <1>1, <1>2, TopOf DEF Ranked, PopularityMap

LEMMA RankedKept == ScoresAreRanked /\ Tracked /\ [Next]_vars => ScoresAreRanked'
<1> SUFFICES ASSUME ScoresAreRanked, Tracked, [Next]_vars
             PROVE  ScoresAreRanked'
  OBVIOUS
<1>1. ASSUME NEW t \in Tenant, RefreshPopularity(t)
      PROVE  ScoresAreRanked'
  <2> DEFINE sc == compute_popularity_scores(t)
  <2>1. Ranked(sc)
    BY ComputedIsRanked
  <2>2. scores' = [scores EXCEPT ![t] = sc]
    BY <1>1 DEF RefreshPopularity
  <2> HIDE DEF sc
  <2>3. scores' \in [Tenant -> PopularityMap]
    BY <2>1, <2>2 DEF ScoresAreRanked, Ranked
  <2>4. \A s \in Tenant : scores'[s] = IF s = t THEN sc ELSE scores[s]
    BY <2>2 DEF ScoresAreRanked
  <2>5. \A s \in Tenant : Ranked(scores'[s])
    BY <2>1, <2>4 DEF ScoresAreRanked
  <2> QED BY <2>3, <2>5 DEF ScoresAreRanked, Ranked
<1>2. ASSUME UNCHANGED scores
      PROVE  ScoresAreRanked'
  BY <1>2 DEF ScoresAreRanked, Ranked
<1>3. (\E t \in Tenant : RefreshPopularity(t)) \/ UNCHANGED scores
  BY DEF Next, vars, tombstone, index_entity, Write, Refresh, Tick, record_event, set_boost_hook
<1> QED BY <1>1, <1>2, <1>3

LEMMA TopScales ==
    ASSUME NEW f \in [Urn -> Nat], NEW g \in [Urn -> Nat], NEW c \in Nat, \A u \in Urn : f[u] = c * g[u]
    PROVE  Max({0} \cup {f[u] : u \in Urn}) = c * Max({0} \cup {g[u] : u \in Urn})
<1> DEFINE a == Max({0} \cup {f[u] : u \in Urn})
           b == Max({0} \cup {g[u] : u \in Urn})
<1>1. a \in Nat /\ (\A u \in Urn : f[u] <= a) /\ (a = 0 \/ \E u \in Urn : a = f[u])
  BY TopOf
<1>2. b \in Nat /\ (\A u \in Urn : g[u] <= b) /\ (b = 0 \/ \E u \in Urn : b = g[u])
  BY TopOf
<1> HIDE DEF a, b
<1>3. \A n, m \in Nat : c * n \in Nat /\ (n <= m => c * n <= c * m) /\ c * 0 = 0
  OBVIOUS
<1>4. a <= c * b
  <2>1. CASE a = 0
    BY <1>2, <1>3, <2>1
  <2>2. ASSUME NEW u \in Urn, a = f[u]
        PROVE  a <= c * b
    BY <1>2, <1>3, <2>2
  <2> QED BY <1>1, <2>1, <2>2
<1>5. c * b <= a
  <2>1. CASE b = 0
    BY <1>1, <1>3, <2>1
  <2>2. ASSUME NEW u \in Urn, b = g[u]
        PROVE  c * b <= a
    BY <1>1, <2>2
  <2> QED BY <1>2, <2>1, <2>2
<1>6. c * b \in Nat
  BY <1>2, <1>3
<1> QED BY <1>1, <1>4, <1>5, <1>6 DEF a, b

\* All weights double backwards in time, or stay what they are.
LEMMA RawScales ==
    ASSUME Tracked, Tracked', [Next]_vars, NEW t \in Tenant, OwnUsageStays(t)
    PROVE  \E c \in {1, 2} : \A u \in Urn : Raw(t, u) = c * Raw(t, u)' /\ Raw(t, u)' \in Nat
<1>1. now' = now \/ now' = now + 1
  BY DEF Next, vars, tombstone, index_entity, Write, Refresh, RefreshPopularity, Tick,
         record_event, set_boost_hook
<1>2. now \in Nat /\ IsFiniteSet(usage) /\ usage \subseteq Event
  BY DEF Tracked
<1> DEFINE E(u) == {e \in Recent(t) : e.urn = u}
<1>3. Recent(t)' = Recent(t)
  <2>1. \A e \in usage : e.tenant = t => (e.at + Lookback >= now <=> e.at + Lookback >= now')
    BY DEF OwnUsageStays
  <2>2. \A e : e \in usage /\ e.tenant = t <=> e \in usage' /\ e.tenant = t
    BY DEF OwnUsageStays
  <2> QED BY <2>1, <2>2 DEF Recent
<1>4. \A e \in Recent(t) : e \in usage /\ e.at <= now /\ e.at + Lookback >= now /\ e.at + Lookback >= now'
  BY DEF Recent, OwnUsageStays
<1>5. \A u \in Urn : /\ E(u) \in SUBSET Event /\ E(u) \in SUBSET usage
                     /\ \A e \in E(u) : e.at <= now /\ e.at + Lookback >= now /\ e.at + Lookback >= now'
  BY <1>2, <1>4
<1>6. \A u \in Urn : Raw(t, u) = Popularity(E(u), now) /\ Raw(t, u)' = Popularity(E(u), now')
  BY <1>3, RawIsPopularity
<1> HIDE DEF E
<1>7. ASSUME NEW u \in Urn
      PROVE  /\ Popularity(E(u), now) \in Nat /\ Popularity(E(u), now') \in Nat
             /\ now' = now + 1 => Popularity(E(u), now) = 2 * Popularity(E(u), now')
  <2>1. IsFiniteSet(E(u))
    BY <1>2, <1>5, FS_Subset
  <2>2. Popularity(E(u), now) \in Nat
    BY <1>2, <1>5, <2>1, PopularityIsNatural
  <2>3. Popularity(E(u), now') \in Nat
    <3>1. now' \in Nat
      BY DEF Tracked
    <3> QED BY <1>5, <2>1, <3>1, PopularityIsNatural
  <2>4. ASSUME now' = now + 1
        PROVE  Popularity(E(u), now) = 2 * Popularity(E(u), now')
    <3>1. \A e \in E(u) : e.at <= now /\ e.at + Lookback >= now + 1
      BY <1>5, <2>4
    <3>2. Popularity(E(u), now) = 2 * Popularity(E(u), now + 1)
      BY <1>2, <1>5, <2>1, <3>1, PopularityHalves
    <3> QED BY <2>4, <3>2
  <2> QED BY <2>2, <2>3, <2>4
<1>8. CASE now' = now
  BY <1>6, <1>7, <1>8
<1>9. CASE now' = now + 1
  BY <1>6, <1>7, <1>9
<1> QED BY <1>1, <1>8, <1>9

LEMMA ScoresKept ==
    ASSUME Tracked, Tracked', [Next]_vars, NEW t \in Tenant, OwnUsageStays(t)
    PROVE  SameScores(compute_popularity_scores(t), compute_popularity_scores(t)')
<1>1. PICK c \in {1, 2} : \A u \in Urn : Raw(t, u) = c * Raw(t, u)' /\ Raw(t, u)' \in Nat
  BY RawScales
<1> DEFINE f == [u \in Urn |-> Raw(t, u)]
           g == [u \in Urn |-> Raw(t, u)']
           a == Max({0} \cup {f[u] : u \in Urn})
           b == Max({0} \cup {g[u] : u \in Urn})
<1>2. f \in [Urn -> Nat] /\ g \in [Urn -> Nat] /\ \A u \in Urn : f[u] = c * g[u]
  BY <1>1
<1>3. /\ compute_popularity_scores(t) = [raw |-> f, top |-> a]
      /\ compute_popularity_scores(t)' = [raw |-> g, top |-> b]
  BY DEF compute_popularity_scores
<1> HIDE DEF f, g
<1>4. a = c * b /\ b \in Nat
  BY <1>2, TopScales, TopOf
<1> HIDE DEF a, b
<1>5. a = 0 <=> b = 0
  BY <1>4
<1>6. ASSUME NEW u \in Urn
      PROVE  f[u] * b = g[u] * a
  <2>1. \A n, m \in Nat : (1 * n) * m = n * (1 * m) /\ (2 * n) * m = n * (2 * m)
    OBVIOUS
  <2>2. g[u] \in Nat /\ f[u] = c * g[u]
    BY <1>2
  <2> QED BY <1>4, <2>1, <2>2
<1> QED BY <1>3, <1>5, <1>6 DEF SameScores

Weights == [name |-> 5, description |-> 2, tags |-> 1, owner |-> 1]

\* How a text scores in the fields of a document, by its strongest field.
LEMMA FieldScores ==
    ASSUME Indexed, NEW k \in Key, seen[k] # None, seen[k].match # {},
           NEW body, body.all = FALSE, \A f \in Field : body.weights[f] = Weights[f]
    PROVE  FieldScore(body, k) = CASE Rank(k) = 3 -> 5 [] Rank(k) = 2 -> 2 [] OTHER -> 1
<1> DEFINE W == {body.weights[f] : f \in seen[k].match}
<1>1. seen[k].match \subseteq Field
  BY DEF Indexed, Document
<1>2. /\ W \subseteq {1, 2, 5} /\ W # {}
      /\ 5 \in W <=> "name" \in seen[k].match
      /\ 2 \in W <=> "description" \in seen[k].match
  BY <1>1 DEF Field, Weights
<1>3. FieldScore(body, k) = Max(W)
  BY DEF FieldScore
<1> HIDE DEF W
<1>4. Max(W) \in W /\ \A y \in W : Max(W) >= y
  <2>1. IsFiniteSet(1..5)
    <3>1. \A a, b \in Int : IsFiniteSet(a..b)
      BY FS_Interval
    <3>2. 1 \in Int /\ 5 \in Int
      OBVIOUS
    <3> QED BY <3>1, <3>2, Zenon
  <2>2. W \subseteq 1..5 /\ W \in SUBSET Nat
    BY <1>2
  <2>3. IsFiniteSet(W)
    BY <2>1, <2>2, FS_Subset
  <2> QED BY <1>2, <2>2, <2>3, MaxIsGreatest
<1> QED BY <1>2, <1>3, <1>4 DEF Rank

\* A boosted body: its weights, and factors that differ by two at most.
LEMMA BoostedBody ==
    ASSUME ScoresAreRanked, NEW t \in Tenant, NEW r \in Requests, r.text,
           NEW body \in apply_relevance_boost(BaseQuery(t, r), t)
    PROVE  /\ body.all = FALSE
           /\ \A f \in Field : body.weights[f] = Weights[f]
           /\ \E top \in Nat : \A u \in Urn : /\ Factor(body, u) \in Nat
                                              /\ top <= Factor(body, u) /\ Factor(body, u) <= 2 * top
<1> DEFINE fields == apply_field_boosts(BaseQuery(t, r))
           sc == scores[t]
           Boosted(S) == [fields EXCEPT !.boost = [urns |-> S, scores |-> sc], !.wrapped = TRUE]
<1>1. /\ fields.all = FALSE /\ fields.boost = NoBoost
      /\ fields.weights = [f \in Field |-> _reweight_field(f, BaseWeights)]
  BY DEF apply_field_boosts, BaseQuery
<1>2. \A f \in Field : fields.weights[f] = Weights[f]
  <2> HIDE DEF fields
  <2>1. \A f \in Field : _reweight_field(f, BaseWeights) = Weights[f]
    BY DEF Field, _reweight_field, DEFAULT_BOOST_PROFILE, BaseWeights, Weights
  <2> QED BY <1>1, <2>1
<1>3. \A S : /\ Boosted(S).all = fields.all /\ Boosted(S).weights = fields.weights
             /\ Boosted(S).boost = [urns |-> S, scores |-> sc]
  BY DEF apply_field_boosts, BaseQuery
<1>4. body \in apply_popularity_boost(fields, sc)
  BY DEF apply_relevance_boost
<1>5. PICK S : body = IF S = {} THEN fields ELSE Boosted(S)
  <2> HIDE DEF fields, sc
  <2> QED BY <1>4 DEF apply_popularity_boost
<1> HIDE DEF fields, Boosted
<1>6. CASE S = {}
  <2>1. \A u \in Urn : Factor(body, u) = 1
    BY <1>1, <1>5, <1>6 DEF Factor, NoBoost
  <2> QED BY <1>1, <1>2, <1>5, <1>6, <2>1
<1>7. CASE S # {}
  <2>1. body.boost.urns = S /\ body.boost.scores = sc
    <3>1. body = Boosted(S)
      BY <1>5, <1>7
    <3>2. body.boost = [urns |-> S, scores |-> sc]
      BY <1>3, <3>1
    <3> QED BY <3>2
  <2>2. Ranked(sc)
    BY DEF ScoresAreRanked
  <2>3. CASE Urn = {}
    BY <1>1, <1>2, <1>3, <1>5, <1>7, <2>3
  <2>4. CASE Urn # {}
    <3> HIDE DEF sc
    <3>1. sc.top \in Nat /\ \A u \in Urn : sc.raw[u] \in Nat /\ sc.raw[u] <= sc.top
      BY <2>2, <2>4 DEF Ranked, PopularityMap
    <3>2. \A u \in Urn : Factor(body, u) = IF u \in S THEN sc.top + 1 * sc.raw[u] ELSE sc.top
      BY <1>7, <2>1 DEF Factor, popularity_weight
    <3>3. \A u \in Urn : /\ Factor(body, u) \in Nat
                         /\ sc.top <= Factor(body, u) /\ Factor(body, u) <= 2 * sc.top
      BY <3>1, <3>2
    <3> QED BY <1>1, <1>2, <1>3, <1>5, <1>7, <3>1, <3>3
  <2> QED BY <2>3, <2>4
<1> QED BY <1>6, <1>7

LEMMA OrderKept ==
    ASSUME Indexed, ScoresAreRanked
    PROVE  FieldOrderKept
<1> SUFFICES ASSUME NEW t \in Tenant, NEW r \in Requests, r.text,
                    NEW body \in apply_relevance_boost(BaseQuery(t, r), t),
                    NEW k \in Key, NEW j \in Key, Matches(body, k), Matches(body, j),
                    Rank(k) > Rank(j)
             PROVE  Score(body, k) >= Score(body, j)
  BY DEF FieldOrderKept
<1>1. body.all = FALSE /\ \A f \in Field : body.weights[f] = Weights[f]
  BY BoostedBody
<1>2. PICK top \in Nat : \A u \in Urn : /\ Factor(body, u) \in Nat
                                        /\ top <= Factor(body, u) /\ Factor(body, u) <= 2 * top
  BY BoostedBody
<1>3. seen[k] # None /\ seen[k].match # {} /\ seen[j] # None /\ seen[j].match # {}
  BY <1>1 DEF Matches
<1>4. /\ FieldScore(body, k) = CASE Rank(k) = 3 -> 5 [] Rank(k) = 2 -> 2 [] OTHER -> 1
      /\ FieldScore(body, j) = CASE Rank(j) = 3 -> 5 [] Rank(j) = 2 -> 2 [] OTHER -> 1
  BY <1>1, <1>3, FieldScores
<1>5. Rank(k) \in {1, 2, 3} /\ Rank(j) \in {1, 2, 3}
  BY DEF Rank
<1> DEFINE a == Factor(body, k[2])
           b == Factor(body, j[2])
<1>6. a \in Nat /\ b \in Nat /\ top <= a /\ b <= 2 * top
  BY <1>2 DEF Key
<1>7. Score(body, k) = FieldScore(body, k) * a /\ Score(body, j) = FieldScore(body, j) * b
  BY DEF Score
<1> HIDE DEF a, b
<1>8. CASE Rank(k) = 3 /\ Rank(j) = 2
  BY <1>4, <1>6, <1>7, <1>8
<1>9. CASE Rank(k) = 3 /\ Rank(j) = 1
  BY <1>4, <1>6, <1>7, <1>9
<1>10. CASE Rank(k) = 2 /\ Rank(j) = 1
  BY <1>4, <1>6, <1>7, <1>10
<1> QED BY <1>5, <1>8, <1>9, <1>10
-----------------------------------------------------------------------------
(* Theorems. *)

\* Whatever hook is plugged in and whatever popularity says, an answer that succeeds
\* holds exactly the tenant's live documents that were asked for (query_builder.py).
THEOREM BoostKeepsResultsAlways == Spec => []BoostKeepsResults
<1>1. Indexed => BoostKeepsResults
  BY ResultsKept
<1> QED BY <1>1, IndexedInitially, IndexedKept, PTL DEF Spec

\* The profile's weights keep a stronger field ahead of a weaker one for every history of
\* usage, because popularity multiplies by two at most (boost_profile.py).
THEOREM FieldOrderKeptAlways == Spec => []FieldOrderKept
<1>1. Indexed /\ ScoresAreRanked => FieldOrderKept
  BY OrderKept
<1> QED BY <1>1, TrackedInitially, TrackedKept, RankedInitially, RankedKept,
           IndexedInitially, IndexedKept, PTL DEF Spec

\* Types: the scores that are kept are natural numbers for every history of usage.
THEOREM TypeCorrect == Spec => []TypeOK
<1>1. Indexed /\ Tracked /\ ScoresAreRanked => TypeOK
  BY DEF Indexed, Tracked, ScoresAreRanked, TypeOK
<1> QED BY <1>1, TrackedInitially, TrackedKept, RankedInitially, RankedKept,
           IndexedInitially, IndexedKept, PTL DEF Spec

\* The passing of time and the usage of others leave the scores of a tenant as they are
\* relative to each other, for any lookback (popularity.py).
THEOREM PopularityStableAlways == Spec => PopularityStable
<1>1. Tracked /\ Tracked' /\ [Next]_vars =>
        [\A t \in Tenant : OwnUsageStays(t) =>
            SameScores(compute_popularity_scores(t), compute_popularity_scores(t)')]_vars
  BY ScoresKept
<1> QED BY <1>1, TrackedInitially, TrackedKept, PTL DEF Spec, PopularityStable
=============================================================================
