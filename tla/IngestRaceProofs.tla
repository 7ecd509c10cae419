------------------------- MODULE IngestRaceProofs -------------------------
(***************************************************************************)
(* The read models under several replicas: for every number of them, every *)
(* content of the batches and every number of faults, only entities that   *)
(* different writes were carrying at once ever drift from their row.       *)
(***************************************************************************)
EXTENDS IngestRace, IngestProofs
-----------------------------------------------------------------------------
(* The invariant. *)

\* The row is what e makes of it, whatever it was before.
Applied(e, row) == IF e.op = "upsert" THEN row = C!Upserted(e.hash) ELSE row.state # "live"

\* Writing e from what was found leads there, if it leads to a projection at all.
WillApply(found, row, e) ==
    ~InsertRaises(found, row, e) /\ Changed(found, e) => Applied(e, Row(found, row, e))

\* r carries its entity alone, or whoever did since has projected it.
Trusted(r) == <<r, Cur(r).urn>> \notin fought \/ Cur(r).urn \notin contested

Sound(r) ==
    LET u == Cur(r).urn IN
    /\ At(r, "write") => WillApply(w[r].found, rel[u], Cur(r))
    /\ w[r].pc \in {"graph", "search"} => Applied(Cur(r), rel[u])
    /\ At(r, "search") => Projects(graph, u)

TrustedAreSound ==
    \A r \in Replica : w[r].pc \in {"write", "graph", "search"} /\ Trusted(r) => Sound(r)

OverlapIsRemembered == \A ru \in Overlap : ru \in fought /\ ru[2] \in contested

RaceInv == TypeOK /\ OverlapIsRemembered /\ TrustedAreSound /\ OnlyContestedDrift
-----------------------------------------------------------------------------
(* What two requests with the same entity make of its row. *)

LEMMA SelectedApplies ==
    ASSUME NEW row \in C!Copy, NEW e \in Entity
    PROVE  WillApply(row, row, e)
BY RowOutcome DEF WillApply, Applied, Entity

\* Once e is applied, applying it again from whatever was found changes nothing.
LEMMA AppliedStays ==
    ASSUME NEW row \in C!Copy, NEW found \in C!Copy, NEW e \in Entity,
           Applied(e, row), ~InsertRaises(found, row, e)
    PROVE  Applied(e, Row(found, row, e))
<1>1. CASE Skips(found, e)
  BY <1>1 DEF Row
<1>2. CASE ~Skips(found, e) /\ e.op = "delete"
  BY <1>2 DEF Row, Applied, C!Tombstoned, C!Copy, C!States
<1>3. CASE ~Skips(found, e) /\ e.op = "upsert"
  BY <1>3 DEF Row, Applied, C!Upserted
<1> QED BY <1>1, <1>2, <1>3 DEF Entity

\* What another request with the same entity writes in between does no harm.
LEMMA WillApplyStays ==
    ASSUME NEW row \in C!Copy, NEW found \in C!Copy, NEW other \in C!Copy, NEW e \in Entity,
           WillApply(found, row, e), ~InsertRaises(other, row, e)
    PROVE  WillApply(found, Row(other, row, e), e)
<1> DEFINE row2 == Row(other, row, e)
<1>1. row2 \in C!Copy
  BY CopyTypes
<1>2. SUFFICES ASSUME ~InsertRaises(found, row2, e), Changed(found, e)
               PROVE  Applied(e, Row(found, row2, e))
  BY DEF WillApply
<1>3. CASE e.op = "delete"
  <2>1. row.state # "live" => row2.state # "live"
    BY <1>3 DEF Row, C!Tombstoned, C!Copy, C!States
  <2>2. Applied(e, Row(found, row, e))
    BY <1>2, <1>3 DEF WillApply, InsertRaises
  <2>3. CASE found.state = "live"
    BY <1>1, <1>3, <2>3 DEF Row, Skips, Applied, C!Tombstoned, C!Copy, C!States
  <2>4. CASE found.state # "live"
    <3>1. Row(found, row, e) = row /\ Row(found, row2, e) = row2
      BY <1>3, <2>4 DEF Row
    <3> QED BY <1>3, <2>1, <2>2, <3>1 DEF Applied
  <2> QED BY <2>3, <2>4
<1>4. CASE e.op = "upsert" /\ found.state = "absent"
  BY <1>2, <1>4 DEF Row, Changed, Applied, C!Upserted
<1>5. CASE e.op = "upsert" /\ found.state # "absent"
  <2>1. Applied(e, Row(found, row, e)) /\ ~Skips(found, e)
    BY <1>2, <1>5 DEF WillApply, InsertRaises, Changed
  <2>2. Row(found, row, e) = [state |-> IF found.state = "deleted" THEN "live" ELSE row.state,
                              hash |-> IF e.hash = found.hash THEN row.hash ELSE e.hash]
    BY <1>5, <2>1 DEF Row
  <2>3. /\ found.state = "deleted" \/ row.state = "live"
        /\ e.hash = found.hash => row.hash = e.hash
    BY <1>5, <2>1, <2>2 DEF Applied, C!Upserted
  <2>4. /\ row.state = "live" => row2.state = "live"
        /\ row.hash = e.hash => row2.hash = e.hash
    BY <1>5 DEF Row, C!Upserted
  <2>5. Row(found, row2, e) = [state |-> IF found.state = "deleted" THEN "live" ELSE row2.state,
                               hash |-> IF e.hash = found.hash THEN row2.hash ELSE e.hash]
    BY <1>5, <2>1 DEF Row
  <2> QED BY <1>5, <2>3, <2>4, <2>5 DEF Applied, C!Upserted
<1> QED BY <1>3, <1>4, <1>5 DEF Entity

\* A projection of an entity whose row is as the entity says.
LEMMA ProjectionFollows ==
    ASSUME NEW e \in Entity, NEW row \in C!Copy, NEW copy \in C!Copy, Applied(e, row)
    PROVE  /\ IF row.state = "live" THEN Node(copy, e) = row ELSE Node(copy, e).state # "live"
           /\ KindOf[e.urn] \in SEARCHABLE_ENTITY_TYPES =>
                IF row.state = "live" THEN Document(copy, e) = row ELSE Document(copy, e).state # "live"
<1>1. CASE e.op = "upsert"
  BY <1>1 DEF Applied, Node, Document, C!Upserted
<1>2. CASE e.op = "delete"
  BY <1>2 DEF Applied, Node, Document, C!Tombstoned, C!Copy
<1> QED BY <1>1, <1>2 DEF Entity
-----------------------------------------------------------------------------
(* Who moves, and what that does to the history. *)

Working == {"select", "write", "graph", "search", "analytics"}

\* A step of p that touches no store; what it cuts between stores is torn.
Quiet(p) ==
    /\ UNCHANGED <<rel, graph, search>>
    /\ torn \subseteq torn'
    /\ \A q \in Replica \ {p} : w'[q] = w[q]
    /\ \/ w'[p] = w[p]
       \/ RelSelect(p)
       \/ w[p].pc \notin {"graph", "search"} /\ w'[p].pc \in {"select", "analytics", "respond", "idle"}
       \/ w'[p].pc = "idle" /\ (w[p].pc \in {"graph", "search"} => Cur(p).urn \in torn')

LEMMA AdvanceMoves ==
    ASSUME TypeOK, NEW r \in Replica, NEW b, NEW i, Advance(r, b, i)
    PROVE  /\ \A q \in Replica \ {r} : w'[q] = w[q]
           /\ w'[r].pc \in {"select", "analytics", "respond"}
BY DEF Advance, FirstStore, TypeOK

LEMMA AbandonIsQuiet ==
    ASSUME TypeOK, NEW r \in Replica, Abandon(r)
    PROVE  Quiet(r)
BY DEF Abandon, Quiet, Idle, TypeOK, stores

LEMMA RaceSteps ==
    ASSUME TypeOK, Next
    PROVE  \E p \in Replica : RelWrite(p) \/ GraphWrite(p) \/ SearchWrite(p) \/ Quiet(p)
<1>1. ASSUME NEW r \in Replica, RelSelect(r) PROVE Quiet(r)
  BY <1>1 DEF RelSelect, Quiet, TypeOK, stores
<1>2. ASSUME NEW r \in Replica, AnalyticsWrite(r) PROVE Quiet(r)
  BY <1>2, AdvanceMoves DEF AnalyticsWrite, Quiet, At
<1>3. ASSUME NEW r \in Replica, Respond(r) PROVE Quiet(r)
  BY <1>3 DEF Respond, Quiet, At, Idle, TypeOK, stores
<1>4. ASSUME NEW r \in Replica, Poison(r) \/ StoreFails(r) \/ Restart(r) PROVE Quiet(r)
  BY <1>4, AbandonIsQuiet DEF Poison, StoreFails, Restart, Raise
<1>5. ASSUME NEW r \in Replica, NEW b \in BatchId, Admit(r, b) PROVE Quiet(r)
  BY <1>5, AdvanceMoves DEF Admit, Quiet, At, stores
<1>6. ASSUME NEW r \in Replica, NEW b \in BatchId, Refuse(r, b) \/ Replay(r, b) \/ Expire(r, b)
      PROVE  Quiet(r)
  BY <1>6 DEF Refuse, Replay, Expire, Quiet, stores
<1> QED BY <1>1, <1>2, <1>3, <1>4, <1>5, <1>6 DEF Next, Serve

LEMMA GotoMoves ==
    ASSUME TypeOK, NEW p \in Replica, NEW pc, Goto(p, pc)
    PROVE  w'[p].pc = pc /\ Cur(p)' = Cur(p) /\ \A q \in Replica \ {p} : w'[q] = w[q]
BY DEF Goto, TypeOK, Work, Cur

Writes(p) == RelWrite(p) \/ GraphWrite(p) \/ SearchWrite(p)

LEMMA WritesStay ==
    ASSUME TypeOK, NEW p \in Replica, Writes(p)
    PROVE  /\ \A q \in Replica : q # p => w'[q] = w[q]
           /\ Cur(p)' = Cur(p)
           /\ Cur(p) \in Entity /\ Cur(p).urn \in Urn
           /\ w[p].pc \in {"write", "graph", "search"}
<1>1. w[p].pc \in {"write", "graph", "search"}
  BY DEF Writes, RelWrite, GraphWrite, SearchWrite, At
<1>2. \E pc : Goto(p, pc)
  BY DEF Writes, RelWrite, GraphWrite, SearchWrite
<1>3. Cur(p) \in Entity /\ Cur(p).urn \in Urn
  BY <1>1, CurType DEF Entity
<1> QED BY <1>1, <1>2, <1>3, GotoMoves

LEMMA RelWriteGoes ==
    ASSUME TypeOK, NEW p \in Replica, RelWrite(p)
    PROVE  /\ w[p].pc = "write"
           /\ w'[p].pc = IF Changed(w[p].found, Cur(p)) THEN "graph" ELSE "analytics"
BY GotoMoves DEF RelWrite, At

LEMMA GraphWriteGoes ==
    ASSUME TypeOK, NEW p \in Replica, GraphWrite(p)
    PROVE  /\ w[p].pc = "graph"
           /\ w'[p].pc = IF Indexed(Cur(p).urn) THEN "search" ELSE "analytics"
<1>1. Goto(p, IF Indexed(Cur(p).urn) THEN "search" ELSE "analytics") /\ w[p].pc = "graph"
  BY DEF GraphWrite, At
<1> QED BY <1>1, GotoMoves

LEMMA SearchWriteGoes ==
    ASSUME TypeOK, NEW p \in Replica, SearchWrite(p)
    PROVE  w[p].pc = "search" /\ w'[p].pc = "analytics"
BY GotoMoves DEF SearchWrite, At

\* Two requests that carry u are about the same entity if one of them is trusted.
LEMMA SameEntity ==
    ASSUME TypeOK, OverlapIsRemembered, NEW p \in Replica, NEW q \in Replica,
           w[p].pc \in Working, w[q].pc \in Working,
           Cur(p).urn = Cur(q).urn, Trusted(p) \/ Trusted(q)
    PROVE  Cur(p) = Cur(q)
<1> DEFINE u == Cur(p).urn
<1>1. SUFFICES ASSUME p # q PROVE Cur(p) = Cur(q)
  OBVIOUS
<1>2. Cur(p) \in Entity /\ Cur(q) \in Entity /\ u \in Urn
  BY CurType DEF Working, Entity
<1>3. /\ w[p].pos \in Places(w[p].batch, u)
      /\ w[q].pos \in Places(w[q].batch, u)
      /\ Carries(p, u) /\ Carries(q, u)
  BY CurType DEF Working, Places, Cur, Carries
<1>4. Clash(p, q, u) => <<p, u>> \in Overlap /\ <<q, u>> \in Overlap
  <2>1. Clash(p, q, u) => Clash(q, p, u)
    BY <1>1 DEF Clash
  <2> QED BY <1>2, <2>1 DEF Overlap
<1>5. ~Clash(p, q, u)
  <2>1. \A v : v = <<p, u>> \/ v = <<q, u>> => v[2] = u
    OBVIOUS
  <2> QED BY <1>4, <2>1 DEF OverlapIsRemembered, Trusted
<1>6. w[p].batch = w[q].batch /\ w[p].pos = w[q].pos
  BY <1>1, <1>3, <1>5 DEF Clash
<1> QED BY <1>6 DEF Cur

\* A replica that stands still comes to be trusted only when a trusted one has
\* projected its entity.
LEMMA TrustGained ==
    ASSUME RaceInv, Watch, NEW q \in Replica, w'[q] = w[q], w[q].pc \in Working, Trusted(q)'
    PROVE  \/ Trusted(q)
           \/ \E p \in Replica : Trusted(p) /\ ProjectedBy(p, Cur(q).urn)
<1> DEFINE u == Cur(q).urn
<1>1. Cur(q)' = Cur(q) /\ w'[q].pc # "idle"
  BY DEF Cur, Working
<1>2. <<q, u>> \notin fought' => <<q, u>> \notin fought
  BY <1>1 DEF Watch
<1>3. u \notin contested' =>
        u \notin contested \/ \E p \in Replica : <<p, u>> \notin fought /\ ProjectedBy(p, u)
  BY DEF Watch
<1> QED BY <1>1, <1>2, <1>3 DEF Trusted, ProjectedBy

\* The step of p keeps p trusted if it stays with its entity.
LEMMA TrustKept ==
    ASSUME RaceInv, Watch, NEW p \in Replica, w'[p].pc \in {"write", "graph", "search"},
           \A q \in Replica \ {p} : w'[q] = w[q], Cur(p)' = Cur(p), Trusted(p)'
    PROVE  Trusted(p)
<1> DEFINE u == Cur(p).urn
<1>1. <<p, u>> \notin fought' => <<p, u>> \notin fought
  BY DEF Watch
<1>2. \A q \in Replica : ~ProjectedBy(q, u)
  BY DEF ProjectedBy
<1>3. u \notin contested' => u \notin contested
  BY <1>2 DEF Watch
<1> QED BY <1>1, <1>3 DEF Trusted

LEMMA HistoryStep == Watch => OverlapIsRemembered'
BY DEF Watch, OverlapIsRemembered
-----------------------------------------------------------------------------
(* Steps that touch no store. *)

LEMMA QuietStep ==
    ASSUME RaceInv, Watch, NEW p \in Replica, Quiet(p), TypeOK'
    PROVE  TrustedAreSound' /\ OnlyContestedDrift'
<1> USE DEF RaceInv
<1>1. \A q \in Replica : \A u : ~ProjectedBy(q, u)
  BY DEF Quiet, ProjectedBy, RelSelect, At
<1>2. ASSUME NEW q \in Replica, w'[q] = w[q] PROVE
        w'[q].pc \in {"write", "graph", "search"} /\ Trusted(q)' => Sound(q)'
  <2>1. Cur(q)' = Cur(q)
    BY <1>2 DEF Cur
  <2>2. SUFFICES ASSUME w[q].pc \in {"write", "graph", "search"}, Trusted(q)' PROVE Sound(q)'
    BY <1>2
  <2>3. Trusted(q)
    BY <1>1, <1>2, <2>2, TrustGained DEF Working
  <2> QED BY <1>2, <2>1, <2>2, <2>3 DEF TrustedAreSound, Sound, At, Projects, Live, Quiet
<1>3. ASSUME RelSelect(p) PROVE Sound(p)'
  <2>1. /\ w'[p].pc = "write" /\ w'[p].found = rel[Cur(p).urn] /\ Cur(p)' = Cur(p)
    <3>1. w' = [w EXCEPT ![p].pc = "write", ![p].found = rel[Cur(p).urn]]
      BY <1>3 DEF RelSelect
    <3>2. w'[p].pc = "write" /\ w'[p].found = rel[Cur(p).urn]
      BY <3>1 DEF TypeOK, Work
    <3>3. w'[p].batch = w[p].batch /\ w'[p].pos = w[p].pos
      BY <3>1 DEF TypeOK, Work
    <3> QED BY <3>2, <3>3 DEF Cur
  <2>2. Cur(p) \in Entity /\ rel[Cur(p).urn] \in C!Copy
    BY <1>3, CurType DEF RelSelect, At, TypeOK, Entity
  <2> QED BY <2>1, <2>2, SelectedApplies DEF Sound, At, Quiet
<1>4. TrustedAreSound'
  BY <1>2, <1>3 DEF TrustedAreSound, Quiet
<1>5. OnlyContestedDrift'
  <2> SUFFICES ASSUME NEW u \in Urn, ~Fanning(u)', u \notin torn' \cup contested'
               PROVE  InSync(u)'
    BY DEF OnlyContestedDrift
  <2>1. u \notin torn \cup contested
    BY <1>1 DEF Quiet, Watch
  <2>2. ASSUME NEW q \in Replica, w[q].pc \in {"graph", "search"}, Cur(q).urn = u PROVE FALSE
    <3>1. CASE w'[q] = w[q]
      BY <2>2, <3>1 DEF Fanning, Cur
    <3>2. CASE w'[q] # w[q]
      BY <2>2, <3>2 DEF Quiet, RelSelect, At
    <3> QED BY <3>1, <3>2
  <2> QED BY <2>1, <2>2 DEF OnlyContestedDrift, Fanning, InSync, Projects, Live, Quiet
<1> QED BY <1>4, <1>5
-----------------------------------------------------------------------------
(* The three writes. *)

LEMMA RelWriteSound ==
    ASSUME RaceInv, Watch, NEW p \in Replica, RelWrite(p), TypeOK'
    PROVE  TrustedAreSound'
<1> USE DEF RaceInv
<1>0. Writes(p)
  BY DEF Writes
<1> DEFINE e == Cur(p)
           u == Cur(p).urn
           row == rel[u]
           row2 == Row(w[p].found, row, e)
<1>1. e \in Entity /\ u \in Urn /\ row \in C!Copy /\ w[p].found \in C!Copy /\ row2 \in C!Copy
  BY CurType, CopyTypes, <1>0, WritesStay, RelWriteGoes DEF At, Entity, TypeOK, Work
<1>2. /\ rel'[u] = row2
      /\ \A v \in Urn \ {u} : rel'[v] = rel[v]
      /\ UNCHANGED graph
      /\ ~InsertRaises(w[p].found, row, e)
      /\ Cur(p)' = e
  BY <1>0, <1>1, WritesStay DEF RelWrite, TypeOK
<1>3. ASSUME NEW q \in Replica, q # p, w'[q].pc \in {"write", "graph", "search"}, Trusted(q)'
      PROVE  Sound(q)'
  <2>1. w'[q] = w[q] /\ Cur(q)' = Cur(q)
    BY <1>3, <1>0, WritesStay, RelWriteGoes DEF Cur
  <2>2. Trusted(q)
    BY <1>3, <2>1, TrustGained, <1>0, WritesStay, RelWriteGoes DEF Working, ProjectedBy, At
  <2>3. Sound(q)
    BY <1>3, <2>1, <2>2 DEF TrustedAreSound
  <2>4. Cur(q) \in Entity /\ w[q].found \in C!Copy
    BY <1>3, <2>1, CurType DEF TypeOK, Work
  <2>5. CASE Cur(q).urn # u
    BY <1>2, <2>1, <2>3, <2>4, <2>5 DEF Sound, At, Projects, Live, Entity
  <2>6. CASE Cur(q).urn = u
    <3>1. Cur(q) = e
      BY <1>3, <2>1, <2>2, <2>6, SameEntity, <1>0, WritesStay, RelWriteGoes DEF Working
    <3>2. w[q].pc = "write" => WillApply(w[q].found, row2, e)
      BY <1>1, <1>2, <2>3, <2>4, <3>1, WillApplyStays DEF Sound, At
    <3>3. w[q].pc \in {"graph", "search"} => Applied(e, row) /\ Applied(e, row2)
      BY <1>1, <1>2, <2>3, <3>1, AppliedStays DEF Sound
    <3>4. w[q].pc = "search" => Projects(graph, u)'
      <4>1. w[q].pc = "search" => Projects(graph, u)
        BY <2>3, <3>1 DEF Sound, At
      <4> QED BY <1>1, <1>2, <3>3, <4>1 DEF Projects, Live, Applied, C!Upserted, Entity
    <3> QED BY <1>2, <2>1, <3>1, <3>2, <3>3, <3>4 DEF Sound, At
  <2> QED BY <2>5, <2>6
<1>4. ASSUME w'[p].pc \in {"write", "graph", "search"}, Trusted(p)' PROVE Sound(p)'
  <2>1. w'[p].pc = "graph" /\ Changed(w[p].found, e) /\ Cur(p)' = e
    BY <1>4, <1>0, WritesStay, RelWriteGoes
  <2>2. Trusted(p)
    BY <1>4, <1>0, WritesStay, RelWriteGoes, TrustKept
  <2>3. Applied(e, row2)
    BY <1>2, <2>1, <2>2, <1>0, WritesStay, RelWriteGoes DEF TrustedAreSound, Sound, At, WillApply
  <2> QED BY <1>2, <2>1, <2>3 DEF Sound, At
<1> QED BY <1>3, <1>4 DEF TrustedAreSound

LEMMA RelWriteInSync ==
    ASSUME RaceInv, Watch, NEW p \in Replica, RelWrite(p), TypeOK'
    PROVE  OnlyContestedDrift'
<1> USE DEF RaceInv
<1>0. Writes(p)
  BY DEF Writes
<1> DEFINE e == Cur(p)
           u == Cur(p).urn
<1>1. e \in Entity /\ u \in Urn
  BY CurType, <1>0, WritesStay, RelWriteGoes DEF At, Entity
<1>2. /\ rel'[u] = Row(w[p].found, rel[u], e)
      /\ \A v \in Urn \ {u} : rel'[v] = rel[v]
      /\ UNCHANGED <<graph, search, torn>>
  BY <1>1 DEF RelWrite, TypeOK
<1>3. SUFFICES ASSUME NEW v \in Urn, ~Fanning(v)', v \notin torn' \cup contested'
               PROVE  InSync(v)'
  BY DEF OnlyContestedDrift
<1>4. rel'[v] = rel[v]
  <2>1. v = u => ~Changed(w[p].found, e)
    BY <1>3, <1>0, WritesStay, RelWriteGoes DEF Fanning
  <2>2. ~Changed(w[p].found, e) => Row(w[p].found, rel[u], e) = rel[u]
    BY DEF Changed, Row
  <2> QED BY <1>2, <2>1, <2>2
<1>5. v \notin contested
  BY <1>3, <1>0, WritesStay, RelWriteGoes DEF Watch, ProjectedBy, At
<1>6. ~Fanning(v)
  <2> SUFFICES ASSUME NEW q \in Replica, w[q].pc \in {"graph", "search"}, Cur(q).urn = v PROVE FALSE
    BY DEF Fanning
  <2>1. w'[q] = w[q]
    BY <1>0, WritesStay, RelWriteGoes DEF At
  <2> QED BY <1>3, <2>1 DEF Fanning, Cur
<1> QED BY <1>2, <1>3, <1>4, <1>5, <1>6 DEF OnlyContestedDrift, InSync, Projects, Live

\* What the two projections have in common.  p projects its entity into a store.
LEMMA ProjectionStep ==
    ASSUME RaceInv, Watch, NEW p \in Replica, GraphWrite(p) \/ SearchWrite(p), TypeOK'
    PROVE  /\ Cur(p) \in Entity /\ Cur(p).urn \in Urn /\ Cur(p)' = Cur(p)
           /\ rel' = rel /\ \A v \in Urn : rel[v] \in C!Copy
           /\ \A v \in Urn \ {Cur(p).urn} : graph'[v] = graph[v] /\ search'[v] = search[v]
           /\ Trusted(p) =>
                /\ Applied(Cur(p), rel[Cur(p).urn])
                /\ Projects(graph', Cur(p).urn)
                /\ SearchWrite(p) /\ KindOf[Cur(p).urn] \in SEARCHABLE_ENTITY_TYPES =>
                      Projects(search', Cur(p).urn)
<1> USE DEF RaceInv
<1>0. Writes(p)
  BY DEF Writes
<1> DEFINE e == Cur(p)
           u == Cur(p).urn
<1>1. e \in Entity /\ u \in Urn
  BY CurType, <1>0, WritesStay, GraphWriteGoes, SearchWriteGoes DEF At, Entity
<1>2. rel' = rel /\ \A v \in Urn : rel[v] \in C!Copy /\ graph[v] \in C!Copy /\ search[v] \in C!Copy
  BY DEF GraphWrite, SearchWrite, TypeOK
<1>3. CASE GraphWrite(p)
  <2>1. /\ graph'[u] = Node(graph[u], e) /\ \A v \in Urn \ {u} : graph'[v] = graph[v]
        /\ UNCHANGED search /\ w[p].pc = "graph" /\ ~SearchWrite(p)
    BY <1>1, <1>3 DEF GraphWrite, TypeOK, At, SearchWrite
  <2>2. Trusted(p) => Applied(e, rel[u])
    BY <2>1 DEF TrustedAreSound, Sound
  <2>3. Trusted(p) => Projects(graph', u)
    BY <1>1, <1>2, <2>1, <2>2, ProjectionFollows DEF Projects, Live
  <2> QED BY <1>1, <1>2, <1>3, <2>1, <2>2, <2>3, <1>0, WritesStay, GraphWriteGoes, SearchWriteGoes
<1>4. CASE SearchWrite(p)
  <2>1. /\ search'[u] = Document(search[u], e) /\ \A v \in Urn \ {u} : search'[v] = search[v]
        /\ UNCHANGED graph /\ w[p].pc = "search"
    BY <1>1, <1>4 DEF SearchWrite, TypeOK, At
  <2>2. Trusted(p) => Applied(e, rel[u]) /\ Projects(graph, u)
    BY <2>1 DEF TrustedAreSound, Sound, At
  <2>3. Trusted(p) /\ KindOf[u] \in SEARCHABLE_ENTITY_TYPES => Projects(search', u)
    BY <1>1, <1>2, <2>1, <2>2, ProjectionFollows DEF Projects, Live
  <2> QED BY <1>1, <1>2, <1>4, <2>1, <2>2, <2>3, <1>0, WritesStay, GraphWriteGoes, SearchWriteGoes
<1> QED BY <1>3, <1>4

LEMMA ProjectionSound ==
    ASSUME RaceInv, Watch, NEW p \in Replica, GraphWrite(p) \/ SearchWrite(p), TypeOK'
    PROVE  TrustedAreSound'
<1> USE DEF RaceInv
<1>0. Writes(p)
  BY DEF Writes
<1> DEFINE e == Cur(p)
           u == Cur(p).urn
<1>1. ASSUME NEW q \in Replica, q # p, w'[q].pc \in {"write", "graph", "search"}, Trusted(q)'
      PROVE  Sound(q)'
  <2>1. w'[q] = w[q] /\ Cur(q)' = Cur(q)
    BY <1>1, <1>0, WritesStay, GraphWriteGoes, SearchWriteGoes DEF Cur
  <2>2. Trusted(q) \/ (Trusted(p) /\ Cur(q).urn = u)
    BY <1>1, <2>1, TrustGained, <1>0, WritesStay, GraphWriteGoes, SearchWriteGoes DEF Working, ProjectedBy
  <2>3. Trusted(q) => Sound(q)
    BY <1>1, <2>1 DEF TrustedAreSound
  <2>4. Cur(q) \in Entity /\ w[q].found \in C!Copy
    BY <1>1, <2>1, CurType DEF TypeOK, Work
  <2>5. CASE Cur(q).urn # u
    BY <2>1, <2>2, <2>3, <2>4, <2>5, ProjectionStep DEF Sound, At, Projects, Live, Entity
  <2>6. CASE Cur(q).urn = u
    <3>1. Cur(q) = e
      BY <1>1, <2>1, <2>2, <2>6, SameEntity, <1>0, WritesStay, GraphWriteGoes, SearchWriteGoes DEF Working
    <3>2. w[q].pc = "write" => WillApply(w[q].found, rel[u], e)
      <4>1. Trusted(p) => WillApply(w[q].found, rel[u], e)
        BY <2>4, AppliedStays, ProjectionStep DEF WillApply
      <4> QED BY <2>2, <2>3, <3>1, <4>1 DEF Sound, At
    <3>3. w[q].pc \in {"graph", "search"} => Applied(e, rel[u])
      BY <2>2, <2>3, <3>1, ProjectionStep DEF Sound
    <3>4. w[q].pc = "search" => Projects(graph', u)
      <4>1. CASE Trusted(p)
        BY <4>1, ProjectionStep
      <4>2. CASE Trusted(q) /\ SearchWrite(p)
        BY <2>3, <3>1, <4>2 DEF Sound, At, SearchWrite
      <4>3. CASE Trusted(q) /\ GraphWrite(p) /\ w[q].pc = "search"
        <5>1. graph'[u] = Node(graph[u], e) /\ graph[u] \in C!Copy
          BY <4>3, ProjectionStep DEF GraphWrite, TypeOK
        <5> QED BY <3>3, <4>3, <5>1, ProjectionStep, ProjectionFollows DEF Projects, Live
      <4> QED BY <2>2, <4>1, <4>2, <4>3
    <3>5. Projects(graph, u)' <=> Projects(graph', u)
      BY ProjectionStep DEF Projects, Live
    <3> QED BY <2>1, <3>1, <3>2, <3>3, <3>4, <3>5, ProjectionStep DEF Sound, At
  <2> QED BY <2>5, <2>6
<1>2. ASSUME w'[p].pc \in {"write", "graph", "search"}, Trusted(p)' PROVE Sound(p)'
  <2>1. w'[p].pc = "search" /\ Cur(p)' = e
    BY <1>2, <1>0, WritesStay, GraphWriteGoes, SearchWriteGoes
  <2>2. Trusted(p)
    BY <1>2, <1>0, WritesStay, GraphWriteGoes, SearchWriteGoes, TrustKept
  <2>3. Projects(graph, u)' <=> Projects(graph', u)
    BY ProjectionStep DEF Projects, Live
  <2> QED BY <2>1, <2>2, <2>3, ProjectionStep DEF Sound, At
<1> QED BY <1>1, <1>2 DEF TrustedAreSound

LEMMA ProjectionInSync ==
    ASSUME RaceInv, Watch, NEW p \in Replica, GraphWrite(p) \/ SearchWrite(p), TypeOK'
    PROVE  OnlyContestedDrift'
<1> USE DEF RaceInv
<1>0. Writes(p)
  BY DEF Writes
<1> DEFINE u == Cur(p).urn
<1>1. SUFFICES ASSUME NEW v \in Urn, ~Fanning(v)', v \notin torn' \cup contested'
               PROVE  InSync(v)'
  BY DEF OnlyContestedDrift
<1>2. CASE v # u
  <2>1. v \notin torn
    BY <1>1, <1>2 DEF GraphWrite, SearchWrite
  <2>2. v \notin contested
    BY <1>1, <1>2, <1>0, WritesStay, GraphWriteGoes, SearchWriteGoes DEF Watch, ProjectedBy
  <2>3. ~Fanning(v)
    <3> SUFFICES ASSUME NEW q \in Replica, w[q].pc \in {"graph", "search"}, Cur(q).urn = v PROVE FALSE
      BY DEF Fanning
    <3>1. w'[q] = w[q]
      BY <1>2, <1>0, WritesStay, GraphWriteGoes, SearchWriteGoes
    <3> QED BY <1>1, <3>1 DEF Fanning, Cur
  <2> QED BY <1>2, <2>1, <2>2, <2>3, ProjectionStep DEF OnlyContestedDrift, InSync, Projects, Live
<1>3. CASE v = u
  <2>1. w'[p].pc = "analytics"
    BY <1>1, <1>3, <1>0, WritesStay, GraphWriteGoes, SearchWriteGoes, ProjectionStep DEF Fanning
  <2>2. Trusted(p)
    <3>1. v \in contested => \E q \in Replica : <<q, v>> \notin fought /\ ProjectedBy(q, v)
      BY <1>1 DEF Watch
    <3>2. \A q \in Replica : ProjectedBy(q, v) => q = p
      BY <1>3, <1>0, WritesStay, GraphWriteGoes, SearchWriteGoes DEF ProjectedBy
    <3> QED BY <1>3, <3>1, <3>2 DEF Trusted
  <2>3. GraphWrite(p) => KindOf[u] \notin SEARCHABLE_ENTITY_TYPES
    <3>1. KindOf[u] \in Kind
      BY IngestAssumption, ProjectionStep
    <3>2. GraphWrite(p) => KindOf[u] \notin SEARCH_ENTITY_TYPES
      BY <2>1, <1>0, WritesStay, GraphWriteGoes, SearchWriteGoes DEF Indexed
    <3> QED BY <3>1, <3>2 DEF SEARCH_ENTITY_TYPES, SEARCHABLE_ENTITY_TYPES, Kind
  <2>4. /\ Projects(graph, u)' <=> Projects(graph', u)
        /\ Projects(search, u)' <=> Projects(search', u)
    BY ProjectionStep DEF Projects, Live
  <2> QED BY <1>3, <2>2, <2>3, <2>4, ProjectionStep DEF InSync
<1> QED BY <1>2, <1>3
-----------------------------------------------------------------------------
LEMMA RaceInitially == RaceInit => RaceInv
<1> SUFFICES ASSUME RaceInit PROVE RaceInv
  OBVIOUS
<1>1. C!Absent \in C!Copy
  BY DEF C!Absent, C!Copy, C!States
<1>2. rel \in [Urn -> C!Copy]
  BY <1>1, RaceAssumption DEF RaceInit
<1>3. \A r \in Replica : w[r] = Idle
  BY DEF RaceInit
<1>4. TypeOK
  BY <1>1, <1>2, <1>3, IngestAssumption DEF RaceInit, TypeOK, Work, Idle, Pcs, Answer
<1>5. OverlapIsRemembered
  <2>1. \A r, q \in Replica : \A u : ~Clash(r, q, u)
    BY <1>3 DEF Clash, Carries, Idle
  <2>2. Overlap = {}
    BY <2>1 DEF Overlap
  <2> QED BY <2>2 DEF OverlapIsRemembered
<1>6. TrustedAreSound
  BY <1>3 DEF TrustedAreSound, Idle
<1>7. OnlyContestedDrift
  BY <1>2 DEF OnlyContestedDrift, InSync, Projects, Live, RaceInit, C!Absent
<1> QED BY <1>4, <1>5, <1>6, <1>7 DEF RaceInv

LEMMA RaceStep == RaceInv /\ [Next /\ Watch]_raceVars => RaceInv'
<1>1. ASSUME RaceInv, Next, Watch PROVE RaceInv'
  <2>1. TypeOK'
    BY <1>1, TypeStep DEF RaceInv
  <2>2. OverlapIsRemembered'
    BY <1>1, HistoryStep
  <2>3. PICK p \in Replica : RelWrite(p) \/ GraphWrite(p) \/ SearchWrite(p) \/ Quiet(p)
    BY <1>1, RaceSteps DEF RaceInv
  <2>4. TrustedAreSound' /\ OnlyContestedDrift'
    BY <1>1, <2>1, <2>3, QuietStep, RelWriteSound, RelWriteInSync, ProjectionSound, ProjectionInSync
  <2> QED BY <2>1, <2>2, <2>4 DEF RaceInv
<1>2. ASSUME RaceInv, UNCHANGED raceVars PROVE RaceInv'
  <2>1. TypeOK'
    BY <1>2 DEF RaceInv, raceVars, vars, stores, TypeOK
  <2>2. OverlapIsRemembered' /\ TrustedAreSound' /\ OnlyContestedDrift'
    BY <1>2 DEF RaceInv, raceVars, vars, stores, OverlapIsRemembered, Overlap, Clash, Carries,
        TrustedAreSound, Trusted, Sound, At, Cur, Projects, Live, OnlyContestedDrift, Fanning, InSync
  <2> QED BY <2>1, <2>2 DEF RaceInv
<1> QED BY <1>1, <1>2

\* With any number of replicas, the read models of an entity disagree with its row
\* only while its fan-out is under way, after a fault cut it there, or since
\* requests that write different things to it were in service at once
\* (worker.py:161-176, relational/store.py:88-126): and the next request that
\* carries it alone puts them right.
THEOREM OnlyContestedDriftAlways == RaceSpec => []OnlyContestedDrift
<1>1. RaceInv => OnlyContestedDrift
  BY DEF RaceInv
<1> QED BY <1>1, RaceInitially, RaceStep, PTL DEF RaceSpec
=============================================================================
