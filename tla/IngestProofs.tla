---------------------------- MODULE IngestProofs ----------------------------
(***************************************************************************)
(* Theorems about the ingest API and its fan-out, for every set of URNs,   *)
(* batches and hashes, every content of the batches and every number of    *)
(* faults; those about agreement of the stores are for one API process.    *)
(***************************************************************************)
EXTENDS Ingest, TLAPS
-----------------------------------------------------------------------------
(* What the stores make of one entity. *)

LEMMA CopyTypes ==
    ASSUME NEW e \in Entity, NEW found \in C!Copy, NEW row \in C!Copy
    PROVE  /\ C!Absent \in C!Copy
           /\ C!Upserted(e.hash) \in C!Copy
           /\ C!Tombstoned(row) \in C!Copy
           /\ Row(found, row, e) \in C!Copy
           /\ Node(row, e) \in C!Copy
           /\ Document(row, e) \in C!Copy
<1> USE DEF Entity, C!Copy, C!States
<1>1. C!Absent \in C!Copy
  BY DEF C!Absent
<1>2. C!Upserted(e.hash) \in C!Copy
  BY DEF C!Upserted
<1>3. C!Tombstoned(row) \in C!Copy
  BY DEF C!Tombstoned
<1>4. Row(found, row, e) \in C!Copy
  <2>1. CASE Skips(found, e)
    BY <2>1 DEF Row
  <2>2. CASE ~Skips(found, e) /\ e.op = "delete"
    BY <2>2, <1>3 DEF Row
  <2>3. CASE ~Skips(found, e) /\ e.op = "upsert"
    BY <2>3, <1>2 DEF Row
  <2> QED BY <2>1, <2>2, <2>3
<1>5. Node(row, e) \in C!Copy
  BY <1>2, <1>3 DEF Node
<1>6. Document(row, e) \in C!Copy
  BY <1>2, <1>3 DEF Document
<1> QED BY <1>1, <1>2, <1>3, <1>4, <1>5, <1>6

LEMMA CurType ==
    ASSUME TypeOK, NEW r \in Replica, w[r].pc \notin {"idle", "respond"}
    PROVE  /\ w[r].batch \in BatchId
           /\ w[r].pos \in DOMAIN Entities[w[r].batch]
           /\ Cur(r) \in Entity
           /\ <<w[r].batch, w[r].pos>> \in Slots
BY IngestAssumption DEF TypeOK, Work, Cur, Slots

\* Moving to the next entity keeps the replicas' work well typed.
LEMMA AdvanceType ==
    ASSUME TypeOK, NEW r \in Replica, NEW b \in BatchId, NEW i \in Nat, Advance(r, b, i)
    PROVE  /\ w' \in [Replica -> Work]
           /\ \A q \in Replica :
                /\ w'[q].pc # "idle" => w'[q].batch \in BatchId
                /\ w'[q].pc \notin {"idle", "respond"} => w'[q].pos \in DOMAIN Entities[w'[q].batch]
<1> USE IngestAssumption
<1>0. C!Absent \in C!Copy
  BY DEF C!Absent, C!Copy, C!States
<1>1. CASE w' = [w EXCEPT ![r] = [pc |-> "respond", batch |-> b, pos |-> i, found |-> C!Absent]]
  BY <1>1, <1>0 DEF TypeOK, Work, Pcs
<1>2. CASE \E j \in Remaining(b, i) :
             w' = [w EXCEPT ![r] = [pc    |-> FirstStore(Entities[b][j]),
                                    batch |-> b, pos |-> j, found |-> C!Absent]]
  <2>1. PICK j \in Remaining(b, i) :
             w' = [w EXCEPT ![r] = [pc    |-> FirstStore(Entities[b][j]),
                                    batch |-> b, pos |-> j, found |-> C!Absent]]
    BY <1>2
  <2>2. j \in DOMAIN Entities[b] /\ j \in Nat
    BY DEF Remaining
  <2>3. FirstStore(Entities[b][j]) \in {"select", "analytics"}
    BY DEF FirstStore
  <2> QED BY <2>1, <2>2, <2>3, <1>0 DEF TypeOK, Work, Pcs
<1> QED BY <1>1, <1>2 DEF Advance

\* The same for a step that changes only where a busy replica stands.
LEMMA GotoType ==
    ASSUME TypeOK, NEW r \in Replica, w[r].pc \notin {"idle", "respond"}, NEW pc \in Pcs, Goto(r, pc)
    PROVE  /\ w' \in [Replica -> Work]
           /\ \A q \in Replica :
                /\ w'[q].pc # "idle" => w'[q].batch \in BatchId
                /\ w'[q].pc \notin {"idle", "respond"} => w'[q].pos \in DOMAIN Entities[w'[q].batch]
BY DEF TypeOK, Work, Goto

\* And for a step that ends a request.
LEMMA IdleType ==
    ASSUME TypeOK, NEW r \in Replica, w' = [w EXCEPT ![r] = Idle]
    PROVE  /\ w' \in [Replica -> Work]
           /\ \A q \in Replica :
                /\ w'[q].pc # "idle" => w'[q].batch \in BatchId
                /\ w'[q].pc \notin {"idle", "respond"} => w'[q].pos \in DOMAIN Entities[w'[q].batch]
BY DEF TypeOK, Work, Idle, Pcs, C!Absent, C!Copy, C!States

LEMMA AbandonType ==
    ASSUME TypeOK, NEW r \in Replica, Abandon(r), cache' \in [Replica -> SUBSET BatchId],
           reply' \in [Replica -> Answer]
    PROVE  TypeOK'
<1>1. faults' \in Nat
  BY DEF Abandon, TypeOK
<1>2. torn' \subseteq Urn
  <2>1. CASE w[r].pc \in {"graph", "search"}
    BY <2>1, CurType DEF Abandon, TypeOK, Entity
  <2>2. CASE w[r].pc \notin {"graph", "search"}
    BY <2>2 DEF Abandon, TypeOK
  <2> QED BY <2>1, <2>2
<1>3. UNCHANGED stores /\ w' = [w EXCEPT ![r] = Idle]
  BY DEF Abandon
<1> QED BY <1>1, <1>2, <1>3, IdleType DEF TypeOK, stores

LEMMA SayType ==
    ASSUME TypeOK, NEW r \in Replica, NEW b \in BatchId, NEW st \in {202, 400, 500}, Say(r, b, st)
    PROVE  reply' \in [Replica -> Answer]
BY DEF TypeOK, Say, Answer

LEMMA TypeStep == ASSUME TypeOK, [Next]_vars PROVE TypeOK'
<1> USE IngestAssumption
<1>1. ASSUME NEW r \in Replica, RelSelect(r) PROVE TypeOK'
  <2>1. Cur(r) \in Entity
    BY <1>1, CurType DEF RelSelect, At
  <2>2. rel[Cur(r).urn] \in C!Copy
    BY <2>1 DEF TypeOK, Entity
  <2> QED BY <1>1, <2>2 DEF RelSelect, At, TypeOK, Work, Pcs, stores
<1>2. ASSUME NEW r \in Replica, RelWrite(r) PROVE TypeOK'
  <2>1. Cur(r) \in Entity /\ w[r].pc \notin {"idle", "respond"}
    BY <1>2, CurType DEF RelWrite, At
  <2>2. w[r].found \in C!Copy /\ rel[Cur(r).urn] \in C!Copy
    BY <2>1 DEF TypeOK, Work, Entity
  <2>3. rel' \in [Urn -> C!Copy]
    BY <1>2, <2>1, <2>2, CopyTypes DEF RelWrite, TypeOK
  <2>4. PICK pc \in Pcs : Goto(r, pc)
    BY <1>2 DEF RelWrite, Pcs
  <2> QED BY <1>2, <2>1, <2>3, <2>4, GotoType DEF RelWrite, TypeOK
<1>3. ASSUME NEW r \in Replica, GraphWrite(r) PROVE TypeOK'
  <2>1. Cur(r) \in Entity /\ w[r].pc \notin {"idle", "respond"}
    BY <1>3, CurType DEF GraphWrite, At
  <2>2. graph[Cur(r).urn] \in C!Copy
    BY <2>1 DEF TypeOK, Entity
  <2>3. graph' \in [Urn -> C!Copy]
    BY <1>3, <2>1, <2>2, CopyTypes DEF GraphWrite, TypeOK
  <2>4. PICK pc \in Pcs : Goto(r, pc)
    BY <1>3 DEF GraphWrite, Pcs
  <2> QED BY <1>3, <2>1, <2>3, <2>4, GotoType DEF GraphWrite, TypeOK
<1>4. ASSUME NEW r \in Replica, SearchWrite(r) PROVE TypeOK'
  <2>1. Cur(r) \in Entity /\ w[r].pc \notin {"idle", "respond"}
    BY <1>4, CurType DEF SearchWrite, At
  <2>2. search[Cur(r).urn] \in C!Copy
    BY <2>1 DEF TypeOK, Entity
  <2>3. search' \in [Urn -> C!Copy]
    BY <1>4, <2>1, <2>2, CopyTypes DEF SearchWrite, TypeOK
  <2>4. Goto(r, "analytics") /\ "analytics" \in Pcs
    BY <1>4 DEF SearchWrite, Pcs
  <2> QED BY <1>4, <2>1, <2>3, <2>4, GotoType DEF SearchWrite, TypeOK
<1>5. ASSUME NEW r \in Replica, AnalyticsWrite(r) PROVE TypeOK'
  <2>1. w[r].batch \in BatchId /\ w[r].pos \in Nat /\ <<w[r].batch, w[r].pos>> \in Slots
    BY <1>5, CurType DEF AnalyticsWrite, At, TypeOK, Work
  <2>2. events' \in [Slots -> Nat]
    BY <1>5, <2>1 DEF AnalyticsWrite, TypeOK
  <2> QED BY <1>5, <2>1, <2>2, AdvanceType DEF AnalyticsWrite, TypeOK
<1>6. ASSUME NEW r \in Replica, Respond(r) PROVE TypeOK'
  <2>1. w[r].batch \in BatchId
    BY <1>6 DEF Respond, At, TypeOK
  <2>2. reply' \in [Replica -> Answer]
    BY <1>6, <2>1, SayType DEF Respond
  <2>3. cache' \in [Replica -> SUBSET BatchId]
    BY <1>6, <2>1 DEF Respond, TypeOK
  <2> QED BY <1>6, <2>2, <2>3, IdleType DEF Respond, TypeOK, stores
<1>7. ASSUME NEW r \in Replica, Raise(r), w[r].pc # "idle" PROVE TypeOK'
  <2>1. w[r].batch \in BatchId
    BY <1>7 DEF TypeOK
  <2>2. reply' \in [Replica -> Answer] /\ cache' \in [Replica -> SUBSET BatchId]
    BY <1>7, <2>1, SayType DEF Raise, TypeOK
  <2> QED BY <1>7, <2>2, AbandonType DEF Raise
<1>8. ASSUME NEW r \in Replica, Restart(r) PROVE TypeOK'
  BY <1>8, AbandonType DEF Restart, TypeOK
<1>9. ASSUME NEW r \in Replica, NEW b \in BatchId, Refuse(r, b) \/ Replay(r, b) PROVE TypeOK'
  <2>1. reply' \in [Replica -> Answer]
    BY <1>9, SayType DEF Refuse, Replay
  <2> QED BY <1>9, <2>1 DEF Refuse, Replay, TypeOK, stores
<1>10. ASSUME NEW r \in Replica, NEW b \in BatchId, Admit(r, b) PROVE TypeOK'
  BY <1>10, AdvanceType DEF Admit, TypeOK, stores
<1>11. ASSUME NEW r \in Replica, NEW b \in BatchId, Expire(r, b) PROVE TypeOK'
  BY <1>11 DEF Expire, TypeOK, stores
<1>12. CASE UNCHANGED vars
  BY <1>12 DEF vars, stores, TypeOK
<1>13. ASSUME NEW r \in Replica, Poison(r) \/ StoreFails(r)
       PROVE  Raise(r) /\ w[r].pc # "idle"
  BY <1>13 DEF Poison, StoreFails, At
<1> QED
  BY <1>1, <1>2, <1>3, <1>4, <1>5, <1>6, <1>7, <1>8, <1>9, <1>10, <1>11, <1>12, <1>13
  DEF Next, Serve

\* Every variable keeps the type TypeOK gives it, and a busy replica always
\* stands at an entity of a batch.
THEOREM TypeCorrect == Spec => []TypeOK
<1>1. Init => TypeOK
  BY IngestAssumption DEF Init, TypeOK, C!Copy, C!States, C!Absent, Work, Idle, Pcs, Answer
<1>2. TypeOK /\ [Next]_vars => TypeOK'
  BY TypeStep
<1> QED BY <1>1, <1>2, PTL DEF Spec
-----------------------------------------------------------------------------
(* Who can move, and where to. *)

\* The steps that change what q is doing.
Moves(q) == \/ RelSelect(q) \/ RelWrite(q) \/ GraphWrite(q) \/ SearchWrite(q)
            \/ AnalyticsWrite(q) \/ Respond(q) \/ Poison(q) \/ StoreFails(q) \/ Restart(q)
            \/ \E b \in BatchId : Admit(q, b)

LEMMA WhoMoves ==
    ASSUME TypeOK, [Next]_vars, NEW q \in Replica
    PROVE  w'[q] = w[q] \/ Moves(q)
<1>1. ASSUME NEW r \in Replica, r # q, NEW x, w' = [w EXCEPT ![r] = x] PROVE w'[q] = w[q]
  BY <1>1 DEF TypeOK
<1>2. ASSUME NEW r \in Replica, r # q, Serve(r) PROVE w'[q] = w[q]
  BY <1>1, <1>2 DEF Serve, RelSelect, RelWrite, GraphWrite, SearchWrite, AnalyticsWrite, Respond,
              Poison, Raise, Abandon, Goto, Advance, TypeOK
<1>3. ASSUME NEW r \in Replica, r # q, StoreFails(r) \/ Restart(r) PROVE w'[q] = w[q]
  BY <1>1, <1>3 DEF StoreFails, Restart, Raise, Abandon
<1>4. ASSUME NEW r \in Replica, r # q, NEW b \in BatchId, Admit(r, b) PROVE w'[q] = w[q]
  BY <1>1, <1>4 DEF Admit, Advance
<1>5. ASSUME NEW r \in Replica, NEW b \in BatchId, Refuse(r, b) \/ Replay(r, b) \/ Expire(r, b)
      PROVE  w'[q] = w[q]
  BY <1>5 DEF Refuse, Replay, Expire
<1>6. CASE UNCHANGED vars
  BY <1>6 DEF vars
<1> QED BY <1>2, <1>3, <1>4, <1>5, <1>6 DEF Next, Serve, Moves
\* The four calls to the stores are the only steps that change them.
LEMMA StoreSteps ==
    ASSUME [Next]_vars
    PROVE  \/ \E r \in Replica : RelWrite(r) \/ GraphWrite(r) \/ SearchWrite(r) \/ AnalyticsWrite(r)
           \/ UNCHANGED stores
<1>1. ASSUME NEW r \in Replica, RelSelect(r) \/ Respond(r) PROVE UNCHANGED stores
  BY <1>1 DEF RelSelect, Respond
<1>2. ASSUME NEW r \in Replica, Poison(r) \/ StoreFails(r) \/ Restart(r) PROVE UNCHANGED stores
  BY <1>2 DEF Poison, StoreFails, Restart, Raise, Abandon
<1>3. ASSUME NEW r \in Replica, NEW b \in BatchId,
             Refuse(r, b) \/ Replay(r, b) \/ Admit(r, b) \/ Expire(r, b)
      PROVE  UNCHANGED stores
  BY <1>3 DEF Refuse, Replay, Admit, Expire
<1>4. CASE UNCHANGED vars
  BY <1>4 DEF vars
<1> QED BY <1>1, <1>2, <1>3, <1>4 DEF Next, Serve
-----------------------------------------------------------------------------
(* No read model is ahead of the system of record, for any number of       *)
(* replicas.                                                               *)

\* What a replica has seen of the row of its entity, or has made of it.
RowSeen ==
    \A r \in Replica :
        /\ At(r, "write") /\ w[r].found.state # "absent" => rel[Cur(r).urn].state # "absent"
        /\ w[r].pc \in {"graph", "search"} /\ Cur(r).op = "upsert" =>
               rel[Cur(r).urn].state # "absent"

HasRowInv == TypeOK /\ LiveHasRow /\ RowSeen

\* A row is never removed.
LEMMA RowsStay ==
    ASSUME TypeOK, [Next]_vars, NEW u \in Urn, rel[u].state # "absent"
    PROVE  rel'[u].state # "absent"
<1>1. ASSUME NEW r \in Replica, RelWrite(r) PROVE rel'[u].state # "absent"
  <2>1. Cur(r) \in Entity /\ Cur(r).urn \in Urn
    BY <1>1, CurType DEF RelWrite, At, Entity
  <2>2. CASE u = Cur(r).urn
    <3>1. rel'[u] = Row(w[r].found, rel[u], Cur(r))
      BY <1>1, <2>1, <2>2 DEF RelWrite, TypeOK
    <3>2. Row(w[r].found, rel[u], Cur(r)).state # "absent"
      BY DEF Row, C!Upserted, C!Tombstoned
    <3> QED BY <3>1, <3>2
  <2>3. CASE u # Cur(r).urn
    BY <1>1, <2>1, <2>3 DEF RelWrite, TypeOK
  <2> QED BY <2>2, <2>3
<1>2. ASSUME rel' = rel PROVE rel'[u].state # "absent"
  BY <1>2
<1>3. (\E r \in Replica : RelWrite(r)) \/ rel' = rel
  BY StoreSteps DEF stores, GraphWrite, SearchWrite, AnalyticsWrite
<1> QED BY <1>1, <1>2, <1>3

LEMMA RowSeenStep == HasRowInv /\ [Next]_vars => RowSeen'
<1> SUFFICES ASSUME HasRowInv, [Next]_vars, NEW q \in Replica
             PROVE  /\ At(q, "write")' /\ w'[q].found.state # "absent" =>
                           rel'[Cur(q)'.urn].state # "absent"
                    /\ w'[q].pc \in {"graph", "search"} /\ Cur(q)'.op = "upsert" =>
                           rel'[Cur(q)'.urn].state # "absent"
  BY DEF RowSeen
<1> USE DEF HasRowInv
<1>1. CASE w'[q] = w[q]
  <2>1. Cur(q)' = Cur(q) /\ (At(q, "write")' <=> At(q, "write"))
    BY <1>1 DEF Cur, At
  <2>2. At(q, "write") \/ w[q].pc \in {"graph", "search"} => Cur(q).urn \in Urn
    BY CurType DEF At, Entity
  <2> QED BY <1>1, <2>1, <2>2, RowsStay DEF RowSeen, At
<1>2. ASSUME RelSelect(q)
      PROVE  At(q, "write")' /\ w'[q].found.state # "absent" => rel'[Cur(q)'.urn].state # "absent"
  <2>1. w'[q] = [w[q] EXCEPT !.pc = "write", !.found = rel[Cur(q).urn]]
    BY <1>2 DEF RelSelect, TypeOK
  <2>2. w'[q].found = rel[Cur(q).urn] /\ Cur(q)' = Cur(q) /\ rel' = rel
    BY <1>2, <2>1 DEF RelSelect, stores, Cur, TypeOK, Work
  <2> QED BY <2>2
<1>3. ASSUME RelSelect(q) PROVE w'[q].pc = "write"
  BY <1>3 DEF RelSelect, TypeOK, Work
<1>4. ASSUME RelWrite(q), Cur(q)'.op = "upsert", w'[q].pc \in {"graph", "search"}
      PROVE  rel'[Cur(q)'.urn].state # "absent"
  <2>1. Cur(q)' = Cur(q) /\ Cur(q).urn \in Urn
    BY <1>4, CurType DEF RelWrite, Goto, At, Cur, TypeOK, Work, Entity
  <2>2. w'[q].pc = IF Changed(w[q].found, Cur(q)) THEN "graph" ELSE "analytics"
    BY <1>4 DEF RelWrite, Goto, TypeOK, Work
  <2>3. ~Skips(w[q].found, Cur(q))
    BY <1>4, <2>1, <2>2 DEF Changed
  <2>4. rel'[Cur(q).urn] = Row(w[q].found, rel[Cur(q).urn], Cur(q))
    BY <1>4, <2>1 DEF RelWrite, TypeOK
  <2>5. w[q].found.state # "absent" => rel[Cur(q).urn].state # "absent"
    BY <1>4 DEF RowSeen, RelWrite
  <2> QED BY <1>4, <2>1, <2>3, <2>4, <2>5 DEF Row, C!Upserted
<1>5. ASSUME RelWrite(q) PROVE w'[q].pc \in {"graph", "analytics"}
  BY <1>5 DEF RelWrite, Goto, TypeOK, Work
<1>6. ASSUME GraphWrite(q), Cur(q)'.op = "upsert" PROVE rel'[Cur(q)'.urn].state # "absent"
  <2>1. Cur(q)' = Cur(q) /\ rel' = rel
    BY <1>6 DEF GraphWrite, Goto, Cur, TypeOK, Work
  <2> QED BY <1>6, <2>1 DEF RowSeen, GraphWrite, At
<1>7. ASSUME GraphWrite(q) PROVE w'[q].pc \in {"search", "analytics"}
  BY <1>7 DEF GraphWrite, Goto, TypeOK, Work
<1>8. ASSUME SearchWrite(q) PROVE w'[q].pc = "analytics"
  BY <1>8 DEF SearchWrite, Goto, TypeOK, Work
<1>9. ASSUME NEW b \in BatchId, NEW i \in Nat, Advance(q, b, i)
      PROVE  w'[q].pc \in {"respond", "analytics", "select"}
  BY <1>9 DEF Advance, FirstStore, TypeOK
<1>10. ASSUME AnalyticsWrite(q) PROVE w'[q].pc \in {"respond", "analytics", "select"}
  <2>1. w[q].batch \in BatchId /\ w[q].pos \in Nat
    BY <1>10, CurType DEF AnalyticsWrite, At, TypeOK, Work
  <2> QED BY <1>9, <1>10, <2>1 DEF AnalyticsWrite
<1>11. ASSUME Respond(q) \/ Poison(q) \/ StoreFails(q) \/ Restart(q) PROVE w'[q].pc = "idle"
  BY <1>11 DEF Respond, Poison, StoreFails, Restart, Raise, Abandon, Idle, TypeOK
<1>12. ASSUME NEW b \in BatchId, Admit(q, b) PROVE w'[q].pc \in {"respond", "analytics", "select"}
  BY <1>9, <1>12 DEF Admit
<1>13. w'[q] = w[q] \/ Moves(q)
  BY WhoMoves
<1> QED BY <1>1, <1>2, <1>3, <1>4, <1>5, <1>6, <1>7, <1>8, <1>10, <1>11, <1>12, <1>13 DEF At, Moves

LEMMA LiveHasRowStep == HasRowInv /\ [Next]_vars => LiveHasRow'
<1> SUFFICES ASSUME HasRowInv, [Next]_vars, NEW u \in Urn,
                    Live(graph', u) \/ Live(search', u)
             PROVE  rel'[u].state # "absent"
  BY DEF LiveHasRow, Live
<1> USE DEF HasRowInv
<1>1. CASE Live(graph, u) \/ Live(search, u)
  BY <1>1, RowsStay DEF LiveHasRow
<1>2. ASSUME NEW r \in Replica, GraphWrite(r), ~Live(graph, u), Live(graph', u)
      PROVE  rel'[u].state # "absent"
  <2>1. Cur(r).urn \in Urn /\ w[r].pc = "graph" /\ rel' = rel
    BY <1>2, CurType DEF GraphWrite, At, Entity
  <2>2. graph' = [graph EXCEPT ![Cur(r).urn] = Node(graph[Cur(r).urn], Cur(r))]
    BY <1>2 DEF GraphWrite
  <2>3. u = Cur(r).urn
    BY <1>2, <2>1, <2>2 DEF TypeOK, Live
  <2>4. Live(graph', u) <=> Node(graph[u], Cur(r)).state = "live"
    BY <2>1, <2>2, <2>3 DEF TypeOK, Live
  <2>5. Cur(r).op = "upsert"
    BY <1>2, <2>4 DEF Node, C!Tombstoned, Live, TypeOK, C!Copy
  <2> QED BY <2>1, <2>3, <2>5 DEF RowSeen
<1>3. ASSUME NEW r \in Replica, SearchWrite(r), ~Live(search, u), Live(search', u)
      PROVE  rel'[u].state # "absent"
  <2>1. Cur(r).urn \in Urn /\ w[r].pc = "search" /\ rel' = rel
    BY <1>3, CurType DEF SearchWrite, At, Entity
  <2>2. search' = [search EXCEPT ![Cur(r).urn] = Document(search[Cur(r).urn], Cur(r))]
    BY <1>3 DEF SearchWrite
  <2>3. u = Cur(r).urn
    BY <1>3, <2>1, <2>2 DEF TypeOK, Live
  <2>4. Live(search', u) <=> Document(search[u], Cur(r)).state = "live"
    BY <2>1, <2>2, <2>3 DEF TypeOK, Live
  <2>5. Cur(r).op = "upsert"
    BY <1>3, <2>4 DEF Document, C!Tombstoned, Live, TypeOK, C!Copy
  <2> QED BY <2>1, <2>3, <2>5 DEF RowSeen
<1>4. \/ \E r \in Replica : GraphWrite(r) /\ search' = search
      \/ \E r \in Replica : SearchWrite(r) /\ graph' = graph
      \/ graph' = graph /\ search' = search
  BY StoreSteps DEF stores, RelWrite, GraphWrite, SearchWrite, AnalyticsWrite
<1> QED BY <1>1, <1>2, <1>3, <1>4

\* A live node or document has a relational row behind it, for any number of
\* replicas, any interleaving of their requests and any faults: the fan-out
\* calls the relational store first and rows are never removed.
THEOREM LiveHasRowAlways == Spec => []LiveHasRow
<1>1. Init => LiveHasRow /\ RowSeen
  BY DEF Init, LiveHasRow, Live, RowSeen, At, Idle, C!Absent
<1>2. HasRowInv /\ [Next]_vars => LiveHasRow' /\ RowSeen'
  BY LiveHasRowStep, RowSeenStep
<1> QED BY <1>1, <1>2, TypeCorrect, PTL DEF Spec, HasRowInv
-----------------------------------------------------------------------------
(* An answer is given for what was done, and for nothing less, for any     *)
(* number of replicas.                                                     *)

\* The accepted entities of the batch in service that the loop has left behind
\* are in the event log.
Passed ==
    \A r \in Replica : ~At(r, "idle") =>
        \A i \in Remaining(w[r].batch, 0) :
            At(r, "respond") \/ i < w[r].pos => events[<<w[r].batch, i>>] >= 1

ProcessedInv == TypeOK /\ Passed /\ AnsweredIsProcessed

\* The event log only grows.
LEMMA EventsGrow ==
    ASSUME TypeOK, [Next]_vars, NEW s \in Slots
    PROVE  events'[s] \in Nat /\ events'[s] >= events[s]
<1>1. ASSUME NEW r \in Replica, AnalyticsWrite(r) PROVE events'[s] >= events[s]
  <2>1. <<w[r].batch, w[r].pos>> \in Slots
    BY <1>1, CurType DEF AnalyticsWrite, At
  <2> QED BY <1>1, <2>1 DEF AnalyticsWrite, TypeOK
<1>2. (\E r \in Replica : AnalyticsWrite(r)) \/ events' = events
  BY StoreSteps DEF stores, RelWrite, GraphWrite, SearchWrite
<1>3. events[s] \in Nat /\ TypeOK'
  BY TypeStep DEF TypeOK
<1> QED BY <1>1, <1>2, <1>3 DEF TypeOK

LEMMA RemainingSlots ==
    ASSUME NEW b \in BatchId, NEW i \in Nat, NEW j \in Remaining(b, i)
    PROVE  j \in Nat /\ j > i /\ <<b, j>> \in Slots /\ j \in Remaining(b, 0)
BY IngestAssumption DEF Remaining, Slots

LEMMA PassedStep == ProcessedInv /\ [Next]_vars => Passed'
<1> SUFFICES ASSUME ProcessedInv, [Next]_vars, NEW q \in Replica, ~At(q, "idle")',
                    NEW i \in Remaining(w'[q].batch, 0),
                    w'[q].pc = "respond" \/ i < w'[q].pos
             PROVE  events'[<<w'[q].batch, i>>] >= 1
  BY DEF Passed, At
<1> USE DEF ProcessedInv
<1>0. w'[q].batch \in BatchId /\ <<w'[q].batch, i>> \in Slots /\ i \in Nat
  <2>1. w'[q].batch \in BatchId
    BY TypeStep DEF TypeOK, At
  <2> QED BY <2>1, RemainingSlots
<1>1. ASSUME events[<<w'[q].batch, i>>] >= 1 PROVE events'[<<w'[q].batch, i>>] >= 1
  BY <1>0, <1>1, EventsGrow DEF TypeOK
<1>2. CASE w'[q] = w[q]
  BY <1>1, <1>2 DEF Passed, At
<1>3. CASE RelSelect(q) \/ RelWrite(q) \/ GraphWrite(q) \/ SearchWrite(q)
  <2>1. w'[q].batch = w[q].batch /\ w'[q].pos = w[q].pos /\ w'[q].pc # "respond" /\ ~At(q, "idle")
    BY <1>3 DEF RelSelect, RelWrite, GraphWrite, SearchWrite, Goto, At, TypeOK, Work
  <2> QED BY <1>1, <2>1 DEF Passed
<1>4. CASE AnalyticsWrite(q)
  <2> DEFINE b == w[q].batch
             p == w[q].pos
  <2>1. b \in BatchId /\ p \in Nat /\ <<b, p>> \in Slots /\ At(q, "analytics")
    BY <1>4, CurType DEF AnalyticsWrite, At, TypeOK, Work
  <2>2. w'[q].batch = b /\ (w'[q].pc = "respond" => Remaining(b, p) = {})
        /\ (w'[q].pc # "respond" => \A k \in Remaining(b, p) : w'[q].pos <= k)
    BY <1>4 DEF AnalyticsWrite, Advance, FirstStore, TypeOK
  <2>3. i <= p
    <3>1. i > p => i \in Remaining(b, p)
      BY <2>2 DEF Remaining
    <3>2. w'[q].pos \in Nat
      BY TypeStep DEF TypeOK, Work
    <3> QED BY <1>0, <2>1, <2>2, <3>1, <3>2
  <2>4. CASE i = p
    BY <1>4, <2>1, <2>2, <2>4 DEF AnalyticsWrite, TypeOK
  <2>5. CASE i < p
    BY <1>1, <2>1, <2>2, <2>5 DEF Passed, At
  <2> QED BY <1>0, <2>1, <2>3, <2>4, <2>5
<1>5. CASE Respond(q) \/ Poison(q) \/ StoreFails(q) \/ Restart(q)
  BY <1>5 DEF Respond, Poison, StoreFails, Restart, Raise, Abandon, Idle, TypeOK, At
<1>6. ASSUME NEW b \in BatchId, Admit(q, b) PROVE FALSE
  <2>1. w'[q].batch = b /\ (w'[q].pc = "respond" => Remaining(b, 0) = {})
        /\ (w'[q].pc # "respond" => \A k \in Remaining(b, 0) : w'[q].pos <= k)
    BY <1>6 DEF Admit, Advance, FirstStore, TypeOK
  <2>2. w'[q].pos \in Nat
    BY TypeStep DEF TypeOK, Work
  <2> QED BY <1>0, <2>1, <2>2
<1> QED BY <1>2, <1>3, <1>4, <1>5, <1>6, WhoMoves DEF Moves

LEMMA AnsweredStep == ProcessedInv /\ [Next]_vars => AnsweredIsProcessed'
<1> DEFINE Vouched(r, b) == b \in cache[r] \/ reply[r] = [batch |-> b, status |-> 202]
<1> SUFFICES ASSUME ProcessedInv, [Next]_vars, NEW q \in Replica, NEW b \in BatchId,
                    Vouched(q, b)', NEW i \in Remaining(b, 0)
             PROVE  events'[<<b, i>>] >= 1
  BY DEF AnsweredIsProcessed
<1> USE DEF ProcessedInv
<1>0. <<b, i>> \in Slots
  BY RemainingSlots
<1>1. ASSUME events[<<b, i>>] >= 1 PROVE events'[<<b, i>>] >= 1
  BY <1>0, <1>1, EventsGrow DEF TypeOK
<1>2. CASE Vouched(q, b)
  BY <1>1, <1>2 DEF AnsweredIsProcessed
<1>3. ASSUME NEW r \in Replica, Respond(r), ~Vouched(q, b)
      PROVE  r = q /\ w[q].batch = b
  BY <1>3 DEF Respond, Say, TypeOK
<1>4. ASSUME NEW r \in Replica, Respond(r), ~Vouched(q, b)
      PROVE  events[<<b, i>>] >= 1
  BY <1>3, <1>4 DEF Passed, Respond, At
<1>5. ASSUME NEW r \in Replica, NEW c \in BatchId, Replay(r, c) PROVE Vouched(q, b)
  BY <1>5 DEF Replay, Say, TypeOK
<1>6. ASSUME NEW r \in Replica, NEW c \in BatchId, Refuse(r, c) PROVE Vouched(q, b)
  BY <1>6 DEF Refuse, Say, TypeOK
<1>7. ASSUME NEW r \in Replica, Raise(r) PROVE Vouched(q, b)
  BY <1>7 DEF Raise, Say, TypeOK
<1>8. ASSUME NEW r \in Replica, Restart(r) PROVE Vouched(q, b)
  BY <1>8 DEF Restart, TypeOK
<1>9. ASSUME NEW r \in Replica, NEW c \in BatchId, Expire(r, c) PROVE Vouched(q, b)
  BY <1>9 DEF Expire, TypeOK
<1>10. ASSUME cache' = cache, reply' = reply PROVE Vouched(q, b)
  BY <1>10
<1>11. \/ cache' = cache /\ reply' = reply
       \/ \E r \in Replica : Respond(r) \/ Raise(r) \/ Restart(r)
       \/ \E r \in Replica, c \in BatchId : Refuse(r, c) \/ Replay(r, c) \/ Expire(r, c)
  BY DEF Next, Serve, vars, RelSelect, RelWrite, GraphWrite, SearchWrite, AnalyticsWrite,
         Poison, StoreFails, Admit
<1> QED BY <1>1, <1>2, <1>4, <1>5, <1>6, <1>7, <1>8, <1>9, <1>10, <1>11

\* Nothing is recorded or answered 202 for a batch the fan-out did not complete,
\* for any number of replicas and any faults: the idempotency record is written
\* last (service.py:131-150).
THEOREM AnsweredIsProcessedAlways == Spec => []AnsweredIsProcessed
<1>1. Init => Passed /\ AnsweredIsProcessed
  BY DEF Init, Passed, AnsweredIsProcessed, At, Idle
<1>2. ProcessedInv /\ [Next]_vars => Passed' /\ AnsweredIsProcessed'
  BY PassedStep, AnsweredStep
<1> QED BY <1>1, <1>2, TypeCorrect, PTL DEF Spec, ProcessedInv
-----------------------------------------------------------------------------
(* One API process, as scripts/run_ingest_local.py starts it: the handler   *)
(* runs one batch at a time, so nothing moves under a request.             *)

OneReplica == \A r1, r2 \in Replica : r1 = r2

\* What the replica knows and has done for the entity it is fanning out.
FanoutInv ==
    \A r \in Replica :
        LET e == Cur(r)
            u == Cur(r).urn
        IN  /\ w[r].pc \in {"select", "write", "graph", "search"} => KindOf[u] # "scrape_run"
            /\ At(r, "write") => w[r].found = rel[u]
            /\ w[r].pc \in {"graph", "search"} =>
                   IF e.op = "upsert" THEN rel[u] = C!Upserted(e.hash) ELSE ~Live(rel, u)
            /\ At(r, "search") => Projects(graph, u)
            /\ At(r, "search") => KindOf[u] \in SEARCH_ENTITY_TYPES

\* Entities that have no place in a store are never live there.
Unrouted ==
    \A u \in Urn :
        /\ KindOf[u] \notin SEARCHABLE_ENTITY_TYPES => ~Live(search, u)
        /\ KindOf[u] = "scrape_run" => ~Live(rel, u) /\ ~Live(graph, u)

AgreementInv == TypeOK /\ FanoutInv /\ Unrouted /\ Agreement /\ TombstonePropagated

\* Going on to the next entity moves nothing in the stores.
LEMMA AdvanceAgrees ==
    ASSUME AgreementInv, OneReplica, NEW r \in Replica, NEW b \in BatchId, NEW i \in Nat,
           Advance(r, b, i), UNCHANGED <<rel, graph, search, torn>>,
           w[r].pc \notin {"graph", "search"}
    PROVE  FanoutInv' /\ Unrouted' /\ Agreement' /\ TombstonePropagated'
<1> USE DEF AgreementInv
<1>1. w'[r].pc \in {"select", "analytics", "respond"}
  BY DEF Advance, FirstStore, TypeOK
<1>2. ASSUME w'[r].pc # "respond"
      PROVE  /\ Cur(r)' \in Entity
             /\ w'[r].pc = "select" => KindOf[Cur(r)'.urn] # "scrape_run"
             /\ w'[r].pc = "analytics" => KindOf[Cur(r)'.urn] = "scrape_run"
  <2>1. PICK j \in Remaining(b, i) :
             w' = [w EXCEPT ![r] = [pc    |-> FirstStore(Entities[b][j]),
                                    batch |-> b, pos |-> j, found |-> C!Absent]]
    BY <1>2 DEF Advance, TypeOK
  <2>2. Entities[b][j] \in Entity
    BY IngestAssumption DEF Remaining
  <2>3. KindOf[Entities[b][j].urn] \in Kind
    BY <2>2, IngestAssumption DEF Entity
  <2>4. Cur(r)' = Entities[b][j] /\ w'[r].pc = FirstStore(Entities[b][j])
    BY <2>1 DEF Cur, TypeOK
  <2> QED BY <2>2, <2>3, <2>4 DEF FirstStore, Kind, RELATIONAL_ENTITY_TYPES
<1>3. FanoutInv'
  <2> SUFFICES w'[r].pc \in {"select", "write", "graph", "search"} => KindOf[Cur(r)'.urn] # "scrape_run"
    BY <1>1 DEF FanoutInv, OneReplica, At
  <2> QED BY <1>1, <1>2
<1>4. Unrouted'
  BY DEF Unrouted, Live
<1>5. Agreement'
  <2>1. \A u \in Urn : ~Fanning(u)
    BY DEF Fanning, OneReplica
  <2> QED BY <2>1 DEF Agreement, InSync, Projects, Live
<1>6. TombstonePropagated'
  <2> SUFFICES ASSUME w'[r].pc = "analytics"
               PROVE  \A store \in {rel, graph, search} : ~Live(store, Cur(r)'.urn)
    BY DEF TombstonePropagated, OneReplica, At, Live
  <2>1. Cur(r)'.urn \in Urn /\ KindOf[Cur(r)'.urn] = "scrape_run"
    BY <1>2 DEF Entity
  <2> QED BY <2>1 DEF Unrouted, Live, SEARCHABLE_ENTITY_TYPES
<1> QED BY <1>3, <1>4, <1>5, <1>6

\* Ending a request, whether answered or not: what was cut short is torn.
LEMMA IdleAgrees ==
    ASSUME AgreementInv, OneReplica, NEW r \in Replica, UNCHANGED <<rel, graph, search>>,
           w' = [w EXCEPT ![r] = Idle],
           torn' = IF w[r].pc \in {"graph", "search"} THEN torn \cup {Cur(r).urn} ELSE torn
    PROVE  FanoutInv' /\ Unrouted' /\ Agreement' /\ TombstonePropagated'
<1> USE DEF AgreementInv
<1>1. w'[r].pc = "idle"
  BY DEF Idle, TypeOK
<1>2. FanoutInv' /\ TombstonePropagated'
  BY <1>1 DEF FanoutInv, TombstonePropagated, OneReplica, At
<1>3. Unrouted'
  BY DEF Unrouted, Live
<1>4. Agreement'
  <2>1. \A u \in Urn \ torn' : ~Fanning(u)
    BY DEF Fanning, OneReplica
  <2> QED BY <2>1 DEF Agreement, InSync, Projects, Live
<1> QED BY <1>2, <1>3, <1>4

LEMMA SelectAgrees ==
    ASSUME AgreementInv, OneReplica, NEW r \in Replica, RelSelect(r)
    PROVE  FanoutInv' /\ Unrouted' /\ Agreement' /\ TombstonePropagated'
<1> USE DEF AgreementInv
<1>1. /\ w'[r].pc = "write"
      /\ w'[r].found = rel[Cur(r).urn]
      /\ Cur(r)' = Cur(r)
      /\ UNCHANGED <<rel, graph, search, torn>>
      /\ At(r, "select")
  BY DEF RelSelect, stores, Cur, TypeOK, Work
<1>2. FanoutInv' /\ TombstonePropagated'
  BY <1>1 DEF FanoutInv, TombstonePropagated, OneReplica, At
<1>3. Unrouted'
  BY <1>1 DEF Unrouted, Live
<1>4. Agreement'
  <2>1. \A u \in Urn : ~Fanning(u)
    BY <1>1 DEF Fanning, OneReplica, At
  <2> QED BY <1>1, <2>1 DEF Agreement, InSync, Projects, Live
<1> QED BY <1>2, <1>3, <1>4

\* The relational store leaves a row the projections still have to follow, or
\* leaves the row alone.
LEMMA RowOutcome ==
    ASSUME NEW row \in C!Copy, NEW e \in Entity
    PROVE  /\ ~Changed(row, e) => Row(row, row, e) = row /\ e.op = "upsert"
           /\ Changed(row, e) =>
                IF e.op = "upsert" THEN Row(row, row, e) = C!Upserted(e.hash)
                ELSE Row(row, row, e).state # "live"
<1>1. CASE e.op = "delete"
  BY <1>1 DEF Changed, Skips, Row, C!Tombstoned, C!Copy, C!States
<1>2. CASE e.op = "upsert" /\ Skips(row, e)
  BY <1>2 DEF Changed, Row
<1>3. CASE e.op = "upsert" /\ ~Skips(row, e) /\ row.state = "absent"
  BY <1>3 DEF Changed, Row
<1>4. CASE e.op = "upsert" /\ ~Skips(row, e) /\ row.state # "absent"
  BY <1>4 DEF Changed, Row, C!Upserted, C!Copy, C!States
<1> QED BY <1>1, <1>2, <1>3, <1>4 DEF Entity

LEMMA RelWriteAgrees ==
    ASSUME AgreementInv, OneReplica, NEW r \in Replica, RelWrite(r)
    PROVE  FanoutInv' /\ Unrouted' /\ Agreement' /\ TombstonePropagated'
<1> USE DEF AgreementInv
<1> DEFINE e == Cur(r)
           u == Cur(r).urn
<1>1. e \in Entity /\ u \in Urn /\ At(r, "write") /\ KindOf[u] # "scrape_run"
  BY CurType DEF RelWrite, At, Entity, FanoutInv
<1>2. rel[u] \in C!Copy /\ w[r].found = rel[u]
  BY <1>1 DEF TypeOK, FanoutInv
<1>3. rel' = [rel EXCEPT ![u] = Row(rel[u], rel[u], e)]
  BY <1>2 DEF RelWrite
<1>4. UNCHANGED <<graph, search, torn>> /\ Cur(r)' = e
  BY DEF RelWrite, Goto, Cur, TypeOK, Work
<1>5. w'[r].pc = IF Changed(rel[u], e) THEN "graph" ELSE "analytics"
  BY <1>2 DEF RelWrite, Goto, TypeOK, Work
<1>6. rel'[u] = Row(rel[u], rel[u], e) /\ \A v \in Urn \ {u} : rel'[v] = rel[v]
  BY <1>1, <1>3 DEF TypeOK
<1>7. FanoutInv'
  <2>1. w'[r].pc = "graph" => IF e.op = "upsert" THEN rel'[u] = C!Upserted(e.hash)
                              ELSE rel'[u].state # "live"
    BY <1>1, <1>2, <1>5, <1>6, RowOutcome
  <2> QED BY <1>1, <1>4, <1>5, <2>1 DEF FanoutInv, OneReplica, At, Live
<1>8. Unrouted'
  BY <1>1, <1>4, <1>6 DEF Unrouted, Live
<1>9. Agreement'
  <2>1. ASSUME NEW v \in Urn, ~Fanning(v)', v \notin torn PROVE rel'[v] = rel[v]
    <3>1. CASE v = u
      BY <1>1, <1>2, <1>4, <1>5, <1>6, <2>1, <3>1, RowOutcome DEF Fanning
    <3> QED BY <1>6, <2>1, <3>1
  <2>2. \A v \in Urn : ~Fanning(v)
    BY <1>1 DEF Fanning, OneReplica, At
  <2> QED BY <1>4, <2>1, <2>2 DEF Agreement, InSync, Projects, Live
<1>10. TombstonePropagated'
  BY <1>1, <1>2, <1>4, <1>5, RowOutcome DEF TombstonePropagated, OneReplica, At
<1> QED BY <1>7, <1>8, <1>9, <1>10

LEMMA GraphWriteAgrees ==
    ASSUME AgreementInv, OneReplica, NEW r \in Replica, GraphWrite(r)
    PROVE  FanoutInv' /\ Unrouted' /\ Agreement' /\ TombstonePropagated'
<1> USE DEF AgreementInv
<1> DEFINE e == Cur(r)
           u == Cur(r).urn
<1>1. e \in Entity /\ u \in Urn /\ At(r, "graph") /\ KindOf[u] # "scrape_run"
  BY CurType DEF GraphWrite, At, Entity, FanoutInv
<1>2. graph' = [graph EXCEPT ![u] = Node(graph[u], e)] /\ graph[u] \in C!Copy
  BY <1>1 DEF GraphWrite, TypeOK
<1>3. UNCHANGED <<rel, search>> /\ Cur(r)' = e
  BY DEF GraphWrite, Goto, Cur, TypeOK, Work
<1>4. w'[r].pc = IF Indexed(u) THEN "search" ELSE "analytics"
  BY DEF GraphWrite, Goto, TypeOK, Work
<1>5. graph'[u] = Node(graph[u], e) /\ \A v \in Urn \ {u} : graph'[v] = graph[v]
  BY <1>1, <1>2 DEF TypeOK
<1>6. IF e.op = "upsert" THEN rel[u] = C!Upserted(e.hash) /\ graph'[u] = C!Upserted(e.hash)
      ELSE ~Live(rel, u) /\ graph'[u].state # "live"
  <2>1. e.op # "upsert" => Node(graph[u], e).state # "live"
    BY <1>2 DEF Node, C!Tombstoned, C!Copy
  <2> QED BY <1>1, <1>5, <2>1 DEF FanoutInv, At, Node
<1>7. Projects(graph', u)
  BY <1>6 DEF Projects, Live, C!Upserted
<1>8. FanoutInv'
  BY <1>1, <1>3, <1>4, <1>6, <1>7 DEF FanoutInv, OneReplica, At, Projects, Live, Indexed
<1>9. Unrouted'
  BY <1>1, <1>3, <1>5 DEF Unrouted, Live
<1>10. Agreement'
  <2> SUFFICES ASSUME NEW v \in Urn, ~Fanning(v)', v \notin torn' PROVE InSync(v)'
    BY DEF Agreement
  <2>1. CASE v = u
    <3>1. ~Indexed(u)
      BY <1>3, <1>4, <2>1 DEF Fanning
    <3>2. KindOf[u] \notin SEARCHABLE_ENTITY_TYPES
      BY <1>1, <3>1, IngestAssumption DEF Indexed, SEARCH_ENTITY_TYPES, SEARCHABLE_ENTITY_TYPES, Kind
    <3> QED BY <1>3, <1>7, <2>1, <3>2 DEF InSync, Projects, Live
  <2>2. CASE v # u
    <3>1. v \notin torn /\ ~Fanning(v)
      BY <1>1, <2>2 DEF GraphWrite, Fanning, OneReplica
    <3> QED BY <1>3, <1>5, <2>2, <3>1 DEF Agreement, InSync, Projects, Live
  <2> QED BY <2>1, <2>2
<1>11. TombstonePropagated'
  <2> SUFFICES ASSUME w'[r].pc = "analytics", e.op = "delete"
               PROVE  \A store \in {rel, graph', search} : ~Live(store, u)
    BY <1>3 DEF TombstonePropagated, OneReplica, At, Live
  <2>1. KindOf[u] \notin SEARCHABLE_ENTITY_TYPES
    BY <1>1, <1>4, IngestAssumption DEF Indexed, SEARCH_ENTITY_TYPES, SEARCHABLE_ENTITY_TYPES, Kind
  <2> QED BY <1>1, <1>6, <2>1 DEF Unrouted, Live
<1> QED BY <1>8, <1>9, <1>10, <1>11

LEMMA SearchWriteAgrees ==
    ASSUME AgreementInv, OneReplica, NEW r \in Replica, SearchWrite(r)
    PROVE  FanoutInv' /\ Unrouted' /\ Agreement' /\ TombstonePropagated'
<1> USE DEF AgreementInv
<1> DEFINE e == Cur(r)
           u == Cur(r).urn
<1>1. e \in Entity /\ u \in Urn /\ At(r, "search") /\ Projects(graph, u)
  BY CurType DEF SearchWrite, At, Entity, FanoutInv
<1>2. search' = [search EXCEPT ![u] = Document(search[u], e)] /\ search[u] \in C!Copy
  BY <1>1 DEF SearchWrite, TypeOK
<1>3. UNCHANGED <<rel, graph>> /\ Cur(r)' = e /\ w'[r].pc = "analytics"
  BY DEF SearchWrite, Goto, Cur, TypeOK, Work
<1>4. search'[u] = Document(search[u], e) /\ \A v \in Urn \ {u} : search'[v] = search[v]
  BY <1>1, <1>2 DEF TypeOK
<1>5. IF e.op = "upsert" THEN rel[u] = C!Upserted(e.hash) ELSE ~Live(rel, u)
  BY <1>1 DEF FanoutInv, At
<1>6. KindOf[u] \in SEARCHABLE_ENTITY_TYPES => Projects(search', u)
  BY <1>2, <1>4, <1>5 DEF Document, Projects, Live, C!Upserted, C!Tombstoned, C!Copy
<1>7. FanoutInv'
  BY <1>3 DEF FanoutInv, OneReplica, At
<1>8. Unrouted'
  BY <1>3, <1>4 DEF Unrouted, Live, Document
<1>9. Agreement'
  <2> SUFFICES ASSUME NEW v \in Urn, v \notin torn' PROVE InSync(v)'
    BY DEF Agreement
  <2>1. CASE v = u
    BY <1>1, <1>3, <1>6, <2>1 DEF InSync, Projects, Live
  <2>2. CASE v # u
    <3>1. v \notin torn /\ ~Fanning(v)
      BY <1>1, <2>2 DEF SearchWrite, Fanning, OneReplica
    <3> QED BY <1>3, <1>4, <2>2, <3>1 DEF Agreement, InSync, Projects, Live
  <2> QED BY <2>1, <2>2
<1>10. TombstonePropagated'
  <2> SUFFICES ASSUME e.op = "delete"
               PROVE  \A store \in {rel, graph, search'} : ~Live(store, u)
    BY <1>3 DEF TombstonePropagated, OneReplica, At, Live
  <2>1. ~Live(rel, u) /\ ~Live(graph, u)
    BY <1>1, <1>5 DEF Projects
  <2>2. ~Live(search', u)
    BY <1>1, <1>2, <1>4 DEF Document, Unrouted, Live, C!Tombstoned, C!Copy
  <2> QED BY <2>1, <2>2
<1> QED BY <1>7, <1>8, <1>9, <1>10

LEMMA AgreementStep ==
    ASSUME AgreementInv, OneReplica, [Next]_vars
    PROVE  FanoutInv' /\ Unrouted' /\ Agreement' /\ TombstonePropagated'
<1> USE DEF AgreementInv
<1>1. ASSUME NEW r \in Replica, AnalyticsWrite(r)
      PROVE  FanoutInv' /\ Unrouted' /\ Agreement' /\ TombstonePropagated'
  <2>1. w[r].batch \in BatchId /\ w[r].pos \in Nat /\ w[r].pc \notin {"graph", "search"}
    BY <1>1, CurType DEF AnalyticsWrite, At, TypeOK, Work
  <2> QED BY <1>1, <2>1, AdvanceAgrees DEF AnalyticsWrite
<1>2. ASSUME NEW r \in Replica, Respond(r) \/ Poison(r) \/ StoreFails(r) \/ Restart(r)
      PROVE  FanoutInv' /\ Unrouted' /\ Agreement' /\ TombstonePropagated'
  BY <1>2, IdleAgrees DEF Respond, Poison, StoreFails, Restart, Raise, Abandon, At, stores
<1>3. ASSUME NEW r \in Replica, NEW b \in BatchId, Admit(r, b)
      PROVE  FanoutInv' /\ Unrouted' /\ Agreement' /\ TombstonePropagated'
  BY <1>3, AdvanceAgrees DEF Admit, At, stores
<1>4. ASSUME UNCHANGED <<rel, graph, search, w, torn>>
      PROVE  FanoutInv' /\ Unrouted' /\ Agreement' /\ TombstonePropagated'
  <2>1. \A r \in Replica : Cur(r)' = Cur(r)
    BY <1>4 DEF Cur
  <2> QED BY <1>4, <2>1 DEF FanoutInv, Unrouted, Agreement, TombstonePropagated, At, InSync,
                   Projects, Live, Fanning
<1>5. ASSUME NEW r \in Replica, NEW b \in BatchId, Refuse(r, b) \/ Replay(r, b) \/ Expire(r, b)
      PROVE  UNCHANGED <<rel, graph, search, w, torn>>
  BY <1>5 DEF Refuse, Replay, Expire, stores
<1>6. CASE UNCHANGED vars
  BY <1>4, <1>6 DEF vars, stores
<1> QED BY <1>1, <1>2, <1>3, <1>4, <1>5, <1>6, SelectAgrees, RelWriteAgrees, GraphWriteAgrees,
        SearchWriteAgrees DEF Next, Serve

LEMMA AgreementInvariant == ASSUME OneReplica PROVE Spec => []AgreementInv
<1>1. Init => FanoutInv /\ Unrouted /\ Agreement /\ TombstonePropagated
  BY DEF Init, FanoutInv, Unrouted, Agreement, TombstonePropagated, At, Idle, InSync, Projects,
         Live, C!Absent
<1>2. AgreementInv /\ [Next]_vars => FanoutInv' /\ Unrouted' /\ Agreement' /\ TombstonePropagated'
  BY AgreementStep, OneReplica
<1> QED BY <1>1, <1>2, TypeCorrect, PTL DEF Spec, AgreementInv

\* With one API process, the graph and the search index disagree with the
\* relational row of an entity only while a request is between the row and its
\* projections, or after a fault cut one there.
THEOREM AgreementAlways == ASSUME OneReplica PROVE Spec => []Agreement
BY AgreementInvariant, PTL DEF AgreementInv

\* With one API process, an entity whose delete has been fanned out is live in
\* no store, whatever earlier attempts left behind.
THEOREM TombstonePropagatedAlways == ASSUME OneReplica PROVE Spec => []TombstonePropagated
BY AgreementInvariant, PTL DEF AgreementInv

\* Seen through its rows, a step of the fan-out is a step of the catalog.
LEMMA RowStep ==
    ASSUME AgreementInv, OneReplica, [Next]_vars
    PROVE  C!Next \/ rel' = rel
<1> USE DEF AgreementInv
<1>1. ASSUME NEW r \in Replica, RelWrite(r) PROVE C!Next \/ rel' = rel
  <2> DEFINE e == Cur(r)
             u == Cur(r).urn
  <2>1. e \in Entity /\ u \in Urn /\ w[r].found = rel[u] /\ rel[u] \in C!Copy
    BY <1>1, CurType DEF RelWrite, At, Entity, FanoutInv, TypeOK
  <2>2. rel' = [rel EXCEPT ![u] = Row(rel[u], rel[u], e)]
    BY <1>1, <2>1 DEF RelWrite
  <2>3. CASE Skips(rel[u], e) \/ (e.op = "delete" /\ ~Live(rel, u))
    BY <2>1, <2>2, <2>3 DEF Row, Live, TypeOK
  <2>4. CASE e.op = "delete" /\ Live(rel, u) /\ ~Skips(rel[u], e)
    <3>1. C!Delete(u)
      BY <2>2, <2>4 DEF Row, Live, C!Delete
    <3> QED BY <2>1, <3>1 DEF C!Next
  <2>5. CASE e.op = "upsert" /\ ~Skips(rel[u], e)
    <3>1. Row(rel[u], rel[u], e) = C!Upserted(e.hash) /\ e.hash \in Hash \cup {NoHash}
      BY <2>1, <2>5, RowOutcome DEF Changed, Entity
    <3>2. C!Put(u)
      BY <2>2, <3>1 DEF C!Put
    <3> QED BY <2>1, <3>2 DEF C!Next
  <2> QED BY <2>1, <2>3, <2>4, <2>5 DEF Entity
<1>2. (\E r \in Replica : RelWrite(r)) \/ rel' = rel
  BY StoreSteps DEF stores, GraphWrite, SearchWrite, AnalyticsWrite
<1> QED BY <1>1, <1>2

\* With one API process the select-then-write sessions of the relational store
\* implement the catalog: each is one whole upsert, one whole tombstone, or
\* nothing (relational/store.py:87-126).
THEOREM RowsAreCatalogAlways == ASSUME OneReplica PROVE Spec => RowsAreCatalog
<1>1. Init => C!Init
  BY DEF Init, C!Init
<1>2. AgreementInv /\ [Next]_vars => [C!Next]_rel
  BY RowStep, OneReplica
<1> QED BY <1>1, <1>2, AgreementInvariant, PTL DEF Spec, RowsAreCatalog, C!Spec
-----------------------------------------------------------------------------
(* A batch is processed again only after something went wrong.             *)

\* What is still to be written to the event log has been written at most once
\* for each fault so far; a batch in service has no idempotency record.
Pending(r, b, i) ==
    /\ b \notin cache[r]
    /\ ~At(r, "idle") /\ w[r].batch = b => ~At(r, "respond") /\ i >= w[r].pos

LedgerInv ==
    /\ TypeOK
    /\ EventsOncePerFault
    /\ \A r \in Replica : ~At(r, "idle") => w[r].batch \notin cache[r]
    /\ \A r \in Replica : \A b \in BatchId : \A i \in DOMAIN Entities[b] :
           Pending(r, b, i) => events[<<b, i>>] <= faults

LEMMA SlotNat ==
    ASSUME NEW b \in BatchId, NEW i \in DOMAIN Entities[b]
    PROVE  i \in Nat /\ i >= 1 /\ <<b, i>> \in Slots
BY IngestAssumption DEF Slots

\* A fault makes room for one more entry everywhere.
LEMMA FaultLedger ==
    ASSUME LedgerInv, events' = events, faults' = faults + 1, TypeOK',
           \A r \in Replica : ~At(r, "idle")' => w'[r].batch \notin cache'[r]
    PROVE  LedgerInv'
<1>1. \A s \in Slots : events[s] \in Nat /\ events[s] <= 1 + faults /\ faults \in Nat
  BY DEF LedgerInv, EventsOncePerFault, TypeOK
<1>2. EventsOncePerFault'
  BY <1>1 DEF EventsOncePerFault
<1>3. ASSUME NEW b \in BatchId, NEW i \in DOMAIN Entities[b] PROVE events'[<<b, i>>] <= faults'
  <2>1. <<b, i>> \in Slots
    BY SlotNat
  <2>2. events[<<b, i>>] \in Nat /\ events[<<b, i>>] <= 1 + faults /\ faults \in Nat
    BY <1>1, <2>1
  <2> QED BY <2>2
<1> QED BY <1>2, <1>3 DEF LedgerInv

\* Going on to a later entity of the batch in service, or to the answer.
LEMMA AdvanceLedger ==
    ASSUME TypeOK, OneReplica, NEW r \in Replica, NEW b \in BatchId, NEW i \in Nat,
           Advance(r, b, i), cache' = cache, b \notin cache[r]
    PROVE  /\ \A q \in Replica : ~At(q, "idle")' => w'[q].batch \notin cache'[q]
           /\ \A q \in Replica : \A c \in BatchId : \A k \in DOMAIN Entities[c] :
                  Pending(q, c, k)' => q = r /\ c \notin cache[r] /\ (c = b => k > i)
<1>1. w'[r].batch = b /\ (w'[r].pc = "respond" \/ w'[r].pos \in Remaining(b, i))
      /\ w'[r].pc # "idle"
  BY DEF Advance, FirstStore, TypeOK
<1>2. w'[r].pos \in Remaining(b, i) => w'[r].pos \in Nat /\ w'[r].pos > i
  BY RemainingSlots
<1>3. \A q \in Replica : ~At(q, "idle")' => w'[q].batch \notin cache'[q]
  BY <1>1 DEF OneReplica
<1>4. ASSUME NEW q \in Replica, NEW c \in BatchId, NEW k \in DOMAIN Entities[c], Pending(q, c, k)'
      PROVE  q = r /\ c \notin cache[r] /\ (c = b => k > i)
  <2>1. q = r
    BY DEF OneReplica
  <2>2. c \notin cache[r]
    BY <1>4, <2>1 DEF Pending
  <2>3. ASSUME c = b PROVE k > i
    <3>1. w'[r].pc # "respond" /\ k >= w'[r].pos
      BY <1>1, <1>4, <2>1, <2>3 DEF Pending, At
    <3>2. k \in Nat
      BY SlotNat
    <3> QED BY <1>1, <1>2, <3>1, <3>2
  <2> QED BY <2>1, <2>2, <2>3
<1> QED BY <1>3, <1>4

LEMMA LedgerStep == ASSUME LedgerInv, OneReplica, [Next]_vars PROVE LedgerInv'
<1> USE DEF LedgerInv
<1>0. TypeOK'
  BY TypeStep
<1>1. ASSUME NEW r \in Replica, Poison(r) \/ StoreFails(r) \/ Restart(r) PROVE LedgerInv'
  <2>1. events' = events /\ faults' = faults + 1 /\ w' = [w EXCEPT ![r] = Idle]
    BY <1>1 DEF Poison, StoreFails, Restart, Raise, Abandon, stores
  <2>2. \A q \in Replica : ~At(q, "idle")' => w'[q].batch \notin cache'[q]
    BY <2>1 DEF OneReplica, At, Idle, TypeOK
  <2> QED BY <1>0, <2>1, <2>2, FaultLedger
<1>2. ASSUME NEW r \in Replica, NEW b \in BatchId, Expire(r, b) PROVE LedgerInv'
  <2>1. events' = events /\ faults' = faults + 1 /\ w' = w
    BY <1>2 DEF Expire, stores
  <2>2. \A q \in Replica : ~At(q, "idle")' => w'[q].batch \notin cache'[q]
    BY <1>2, <2>1 DEF Expire, At, TypeOK
  <2> QED BY <1>0, <2>1, <2>2, FaultLedger
<1>3. ASSUME NEW r \in Replica, AnalyticsWrite(r) PROVE LedgerInv'
  <2> DEFINE b == w[r].batch
             p == w[r].pos
  <2>1. /\ b \in BatchId /\ p \in Nat /\ p \in DOMAIN Entities[b] /\ <<b, p>> \in Slots
        /\ At(r, "analytics") /\ b \notin cache[r]
    BY <1>3, CurType DEF AnalyticsWrite, At, TypeOK, Work
  <2>2. Pending(r, b, p)
    BY <2>1 DEF Pending, At
  <2>3. events[<<b, p>>] <= faults /\ faults' = faults /\ cache' = cache
    BY <1>3, <2>1, <2>2 DEF AnalyticsWrite
  <2>4. events'[<<b, p>>] = events[<<b, p>>] + 1
        /\ \A s \in Slots \ {<<b, p>>} : events'[s] = events[s]
    BY <1>3, <2>1 DEF AnalyticsWrite, TypeOK
  <2>5. EventsOncePerFault'
    BY <2>1, <2>3, <2>4 DEF EventsOncePerFault, TypeOK
  <2>6. /\ \A q \in Replica : ~At(q, "idle")' => w'[q].batch \notin cache'[q]
        /\ \A q \in Replica : \A c \in BatchId : \A k \in DOMAIN Entities[c] :
               Pending(q, c, k)' => q = r /\ c \notin cache[r] /\ (c = b => k > p)
    <3>1. Advance(r, b, p)
      BY <1>3 DEF AnalyticsWrite
    <3> QED BY <2>1, <2>3, <3>1, AdvanceLedger
  <2>7. ASSUME NEW q \in Replica, NEW c \in BatchId, NEW k \in DOMAIN Entities[c], Pending(q, c, k)'
        PROVE  events'[<<c, k>>] <= faults'
    <3>1. q = r /\ c \notin cache[r] /\ (c = b => k > p)
      BY <2>6, <2>7
    <3>2. k \in Nat /\ <<c, k>> \in Slots
      BY SlotNat
    <3>3. Pending(r, c, k)
      BY <2>1, <3>1, <3>2 DEF Pending, At
    <3>4. <<c, k>> # <<b, p>>
      BY <2>1, <3>1, <3>2
    <3> QED BY <2>3, <2>4, <3>2, <3>3, <3>4
  <2> QED BY <1>0, <2>5, <2>6, <2>7
<1>4. ASSUME NEW r \in Replica, NEW b \in BatchId, Admit(r, b) PROVE LedgerInv'
  <2>1. events' = events /\ faults' = faults /\ cache' = cache /\ b \notin cache[r]
        /\ At(r, "idle") /\ Advance(r, b, 0)
    BY <1>4 DEF Admit, stores
  <2>2. /\ \A q \in Replica : ~At(q, "idle")' => w'[q].batch \notin cache'[q]
        /\ \A q \in Replica : \A c \in BatchId : \A k \in DOMAIN Entities[c] :
               Pending(q, c, k)' => q = r /\ c \notin cache[r]
    BY <2>1, AdvanceLedger
  <2>3. ASSUME NEW q \in Replica, NEW c \in BatchId, NEW k \in DOMAIN Entities[c], Pending(q, c, k)'
        PROVE  Pending(r, c, k)
    BY <2>1, <2>2, <2>3 DEF Pending, At
  <2>4. \A q \in Replica : \A c \in BatchId : \A k \in DOMAIN Entities[c] :
            Pending(q, c, k)' => events'[<<c, k>>] <= faults'
    BY <2>1, <2>3
  <2> QED BY <1>0, <2>1, <2>2, <2>4 DEF EventsOncePerFault
<1>5. ASSUME NEW r \in Replica, Respond(r) PROVE LedgerInv'
  <2>1. /\ events' = events /\ faults' = faults /\ w' = [w EXCEPT ![r] = Idle]
        /\ cache' = [cache EXCEPT ![r] = @ \cup {w[r].batch}] /\ At(r, "respond")
    BY <1>5 DEF Respond, stores
  <2>2. w'[r].pc = "idle" /\ cache'[r] = cache[r] \cup {w[r].batch}
    BY <2>1 DEF Idle, TypeOK
  <2>3. ASSUME NEW q \in Replica, NEW c \in BatchId, NEW k \in DOMAIN Entities[c], Pending(q, c, k)'
        PROVE  Pending(q, c, k)
    <3>1. q = r
      BY DEF OneReplica
    <3> QED BY <2>2, <2>3, <3>1 DEF Pending, At
  <2>4. \A q \in Replica : ~At(q, "idle")' => w'[q].batch \notin cache'[q]
    BY <2>2 DEF OneReplica, At
  <2> QED BY <1>0, <2>1, <2>3, <2>4 DEF EventsOncePerFault
<1>6. ASSUME NEW r \in Replica, RelSelect(r) \/ RelWrite(r) \/ GraphWrite(r) \/ SearchWrite(r)
      PROVE  LedgerInv'
  <2>1. events' = events /\ faults' = faults /\ cache' = cache
    BY <1>6 DEF RelSelect, RelWrite, GraphWrite, SearchWrite, stores
  <2>2. /\ w[r].pc \notin {"idle", "respond"} /\ w'[r].pc \notin {"idle", "respond"}
        /\ w'[r].batch = w[r].batch /\ w'[r].pos = w[r].pos
    BY <1>6 DEF RelSelect, RelWrite, GraphWrite, SearchWrite, Goto, At, TypeOK, Work
  <2>3. ASSUME NEW q \in Replica, NEW c \in BatchId, NEW k \in DOMAIN Entities[c], Pending(q, c, k)'
        PROVE  Pending(q, c, k)
    <3>1. q = r
      BY DEF OneReplica
    <3> QED BY <2>1, <2>2, <2>3, <3>1 DEF Pending, At
  <2>4. \A q \in Replica : ~At(q, "idle")' => w'[q].batch \notin cache'[q]
    BY <2>1, <2>2 DEF OneReplica, At
  <2> QED BY <1>0, <2>1, <2>3, <2>4 DEF EventsOncePerFault
<1>7. ASSUME UNCHANGED <<events, faults, cache, w>> PROVE LedgerInv'
  BY <1>0, <1>7 DEF EventsOncePerFault, Pending, At
<1>8. ASSUME NEW r \in Replica, NEW b \in BatchId, Refuse(r, b) \/ Replay(r, b)
      PROVE  UNCHANGED <<events, faults, cache, w>>
  BY <1>8 DEF Refuse, Replay, stores
<1>9. CASE UNCHANGED vars
  BY <1>7, <1>9 DEF vars, stores
<1> QED BY <1>1, <1>2, <1>3, <1>4, <1>5, <1>6, <1>7, <1>8, <1>9 DEF Next, Serve

\* With one API process an entity is put in the event log once, and once more
\* at most for each failed attempt, restart or expired record: a replayed
\* batch_id is answered from its record (service.py:112-114, 150).
THEOREM EventsOncePerFaultAlways == ASSUME OneReplica PROVE Spec => []EventsOncePerFault
<1>1. Init => LedgerInv
  <2>1. Init => TypeOK
    BY IngestAssumption DEF Init, TypeOK, C!Copy, C!States, C!Absent, Work, Idle, Pcs, Answer
  <2> QED BY <2>1, SlotNat DEF Init, LedgerInv, EventsOncePerFault, At, Idle, Pending
<1>2. LedgerInv /\ [Next]_vars => LedgerInv'
  BY LedgerStep, OneReplica
<1> QED BY <1>1, <1>2, PTL DEF Spec, LedgerInv
=============================================================================
