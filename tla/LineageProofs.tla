--------------------------- MODULE LineageProofs ---------------------------
(***************************************************************************)
(* Theorems about Lineage, for any writers, tenants, records and bounds.   *)
(* Three invariants carry them: what a writer still has to do comes from   *)
(* the plan of its record (WorkOK), relationships stay within the tenant   *)
(* that recorded them (GraphStaysInTenant), and the node of a key nobody   *)
(* is about to write follows its row (NodesFollowRows).                    *)
(***************************************************************************)
EXTENDS LineagePaths, SequenceTheorems, Induction, TLAPS

WorkOK == \A x \in Writer : Busy(x) => rec[x] \in Record /\ todo[x] \subseteq Plan(rec[x])

TypeInv == TypeOK /\ WorkOK
-----------------------------------------------------------------------------
(* What the operators return. *)

LEMMA PlanMeans ==
    ASSUME NEW r
    PROVE  /\ "node" \in Plan(r) => ~IsEdge(r)
           /\ "parent" \in Plan(r) => ~IsEdge(r)
           /\ "owner" \in Plan(r) => ~IsEdge(r)
           /\ "derive" \in Plan(r) => IsEdge(r) /\ ~Raises(r)
           /\ "job" \in Plan(r) => IsEdge(r) /\ ~Raises(r)
           /\ "tombstone" \in Plan(r) => IsEdge(r)
BY DEF Plan, IsEdge

\* The keys a transaction names are keys, all of the record's tenant.
LEMMA RecordKeys ==
    ASSUME NEW r \in Record
    PROVE  /\ r.tenant \in Tenant
           /\ ~IsEdge(r) => Self(r) \in Key /\ Self(r).tenant = r.tenant
           /\ "parent" \in Plan(r) => Parent(r) \in Key /\ Parent(r).tenant = r.tenant
           /\ "owner" \in Plan(r) => r.owner \in Owner
           /\ IsEdge(r) /\ ~Raises(r) =>
                /\ EdgeOf(r) \in Edge
                /\ EdgeOf(r).tenant = r.tenant
                /\ EdgeOf(r).up.tenant = r.tenant
                /\ EdgeOf(r).down.tenant = r.tenant
           /\ "job" \in Plan(r) => Job(r) \in Key /\ Job(r).tenant = r.tenant
<1>1. r \in NodeRecord \/ r \in EdgeRecord
  BY LineageAssumption
<1>2. CASE r \in NodeRecord
  <2>1. ~IsEdge(r)
    BY <1>2 DEF NodeRecord, IsEdge, _NODE_LABELS
  <2>2. Self(r) \in Key /\ Self(r).tenant = r.tenant
    BY <1>2 DEF NodeRecord, Self, KeyOf, Key
  <2>3. ASSUME "parent" \in Plan(r)
        PROVE  Parent(r) \in Key /\ Parent(r).tenant = r.tenant
    BY <1>2, <2>3 DEF NodeRecord, Parent, KeyOf, Key, Plan, _NODE_LABELS
  <2>4. "owner" \in Plan(r) => r.owner \in Owner
    BY <1>2 DEF NodeRecord, Plan
  <2>5. "job" \notin Plan(r)
    BY <2>1 DEF Plan
  <2> QED BY <1>2, <2>1, <2>2, <2>3, <2>4, <2>5 DEF NodeRecord
<1>3. CASE r \in EdgeRecord
  <2>1. IsEdge(r)
    BY <1>3 DEF EdgeRecord, IsEdge
  <2>2. "owner" \notin Plan(r) /\ "parent" \notin Plan(r)
    BY <2>1 DEF Plan, IsEdge
  <2>3. ASSUME ~Raises(r)
        PROVE  /\ EdgeOf(r) \in Edge
               /\ EdgeOf(r).tenant = r.tenant
               /\ EdgeOf(r).up.tenant = r.tenant
               /\ EdgeOf(r).down.tenant = r.tenant
    <3>1. r.upstream \in End /\ r.downstream \in End
      BY <1>3, <2>1, <2>3 DEF EdgeRecord, Raises
    <3> QED BY <1>3, <3>1 DEF EdgeRecord, EdgeOf, Edge, End, KeyOf, Key
  <2>4. ASSUME "job" \in Plan(r)
        PROVE  Job(r) \in Key /\ Job(r).tenant = r.tenant
    BY <1>3, <2>4 DEF EdgeRecord, Job, KeyOf, Key, Plan, _NODE_LABELS
  <2> QED BY <1>3, <2>1, <2>2, <2>3, <2>4 DEF EdgeRecord
<1> QED BY <1>1, <1>2, <1>3

LEMMA MergedType ==
    ASSUME TypeOK, NEW S
    PROVE  /\ Merged(S) \in [Key -> {"none", "stub", "live", "deleted"}]
           /\ \A k \in Key : Merged(S)[k] = "live" <=> node[k] = "live"
           /\ \A k \in Key : k \notin S => Merged(S)[k] = node[k]
           /\ \A k \in Key : k \in S \/ node[k] # "none" => Merged(S)[k] # "none"
BY DEF TypeOK, Merged

\* Lineage is made of the live nodes of one tenant.
LEMMA TraverseHits ==
    ASSUME NEW E, NEW N \in SUBSET Key, NEW A, NEW d, NEW n \in Nat,
           NEW hit \in _traverse_tx(E, N, A, d, n)
    PROVE  /\ hit \in Hit
           /\ \E k \in N : k.urn = hit.urn /\ k.label = hit.entity_type
BY DEF _traverse_tx, HitOf, Hit, Key

LEMMA TraversalType ==
    ASSUME NEW t, NEW u, NEW d, NEW n \in Nat
    PROVE  Traversal(t, u, d, n) \in SUBSET Hit
<1>1. Clamp(n) \in Nat
  BY DEF Clamp, _MAX_HOPS_CEILING
<1>2. LiveOf(t) \in SUBSET Key
  BY DEF LiveOf
<1> QED BY <1>1, <1>2, TraverseHits DEF Traversal
-----------------------------------------------------------------------------
(* Types, and what each writer still has to do. *)

\* One transaction of a writer leaves the other writers' work as it was.
LEMMA CommitsWork ==
    ASSUME TypeInv, NEW x \in Writer, NEW tx, Commits(x, tx)
    PROVE  /\ rec[x] \in Record /\ tx \in Plan(rec[x])
           /\ todo' \in [Writer -> SUBSET Tx]
           /\ WorkOK'
           /\ \A y \in Writer : todo'[y] = IF y = x THEN todo[x] \ {tx} ELSE todo[y]
BY DEF TypeInv, TypeOK, WorkOK, Commits, Busy

LEMMA InitTypes == Init => TypeInv
<1> SUFFICES ASSUME Init PROVE TypeInv
  OBVIOUS
<1>1. ask \in Request
  BY DEF Init, NoRequest, Request
<1>2. TypeOK
  BY <1>1 DEF Init, TypeOK
<1>3. WorkOK
  BY DEF Init, WorkOK, Busy
<1> QED BY <1>2, <1>3 DEF TypeInv

LEMMA BeginTypes ==
    ASSUME TypeInv, NEW x \in Writer, NEW r \in Record, Begin(x, r)
    PROVE  TypeInv'
<1> USE DEF TypeInv
<1>1. rec' \in [Writer -> Record \cup {None}] /\ todo' \in [Writer -> SUBSET Tx] /\ writes' \in Nat
  BY DEF Begin, TypeOK, Plan
<1>2. WorkOK'
  BY DEF Begin, TypeOK, WorkOK, Busy
<1>3. row' \in [Key -> {"absent", "live", "deleted"}]
  <2>1. CASE IsEdge(r)
    BY <2>1 DEF Begin, TypeOK
  <2>2. CASE ~IsEdge(r)
    <3>1. row' = Upserted(r)
      BY <2>2 DEF Begin
    <3> QED BY <3>1, <2>2, RecordKeys DEF Upserted, TypeOK
  <2> QED BY <2>1, <2>2
<1>4. torn' \subseteq Key
  BY RecordKeys DEF Begin, TypeOK
<1> QED BY <1>1, <1>2, <1>3, <1>4 DEF Begin, TypeOK, graph

LEMMA StepTypes ==
    ASSUME TypeInv, NEW x \in Writer, Steps(x)
    PROVE  TypeInv'
<1> DEFINE r == rec[x]
<1> SUFFICES /\ node' \in [Key -> {"none", "stub", "live", "deleted"}]
             /\ derives' \subseteq Edge
             /\ dropped' \subseteq derives'
             /\ links' \subseteq Link
             /\ \E tx \in Tx : Commits(x, tx)
  BY CommitsWork DEF Commits, TypeInv, TypeOK
<1>1. CASE _merge_node_tx(x)
  <2>1. Commits(x, "node") /\ r \in Record /\ "node" \in Plan(r)
    BY <1>1, CommitsWork DEF _merge_node_tx
  <2>2. Self(r) \in Key
    BY <2>1, RecordKeys DEF Plan
  <2> QED BY <1>1, <2>1, <2>2 DEF _merge_node_tx, TypeInv, TypeOK, Tx
<1>2. CASE _link_tx(x)
  <2>1. Commits(x, "parent") /\ r \in Record /\ "parent" \in Plan(r)
    BY <1>2, CommitsWork DEF _link_tx
  <2>2. ~IsEdge(r)
    BY <2>1 DEF Plan, IsEdge
  <2>3. [rel |-> "HAS_COLUMN", from |-> Parent(r), to |-> Self(r)] \in Link
    BY <2>1, <2>2, RecordKeys DEF Link
  <2> QED BY <1>2, <2>1, <2>3, MergedType DEF _link_tx, TypeInv, TypeOK, Tx
<1>3. CASE _link_owner_tx(x)
  <2>1. Commits(x, "owner") /\ r \in Record /\ "owner" \in Plan(r)
    BY <1>3, CommitsWork DEF _link_owner_tx
  <2>2. ~IsEdge(r)
    BY <2>1 DEF Plan, IsEdge
  <2>3. [rel |-> "OWNED_BY", from |-> Self(r),
         to |-> [tenant |-> r.tenant, label |-> "owner", urn |-> r.owner]] \in Link
    BY <2>1, <2>2, RecordKeys DEF Link, OwnerKey
  <2> QED BY <1>3, <2>1, <2>3, MergedType DEF _link_owner_tx, TypeInv, TypeOK, Tx
<1>4. CASE _merge_derives_from_tx(x)
  <2>1. Commits(x, "derive") /\ r \in Record /\ "derive" \in Plan(r)
    BY <1>4, CommitsWork DEF _merge_derives_from_tx
  <2>2. EdgeOf(r) \in Edge
    BY <2>1, RecordKeys DEF Plan
  <2> QED BY <1>4, <2>1, <2>2, MergedType DEF _merge_derives_from_tx, TypeInv, TypeOK, Tx
<1>5. CASE _merge_job_edges_tx(x)
  <2>1. Commits(x, "job") /\ r \in Record /\ "job" \in Plan(r)
    BY <1>5, CommitsWork DEF _merge_job_edges_tx
  <2>2. EdgeOf(r) \in Edge /\ Job(r) \in Key
    BY <2>1, RecordKeys DEF Plan
  <2>3. /\ [rel |-> "PRODUCES", from |-> Job(r), to |-> EdgeOf(r).down] \in Link
        /\ [rel |-> "CONSUMES", from |-> Job(r), to |-> EdgeOf(r).up] \in Link
    BY <2>2 DEF Link, Edge
  <2> QED BY <1>5, <2>1, <2>3, MergedType DEF _merge_job_edges_tx, TypeInv, TypeOK, Tx
<1>6. CASE _tombstone_lineage_edge_tx(x)
  BY <1>6 DEF _tombstone_lineage_edge_tx, TypeInv, TypeOK, Tx
<1> QED BY <1>1, <1>2, <1>3, <1>4, <1>5, <1>6 DEF Steps

LEMMA CutTypes ==
    ASSUME TypeInv, NEW x \in Writer, Cut(x)
    PROVE  TypeInv'
<1>1. ~IsEdge(rec[x]) => Self(rec[x]) \in Key
  BY RecordKeys DEF Cut, TypeInv, WorkOK
<1>2. WorkOK'
  BY DEF Cut, TypeInv, TypeOK, WorkOK, Busy
<1> QED BY <1>1, <1>2 DEF Cut, TypeInv, TypeOK, graph

LEMMA AnswerType ==
    ASSUME NEW q \in Request, NEW F \in SUBSET Hit,
           NEW p \in {"idle", "downstream"}, NEW s \in {0, 200}
    PROVE  /\ [q EXCEPT !.up = F, !.pc = p, !.status = s] \in Request
           /\ [q EXCEPT !.down = F, !.pc = p, !.status = s] \in Request
<1>1. [q EXCEPT !.up = F] \in Request /\ [q EXCEPT !.down = F] \in Request
  BY DEF Request
<1>2. \A c \in Request : [c EXCEPT !.pc = p] \in Request
  BY DEF Request
<1>3. \A c \in Request : [c EXCEPT !.status = s] \in Request
  BY DEF Request
<1> QED BY <1>1, <1>2, <1>3, Zenon

LEMMA ReadTypes ==
    ASSUME TypeInv, Read
    PROVE  TypeInv'
<1>1. UNCHANGED <<row, graph, rec, todo, writes, torn>>
  BY DEF Read, get_table_lineage, ReadUpstream, ReadDownstream
<1>2. ask' \in Request
  <2>1. ASSUME NEW q \in Asked, get_table_lineage(q)
        PROVE  ask' \in Request
    BY <2>1, LineageAssumption DEF get_table_lineage, Query, Request
  <2>2. ask.max_hops \in Nat
    BY DEF TypeInv, TypeOK, Request
  <2>5. ask \in Request
    BY DEF TypeInv, TypeOK
  <2>3. ASSUME ReadUpstream PROVE ask' \in Request
    <3> DEFINE found == Traversal(ask.tenant, ask.urn, "upstream", ask.max_hops)
    <3>1. found \in SUBSET Hit
      BY <2>2, TraversalType
    <3>2. CASE ask.direction = "both"
      <4>1. ask' = [ask EXCEPT !.up = found, !.pc = "downstream", !.status = 0]
        BY <2>3, <3>2, Zenon DEF ReadUpstream
      <4> QED BY <2>5, <3>1, <4>1, AnswerType, Zenon
    <3>3. CASE ask.direction # "both"
      <4>1. ask' = [ask EXCEPT !.up = found, !.pc = "idle", !.status = 200]
        BY <2>3, <3>3, Zenon DEF ReadUpstream
      <4> QED BY <2>5, <3>1, <4>1, AnswerType, Zenon
    <3> QED BY <3>2, <3>3
  <2>4. ASSUME ReadDownstream PROVE ask' \in Request
    <3> DEFINE found == Traversal(ask.tenant, ask.urn, "downstream", ask.max_hops)
    <3>1. found \in SUBSET Hit
      BY <2>2, TraversalType
    <3>2. ask' = [ask EXCEPT !.down = found, !.pc = "idle", !.status = 200]
      BY <2>4, Zenon DEF ReadDownstream
    <3> QED BY <2>5, <3>1, <3>2, AnswerType, Zenon
  <2> QED BY <2>1, <2>3, <2>4 DEF Read
<1> QED BY <1>1, <1>2 DEF TypeInv, TypeOK, WorkOK, Busy, graph

LEMMA NextTypes == TypeInv /\ [Next]_vars => TypeInv'
<1> SUFFICES ASSUME TypeInv, [Next]_vars PROVE TypeInv'
  OBVIOUS
<1>1. CASE UNCHANGED vars
  BY <1>1 DEF vars, graph, TypeInv, TypeOK, WorkOK, Busy
<1>2. CASE Next
  BY <1>2, BeginTypes, StepTypes, CutTypes, ReadTypes DEF Next
<1> QED BY <1>1, <1>2

\* The stores, the writers' plans and the answers keep their types.
THEOREM TypeCorrect == Spec => []TypeOK
<1>1. Spec => []TypeInv
  BY InitTypes, NextTypes, PTL DEF Spec
<1> QED BY <1>1, PTL DEF TypeInv
-----------------------------------------------------------------------------
(* Tenants do not mix. *)

LEMMA StepTenants ==
    ASSUME TypeInv, GraphStaysInTenant, NEW x \in Writer, Steps(x)
    PROVE  GraphStaysInTenant'
<1> DEFINE r == rec[x]
<1> USE DEF GraphStaysInTenant
<1>1. CASE _merge_node_tx(x)
  BY <1>1 DEF _merge_node_tx
<1>2. CASE _link_tx(x)
  <2>1. r \in Record /\ "parent" \in Plan(r) /\ ~IsEdge(r)
    BY <1>2, CommitsWork, PlanMeans DEF _link_tx
  <2>2. Parent(r) \in Key /\ Self(r) \in Key /\ Parent(r).tenant = r.tenant /\ Self(r).tenant = r.tenant
    BY <2>1, RecordKeys
  <2> QED BY <1>2, <2>2 DEF _link_tx
<1>3. CASE _link_owner_tx(x)
  <2>1. r \in Record /\ "owner" \in Plan(r) /\ ~IsEdge(r)
    BY <1>3, CommitsWork, PlanMeans DEF _link_owner_tx
  <2>2. Self(r) \in Key /\ Self(r).tenant = r.tenant
    BY <2>1, RecordKeys
  <2> QED BY <1>3, <2>2 DEF _link_owner_tx
<1>4. CASE _merge_derives_from_tx(x)
  <2>1. r \in Record /\ IsEdge(r) /\ ~Raises(r)
    BY <1>4, CommitsWork, PlanMeans DEF _merge_derives_from_tx
  <2>2. /\ EdgeOf(r).tenant = r.tenant
       /\ EdgeOf(r).up.tenant = r.tenant
       /\ EdgeOf(r).down.tenant = r.tenant
    BY <2>1, RecordKeys
  <2> QED BY <1>4, <2>2 DEF _merge_derives_from_tx
<1>5. CASE _merge_job_edges_tx(x)
  <2>1. r \in Record /\ IsEdge(r) /\ ~Raises(r) /\ "job" \in Plan(r)
    BY <1>5, CommitsWork, PlanMeans DEF _merge_job_edges_tx
  <2>2. /\ Job(r).tenant = r.tenant
       /\ EdgeOf(r).up.tenant = r.tenant
       /\ EdgeOf(r).down.tenant = r.tenant
    BY <2>1, RecordKeys
  <2> QED BY <1>5, <2>2 DEF _merge_job_edges_tx
<1>6. CASE _tombstone_lineage_edge_tx(x)
  BY <1>6 DEF _tombstone_lineage_edge_tx
<1> QED BY <1>1, <1>2, <1>3, <1>4, <1>5, <1>6 DEF Steps

\* Everything but a transaction leaves the graph alone.
LEMMA OthersKeepGraph ==
    ASSUME [Next]_vars, \A x \in Writer : ~Steps(x)
    PROVE  UNCHANGED graph
<1>1. CASE UNCHANGED vars
  BY <1>1 DEF vars
<1>2. ASSUME NEW x \in Writer, NEW r \in Record, Begin(x, r)
      PROVE  UNCHANGED graph
  BY <1>2 DEF Begin
<1>3. ASSUME NEW x \in Writer, Cut(x)
      PROVE  UNCHANGED graph
  BY <1>3 DEF Cut
<1>4. CASE Read
  BY <1>4 DEF Read, get_table_lineage, ReadUpstream, ReadDownstream
<1> QED BY <1>1, <1>2, <1>3, <1>4 DEF Next

LEMMA NextTenants == TypeInv /\ GraphStaysInTenant /\ [Next]_vars => GraphStaysInTenant'
<1> SUFFICES ASSUME TypeInv, GraphStaysInTenant, [Next]_vars PROVE GraphStaysInTenant'
  OBVIOUS
<1>1. CASE \E x \in Writer : Steps(x)
  BY <1>1, StepTenants
<1>2. CASE \A x \in Writer : ~Steps(x)
  BY <1>2, OthersKeepGraph DEF graph, GraphStaysInTenant
<1> QED BY <1>1, <1>2

TenantInv == TypeInv /\ GraphStaysInTenant

LEMMA TenantInvHolds == Spec => []TenantInv
<1>1. Init => GraphStaysInTenant
  BY DEF Init, GraphStaysInTenant
<1> QED BY <1>1, InitTypes, NextTypes, NextTenants, PTL DEF Spec, TenantInv

\* Every relationship and both its ends belong to one tenant.
THEOREM GraphStaysInTenantAlways == Spec => []GraphStaysInTenant
BY TenantInvHolds, PTL DEF TenantInv

\* A transaction touches the nodes and relationships of its record's tenant only.
LEMMA StepWithin ==
    ASSUME TenantInv, NEW x \in Writer, Steps(x), NEW t \in Tenant, rec[x].tenant # t
    PROVE  /\ \A k \in Key : k.tenant = t => node'[k] = node[k]
           /\ EdgesOf(t)' = EdgesOf(t)
           /\ (dropped \cap EdgesOf(t))' = dropped \cap EdgesOf(t)
           /\ {l \in links : l.from.tenant = t}' = {l \in links : l.from.tenant = t}
<1> DEFINE r == rec[x]
<1> USE DEF TenantInv, EdgesOf
<1>1. CASE _merge_node_tx(x)
  <2>1. r \in Record /\ ~IsEdge(r)
    BY <1>1, CommitsWork, PlanMeans DEF _merge_node_tx
  <2>2. Self(r) \in Key /\ Self(r).tenant = r.tenant
    BY <2>1, RecordKeys
  <2> QED BY <1>1, <2>2 DEF _merge_node_tx, TypeInv, TypeOK
<1>2. CASE _link_tx(x)
  <2>1. r \in Record /\ "parent" \in Plan(r) /\ ~IsEdge(r)
    BY <1>2, CommitsWork, PlanMeans DEF _link_tx
  <2>2. Parent(r) \in Key /\ Self(r) \in Key /\ Parent(r).tenant = r.tenant /\ Self(r).tenant = r.tenant
    BY <2>1, RecordKeys
  <2> QED BY <1>2, <2>2, MergedType DEF _link_tx, TypeInv
<1>3. CASE _link_owner_tx(x)
  <2>1. r \in Record /\ "owner" \in Plan(r) /\ ~IsEdge(r)
    BY <1>3, CommitsWork, PlanMeans DEF _link_owner_tx
  <2>2. Self(r) \in Key /\ Self(r).tenant = r.tenant
    BY <2>1, RecordKeys
  <2> QED BY <1>3, <2>2, MergedType DEF _link_owner_tx, TypeInv
<1>4. CASE _merge_derives_from_tx(x)
  <2>1. r \in Record /\ IsEdge(r) /\ ~Raises(r)
    BY <1>4, CommitsWork, PlanMeans DEF _merge_derives_from_tx
  <2>2. /\ EdgeOf(r).tenant = r.tenant
       /\ EdgeOf(r).up.tenant = r.tenant
       /\ EdgeOf(r).down.tenant = r.tenant
    BY <2>1, RecordKeys
  <2> QED BY <1>4, <2>2, MergedType DEF _merge_derives_from_tx, TypeInv
<1>5. CASE _merge_job_edges_tx(x)
  <2>1. r \in Record /\ IsEdge(r) /\ ~Raises(r) /\ "job" \in Plan(r)
    BY <1>5, CommitsWork, PlanMeans DEF _merge_job_edges_tx
  <2>2. /\ Job(r).tenant = r.tenant
       /\ EdgeOf(r).up.tenant = r.tenant
       /\ EdgeOf(r).down.tenant = r.tenant
    BY <2>1, RecordKeys
  <2> QED BY <1>5, <2>2, MergedType DEF _merge_job_edges_tx, TypeInv
<1>6. CASE _tombstone_lineage_edge_tx(x)
  BY <1>6 DEF _tombstone_lineage_edge_tx, GraphStaysInTenant
<1> QED BY <1>1, <1>2, <1>3, <1>4, <1>5, <1>6 DEF Steps

\* A tenant whose writers rest sees the same graph after the step as before.
LEMMA Private ==
    ASSUME TenantInv, [Next]_vars, NEW t \in Tenant, Uninvolved(t)
    PROVE  /\ \A k \in Key : k.tenant = t => node'[k] = node[k]
           /\ EdgesOf(t)' = EdgesOf(t)
           /\ (dropped \cap EdgesOf(t))' = dropped \cap EdgesOf(t)
           /\ {l \in links : l.from.tenant = t}' = {l \in links : l.from.tenant = t}
<1>1. CASE \A x \in Writer : ~Steps(x)
  BY <1>1, OthersKeepGraph DEF graph, EdgesOf
<1>2. ASSUME NEW x \in Writer, Steps(x)
      PROVE  rec[x].tenant # t
  <2>1. PICK tx \in todo[x] : todo'[x] = todo[x] \ {tx}
    BY <1>2 DEF TenantInv, TypeInv, TypeOK, Steps, Commits, _merge_node_tx, _link_tx,
         _link_owner_tx, _merge_derives_from_tx, _merge_job_edges_tx, _tombstone_lineage_edge_tx
  <2> QED BY <2>1 DEF Uninvolved, Busy
<1> QED BY <1>1, <1>2, StepWithin

LEMMA PrivateLineage ==
    ASSUME TenantInv, [Next]_vars, NEW t \in Tenant, Uninvolved(t)
    PROVE  /\ GraphOf(t)' = GraphOf(t)
           /\ \A u, d, n : Traversal(t, u, d, n)' = Traversal(t, u, d, n)
<1>1. LiveOf(t)' = LiveOf(t) /\ \A u : AnchorsOf(t, u)' = AnchorsOf(t, u)
  BY Private DEF LiveOf, AnchorsOf
<1>2. \A u, d, n : Traversal(t, u, d, n)' = Traversal(t, u, d, n)
  BY <1>1, Private DEF Traversal
<1>3. [k \in {q \in Key : q.tenant = t} |-> node[k]]' = [k \in {q \in Key : q.tenant = t} |-> node[k]]
  BY Private
<1>4. GraphOf(t)' = GraphOf(t)
  BY <1>3, Private DEF GraphOf
<1> QED BY <1>2, <1>4

\* A write changes the graph and the lineage of its own tenant only.
THEOREM NoInterferenceAlways == Spec => NoInterference
<1>1. TenantInv /\ [Next]_vars
        => [\A t \in Tenant : Uninvolved(t) =>
              /\ GraphOf(t)' = GraphOf(t)
              /\ \A u \in Urn, d \in {"upstream", "downstream"}, n \in 1..2 :
                   Traversal(t, u, d, n)' = Traversal(t, u, d, n)]_vars
  BY PrivateLineage
<1> QED BY <1>1, TenantInvHolds, PTL DEF Spec, NoInterference

\* The same for any anchor and any number of hops.
THEOREM LineageIsPrivate ==
    Spec => [][\A t \in Tenant : Uninvolved(t) =>
                 \A u, d, n : Traversal(t, u, d, n)' = Traversal(t, u, d, n)]_vars
<1>1. TenantInv /\ [Next]_vars
        => [\A t \in Tenant : Uninvolved(t) =>
              \A u, d, n : Traversal(t, u, d, n)' = Traversal(t, u, d, n)]_vars
  BY PrivateLineage
<1> QED BY <1>1, TenantInvHolds, PTL DEF Spec
-----------------------------------------------------------------------------
(* Nodes follow rows. *)

Pending(x, k, tx) == BusyWith(x, k) /\ tx \in todo[x]

\* At most one writer is at work on a key that is not torn; until it has merged
\* the node the row tells what it is going to do, and from then on the node and
\* the row agree.
NodesFollowRows ==
    \A k \in Key \ torn :
        /\ \A x, y \in Writer : BusyWith(x, k) /\ BusyWith(y, k) => x = y
        /\ \A x \in Writer : Pending(x, k, "node") => (row[k] = "live" <=> rec[x].op = "upsert")
        /\ (\A x \in Writer : ~Pending(x, k, "node")) => (row[k] = "live" <=> node[k] = "live")

\* Both ends of an edge have a node, if only a stub.
EdgesHaveNodes == \A e \in derives : node[e.up] # "none" /\ node[e.down] # "none"

LEMMA UpsertedRow ==
    ASSUME TypeOK, NEW r \in Record, ~IsEdge(r)
    PROVE  /\ Upserted(r)[Self(r)] = "live" <=> r.op = "upsert"
           /\ \A k \in Key : k # Self(r) => Upserted(r)[k] = row[k]
BY RecordKeys DEF Upserted, TypeOK

\* What starting a record does to the writers' work.
LEMMA BeginWork ==
    ASSUME TypeInv, NEW x \in Writer, NEW r \in Record, Begin(x, r)
    PROVE  /\ \A y \in Writer : \A k : y # x => (BusyWith(y, k)' <=> BusyWith(y, k))
           /\ \A k : BusyWith(x, k)' => ~IsEdge(r) /\ Self(r) = k
           /\ \A k : ~BusyWith(x, k)
           /\ \A y \in Writer : y # x => rec'[y] = rec[y] /\ todo'[y] = todo[y]
           /\ rec'[x] = r /\ todo'[x] = Plan(r)
<1>1. /\ rec'[x] = r /\ todo'[x] = Plan(r) /\ todo[x] = {}
      /\ \A y \in Writer : y # x => rec'[y] = rec[y] /\ todo'[y] = todo[y]
  BY DEF Begin, Busy, TypeInv, TypeOK
<1> QED BY <1>1 DEF BusyWith, Busy, Self, KeyOf

LEMMA BeginFollows ==
    ASSUME TypeInv, NodesFollowRows, NEW x \in Writer, NEW r \in Record, Begin(x, r)
    PROVE  NodesFollowRows'
<1> SUFFICES ASSUME NEW k \in Key \ torn'
             PROVE  /\ \A y, z \in Writer : BusyWith(y, k)' /\ BusyWith(z, k)' => y = z
                    /\ \A y \in Writer : Pending(y, k, "node")' => (row'[k] = "live" <=> rec'[y].op = "upsert")
                    /\ (\A y \in Writer : ~Pending(y, k, "node")') => (row'[k] = "live" <=> node'[k] = "live")
  BY DEF NodesFollowRows
<1>1. node' = node
  BY DEF Begin, graph
<1>2. CASE ~IsEdge(r) /\ k = Self(r)
  <2>1. \A y \in Writer : ~BusyWith(y, k)
    BY <1>2 DEF Begin
  <2>2. row'[k] = "live" <=> r.op = "upsert"
    BY <1>2, UpsertedRow DEF Begin, TypeInv
  <2>3. "node" \in todo'[x] /\ BusyWith(x, k)'
    <3>1. todo'[x] = Plan(r) /\ rec'[x] = r
      BY BeginWork
    <3>2. "node" \in Plan(r)
      BY <1>2 DEF Plan, Tx, Raises
    <3> QED BY <1>2, <3>1, <3>2 DEF BusyWith, Busy, Self, KeyOf
  <2>4. \A y \in Writer : BusyWith(y, k)' => y = x
    BY <2>1, BeginWork
  <2> QED BY <2>2, <2>3, <2>4, BeginWork DEF Pending
<1>3. CASE IsEdge(r) \/ k # Self(r)
  <2>1. k \notin torn /\ row'[k] = row[k]
    BY <1>3, UpsertedRow DEF Begin, TypeInv
  <2>2. ~BusyWith(x, k)'
    BY <1>3, BeginWork
  <2>3. \A y \in Writer : (BusyWith(y, k)' <=> BusyWith(y, k)) /\ (Pending(y, k, "node")' <=> Pending(y, k, "node"))
    BY <2>2, BeginWork DEF Pending
  <2>4. \A y \in Writer : BusyWith(y, k) => rec'[y] = rec[y]
    BY BeginWork
  <2> QED BY <1>1, <2>1, <2>3, <2>4 DEF NodesFollowRows, Pending
<1> QED BY <1>2, <1>3

\* What a transaction does to the writers' work.
LEMMA StepWork ==
    ASSUME TypeInv, NEW x \in Writer, NEW tx, Commits(x, tx)
    PROVE  /\ rec' = rec /\ row' = row /\ torn' = torn
           /\ \A y \in Writer : \A k : BusyWith(y, k)' => BusyWith(y, k)
           /\ \A y \in Writer : \A k, q : Pending(y, k, q)' => Pending(y, k, q)
           /\ \A y \in Writer : \A k, q : Pending(y, k, q) /\ (y # x \/ q # tx) => Pending(y, k, q)'
<1>1. /\ rec' = rec /\ row' = row /\ torn' = torn
      /\ \A y \in Writer : todo'[y] = IF y = x THEN todo[x] \ {tx} ELSE todo[y]
  BY CommitsWork DEF Commits
<1> QED BY <1>1 DEF BusyWith, Busy, Pending, Self, KeyOf

LEMMA StepFollows ==
    ASSUME TypeInv, NodesFollowRows, NEW x \in Writer, Steps(x)
    PROVE  NodesFollowRows'
<1>1. CASE _merge_node_tx(x)
  <2>1. Commits(x, "node") /\ rec[x] \in Record /\ "node" \in todo[x] /\ ~IsEdge(rec[x])
    BY <1>1, CommitsWork, PlanMeans DEF _merge_node_tx, Commits
  <2>2. Self(rec[x]) \in Key /\ Pending(x, Self(rec[x]), "node")
    BY <2>1, RecordKeys DEF Pending, BusyWith, Busy
  <2>3. node' = [node EXCEPT ![Self(rec[x])] = IF rec[x].op = "delete" THEN "deleted" ELSE "live"]
    BY <1>1 DEF _merge_node_tx
  <2>4. rec[x].op \in {"upsert", "delete"}
    BY <2>1, LineageAssumption DEF NodeRecord, EdgeRecord
  <2>5. node'[Self(rec[x])] = "live" <=> rec[x].op = "upsert"
    BY <2>2, <2>3, <2>4 DEF TypeInv, TypeOK
  <2>6. \A k \in Key : k # Self(rec[x]) => node'[k] = node[k] /\ ~Pending(x, k, "node")
    BY <2>3 DEF TypeInv, TypeOK, Pending, BusyWith
  <2>7. ASSUME NEW k \in Key \ torn
        PROVE  (\A y \in Writer : ~Pending(y, k, "node")') => (row[k] = "live" <=> node'[k] = "live")
    <3>1. CASE k = Self(rec[x])
      BY <2>2, <2>5, <3>1 DEF NodesFollowRows
    <3>2. CASE k # Self(rec[x])
      BY <2>1, <2>6, <3>2, StepWork DEF NodesFollowRows
    <3> QED BY <3>1, <3>2
  <2> QED BY <2>1, <2>7, StepWork DEF NodesFollowRows
<1>2. ASSUME NEW tx \in {"parent", "owner", "derive", "job", "tombstone"}, Commits(x, tx),
             \A k \in Key : node'[k] = "live" <=> node[k] = "live"
      PROVE  NodesFollowRows'
  BY <1>2, StepWork DEF NodesFollowRows
<1>3. CASE _link_tx(x)
  BY <1>2, <1>3, MergedType DEF _link_tx, TypeInv
<1>4. CASE _link_owner_tx(x)
  BY <1>2, <1>4, MergedType DEF _link_owner_tx, TypeInv
<1>5. CASE _merge_derives_from_tx(x)
  BY <1>2, <1>5, MergedType DEF _merge_derives_from_tx, TypeInv
<1>6. CASE _merge_job_edges_tx(x)
  BY <1>2, <1>6, MergedType DEF _merge_job_edges_tx, TypeInv
<1>7. CASE _tombstone_lineage_edge_tx(x)
  BY <1>2, <1>7 DEF _tombstone_lineage_edge_tx
<1> QED BY <1>1, <1>3, <1>4, <1>5, <1>6, <1>7 DEF Steps

LEMMA CutFollows ==
    ASSUME TypeInv, NodesFollowRows, NEW x \in Writer, Cut(x)
    PROVE  NodesFollowRows'
<1>1. /\ rec' = rec /\ row' = row /\ node' = node
      /\ todo'[x] = {} /\ \A y \in Writer : y # x => todo'[y] = todo[y]
      /\ torn \subseteq torn'
      /\ ~IsEdge(rec[x]) => Self(rec[x]) \in torn'
  BY DEF Cut, graph, TypeInv, TypeOK
<1>2. ASSUME NEW k \in Key \ torn', NEW y \in Writer
      PROVE  BusyWith(y, k)' <=> BusyWith(y, k)
  BY <1>1, <1>2 DEF BusyWith, Busy, Self, KeyOf
<1>3. ASSUME NEW k \in Key \ torn', NEW y \in Writer
      PROVE  Pending(y, k, "node")' <=> Pending(y, k, "node")
  BY <1>1, <1>2, <1>3 DEF Pending, BusyWith
<1> QED BY <1>1, <1>2, <1>3 DEF NodesFollowRows

LEMMA NextFollows == TypeInv /\ NodesFollowRows /\ [Next]_vars => NodesFollowRows'
<1> SUFFICES ASSUME TypeInv, NodesFollowRows, [Next]_vars PROVE NodesFollowRows'
  OBVIOUS
<1>1. CASE UNCHANGED <<row, graph, rec, todo, torn>>
  BY <1>1 DEF NodesFollowRows, Pending, BusyWith, Busy, Self, KeyOf, graph
<1>2. Read \/ UNCHANGED vars => UNCHANGED <<row, graph, rec, todo, torn>>
  BY DEF Read, get_table_lineage, ReadUpstream, ReadDownstream, vars
<1> QED BY <1>1, <1>2, BeginFollows, StepFollows, CutFollows DEF Next

FollowInv == TenantInv /\ NodesFollowRows

LEMMA FollowInvHolds == Spec => []FollowInv
<1>1. Init => NodesFollowRows
  <2> SUFFICES ASSUME Init PROVE NodesFollowRows
    OBVIOUS
  <2>1. \A x \in Writer, k \in Key : ~BusyWith(x, k)
    BY DEF Init, BusyWith, Busy
  <2>2. \A k \in Key : row[k] = "absent" /\ node[k] = "none"
    BY DEF Init
  <2> QED BY <2>1, <2>2 DEF NodesFollowRows, Pending
<1>2. FollowInv /\ [Next]_vars => FollowInv'
  BY NextTypes, NextTenants, NextFollows DEF FollowInv, TenantInv
<1> QED BY <1>1, <1>2, InitTypes, TenantInvHolds, PTL DEF Spec, FollowInv, TenantInv

\* What a settled key's row says, its node says.
LEMMA SettledAgree ==
    ASSUME FollowInv, NEW k \in Key, Settled(k)
    PROVE  row[k] = "live" <=> node[k] = "live"
BY DEF FollowInv, NodesFollowRows, Settled, Pending

\* An entity whose row is not live, and whose write is through, is in nobody's
\* lineage.
THEOREM TombstonesAreNotServedAlways == Spec => []TombstonesAreNotServed
<1>1. ASSUME FollowInv, NEW k \in Key, Settled(k), row[k] # "live",
             NEW u \in Urn, NEW d \in {"upstream", "downstream"}
      PROVE  <<k.urn, k.label>> \notin Served(k.tenant, u, d)
  <2>1. SUFFICES ASSUME NEW hit \in Traversal(k.tenant, u, d, 1),
                        hit.urn = k.urn, hit.entity_type = k.label
                 PROVE  FALSE
    BY DEF Served
  <2>2. PICK q \in LiveOf(k.tenant) : q.urn = hit.urn /\ q.label = hit.entity_type
    <3>1. Clamp(1) \in Nat /\ LiveOf(k.tenant) \in SUBSET Key
      BY DEF Clamp, _MAX_HOPS_CEILING, LiveOf
    <3> QED BY <2>1, <3>1, TraverseHits DEF Traversal
  <2>3. q = k
    BY <2>1, <2>2 DEF LiveOf, Key
  <2> QED BY <1>1, <2>2, <2>3, SettledAgree DEF LiveOf
<1>2. FollowInv => TombstonesAreNotServed
  BY <1>1 DEF TombstonesAreNotServed
<1> QED BY <1>2, FollowInvHolds, PTL
-----------------------------------------------------------------------------
(* Edges and columns. *)

\* Nodes are never removed, and both ends of an edge are merged with it.
LEMMA StepHasNodes ==
    ASSUME TypeInv, EdgesHaveNodes, NEW x \in Writer, Steps(x)
    PROVE  EdgesHaveNodes'
<1> DEFINE e == EdgeOf(rec[x])
<1>1. \A f \in derives : f.up \in Key /\ f.down \in Key
  BY DEF TypeInv, TypeOK, Edge
<1>2. ASSUME derives' = derives, \A k \in Key : node[k] # "none" => node'[k] # "none"
      PROVE  EdgesHaveNodes'
  BY <1>1, <1>2 DEF EdgesHaveNodes
<1>3. CASE _merge_node_tx(x)
  BY <1>2, <1>3 DEF _merge_node_tx, TypeInv, TypeOK
<1>4. CASE _link_tx(x)
  BY <1>2, <1>4, MergedType DEF _link_tx, TypeInv
<1>5. CASE _link_owner_tx(x)
  BY <1>2, <1>5, MergedType DEF _link_owner_tx, TypeInv
<1>6. CASE _merge_derives_from_tx(x)
  <2>1. e.up \in Key /\ e.down \in Key
    BY <1>6, CommitsWork, PlanMeans, RecordKeys DEF _merge_derives_from_tx, Edge
  <2>2. /\ derives' = derives \cup {e}
        /\ \A k \in Key : k \in {e.up, e.down} \/ node[k] # "none" => node'[k] # "none"
    BY <1>6, MergedType DEF _merge_derives_from_tx, TypeInv
  <2> QED BY <1>1, <2>1, <2>2 DEF EdgesHaveNodes
<1>7. CASE _merge_job_edges_tx(x)
  BY <1>2, <1>7, MergedType DEF _merge_job_edges_tx, TypeInv
<1>8. CASE _tombstone_lineage_edge_tx(x)
  BY <1>2, <1>8 DEF _tombstone_lineage_edge_tx
<1> QED BY <1>3, <1>4, <1>5, <1>6, <1>7, <1>8 DEF Steps

LEMMA EdgesHaveNodesHolds == Spec => []EdgesHaveNodes
<1>1. Init => EdgesHaveNodes
  BY DEF Init, EdgesHaveNodes
<1>2. TenantInv /\ EdgesHaveNodes /\ [Next]_vars => EdgesHaveNodes'
  <2> SUFFICES ASSUME TenantInv, EdgesHaveNodes, [Next]_vars PROVE EdgesHaveNodes'
    OBVIOUS
  <2>1. CASE \E x \in Writer : Steps(x)
    BY <2>1, StepHasNodes DEF TenantInv
  <2>2. CASE \A x \in Writer : ~Steps(x)
    BY <2>2, OthersKeepGraph DEF graph, EdgesHaveNodes
  <2> QED BY <2>1, <2>2
<1> QED BY <1>1, <1>2, TenantInvHolds, PTL DEF Spec

\* A traversal of one hop ends in what is across one relationship.
LEMMA OneHop ==
    ASSUME NEW E, NEW A, NEW d
    PROVE  Reached(E, A, d, 1) = [h \in 0..1 |-> IF h = 0 THEN A ELSE Across(E, A, d)]
<1> DEFINE g == [h \in 0..1 |-> IF h = 0 THEN A ELSE Across(E, A, d)]
           Step(f) == [h \in 0..1 |-> IF h = 0 THEN A ELSE Across(E, f[h - 1], d)]
<1>1. g = Step(g)
  OBVIOUS
<1>2. Reached(E, A, d, 1) = CHOOSE f : f = Step(f)
  BY DEF Reached
<1>3. Reached(E, A, d, 1) = Step(Reached(E, A, d, 1))
  <2> HIDE DEF g, Step
  <2> QED BY <1>1, <1>2
<1>4. ASSUME NEW f, f = Step(f)
      PROVE  f = g
  <2>1. f[0] = A
    BY <1>4
  <2>2. f[1] = Across(E, A, d)
    BY <1>4, <2>1
  <2> QED BY <1>4, <2>1, <2>2
<1> QED BY <1>3, <1>4

LEMMA ServedOneHop ==
    ASSUME NEW t, NEW u, NEW d, NEW k \in LiveOf(t),
           k \in Across(EdgesOf(t), AnchorsOf(t, u), d)
    PROVE  <<k.urn, k.label>> \in Served(t, u, d)
<1> DEFINE reached == Reached(EdgesOf(t), AnchorsOf(t, u), d, 1)
<1>1. Clamp(1) = 1
  BY DEF Clamp, _MAX_HOPS_CEILING
<1>2. reached[1] = Across(EdgesOf(t), AnchorsOf(t, u), d)
  BY OneHop
<1>3. HitOf(k, 1) \in Traversal(t, u, d, 1)
  <2>1. UNION {reached[g] : g \in 1..(1 - 1)} = {}
    OBVIOUS
  <2>2. k \in (LiveOf(t) \cap reached[1]) \ UNION {reached[g] : g \in 1..(1 - 1)}
    BY <1>2, <2>1
  <2>3. HitOf(k, 1) \in _traverse_tx(EdgesOf(t), LiveOf(t), AnchorsOf(t, u), d, 1)
    BY <2>2 DEF _traverse_tx
  <2> QED BY <1>1, <2>3 DEF Traversal
<1> QED BY <1>3 DEF Served, HitOf

\* Whatever the order edges and entities arrive in, both ends of an edge that is
\* not deleted see each other once their own writes are through.
THEOREM SettledEdgesAreServedAlways == Spec => []SettledEdgesAreServed
<1>1. ASSUME FollowInv, EdgesHaveNodes, NEW e \in derives
      PROVE  /\ Settled(e.up) /\ row[e.up] = "live" =>
                  <<e.up.urn, e.up.label>> \in Served(e.tenant, e.down.urn, "upstream")
             /\ Settled(e.down) /\ row[e.down] = "live" =>
                  <<e.down.urn, e.down.label>> \in Served(e.tenant, e.up.urn, "downstream")
  <2>1. /\ e.up \in Key /\ e.down \in Key
        /\ e.up.tenant = e.tenant /\ e.down.tenant = e.tenant
    BY <1>1 DEF FollowInv, TenantInv, TypeInv, TypeOK, Edge, GraphStaysInTenant
  <2>2. /\ e \in EdgesOf(e.tenant)
        /\ e.up \in AnchorsOf(e.tenant, e.up.urn)
        /\ e.down \in AnchorsOf(e.tenant, e.down.urn)
    BY <1>1, <2>1 DEF EdgesOf, AnchorsOf, EdgesHaveNodes
  <2>3. ASSUME Settled(e.up), row[e.up] = "live"
        PROVE  <<e.up.urn, e.up.label>> \in Served(e.tenant, e.down.urn, "upstream")
    <3>1. e.up \in LiveOf(e.tenant)
      BY <1>1, <2>1, <2>3, SettledAgree DEF LiveOf
    <3>2. e.up \in Across(EdgesOf(e.tenant), AnchorsOf(e.tenant, e.down.urn), "upstream")
      BY <2>2 DEF Across
    <3> QED BY <3>1, <3>2, ServedOneHop
  <2>4. ASSUME Settled(e.down), row[e.down] = "live"
        PROVE  <<e.down.urn, e.down.label>> \in Served(e.tenant, e.up.urn, "downstream")
    <3>1. e.down \in LiveOf(e.tenant)
      BY <1>1, <2>1, <2>4, SettledAgree DEF LiveOf
    <3>2. e.down \in Across(EdgesOf(e.tenant), AnchorsOf(e.tenant, e.up.urn), "downstream")
      BY <2>2 DEF Across
    <3> QED BY <3>1, <3>2, ServedOneHop
  <2> QED BY <2>3, <2>4
<1>2. FollowInv /\ EdgesHaveNodes => SettledEdgesAreServed
  BY <1>1 DEF SettledEdgesAreServed
<1> QED BY <1>2, FollowInvHolds, EdgesHaveNodesHolds, PTL

HasTable(k) == \E l \in links : l.rel = "HAS_COLUMN" /\ l.to = k

\* A live column has its table, or a writer is about to give it one.
ColumnsFollowRows ==
    \A k \in Key \ torn : k.label = "column" /\ row[k] = "live" =>
        HasTable(k) \/ \E x \in Writer : Pending(x, k, "parent")

LEMMA BeginColumns ==
    ASSUME ColumnsNameTheirTable, TypeInv, ColumnsFollowRows,
           NEW x \in Writer, NEW r \in Record, Begin(x, r)
    PROVE  ColumnsFollowRows'
<1> SUFFICES ASSUME NEW k \in Key \ torn', k.label = "column", row'[k] = "live"
             PROVE  HasTable(k)' \/ \E y \in Writer : Pending(y, k, "parent")'
  BY DEF ColumnsFollowRows
<1>1. CASE ~IsEdge(r) /\ k = Self(r)
  <2>1. row'[k] = "live" <=> r.op = "upsert"
    BY <1>1, UpsertedRow DEF Begin, TypeInv
  <2>2. r.type = "column"
    BY <1>1 DEF Self, KeyOf
  <2>3. "parent" \in Plan(r)
    BY <1>1, <2>1, <2>2, LineageAssumption DEF Plan, Tx, Raises, ColumnsNameTheirTable
  <2>4. todo'[x] = Plan(r) /\ rec'[x] = r
    BY BeginWork
  <2>5. Pending(x, k, "parent")'
    BY <1>1, <2>3, <2>4 DEF Pending, BusyWith, Busy, Self, KeyOf
  <2> QED BY <2>5
<1>2. CASE IsEdge(r) \/ k # Self(r)
  <2>1. k \notin torn /\ row'[k] = row[k] /\ links' = links
    BY <1>2, UpsertedRow DEF Begin, TypeInv, graph
  <2>2. ASSUME NEW y \in Writer, Pending(y, k, "parent")
        PROVE  Pending(y, k, "parent")'
    BY <2>2, BeginWork DEF Pending
  <2> QED BY <2>1, <2>2 DEF ColumnsFollowRows, HasTable
<1> QED BY <1>1, <1>2

LEMMA StepColumns ==
    ASSUME TypeInv, ColumnsFollowRows, NEW x \in Writer, Steps(x)
    PROVE  ColumnsFollowRows'
<1>1. ASSUME NEW tx \in {"node", "owner", "derive", "job", "tombstone"}, Commits(x, tx),
             links \subseteq links'
      PROVE  ColumnsFollowRows'
  <2>1. \A k : HasTable(k) => HasTable(k)'
    BY <1>1 DEF HasTable
  <2>2. \A y \in Writer : \A k : Pending(y, k, "parent") => Pending(y, k, "parent")'
    BY <1>1, StepWork
  <2>3. row' = row /\ torn' = torn
    BY <1>1, StepWork
  <2> QED BY <2>1, <2>2, <2>3 DEF ColumnsFollowRows
<1>2. CASE _link_tx(x)
  <2>1. Commits(x, "parent")
    BY <1>2 DEF _link_tx
  <2>2. \A k : k = Self(rec[x]) \/ HasTable(k) => HasTable(k)'
    <3> DEFINE l == [rel |-> "HAS_COLUMN", from |-> Parent(rec[x]), to |-> Self(rec[x])]
    <3>1. links' = links \cup {l} /\ l.rel = "HAS_COLUMN" /\ l.to = Self(rec[x])
      BY <1>2 DEF _link_tx
    <3> QED BY <3>1 DEF HasTable
  <2>3. \A y \in Writer : \A k : Pending(y, k, "parent") /\ k # Self(rec[x]) => Pending(y, k, "parent")'
    BY <2>1, StepWork DEF Pending, BusyWith
  <2>4. row' = row /\ torn' = torn
    BY <2>1, StepWork
  <2> QED BY <2>2, <2>3, <2>4 DEF ColumnsFollowRows
<1>3. CASE _merge_node_tx(x)
  BY <1>1, <1>3 DEF _merge_node_tx
<1>4. CASE _link_owner_tx(x)
  BY <1>1, <1>4 DEF _link_owner_tx
<1>5. CASE _merge_derives_from_tx(x)
  BY <1>1, <1>5 DEF _merge_derives_from_tx
<1>6. CASE _merge_job_edges_tx(x)
  BY <1>1, <1>6 DEF _merge_job_edges_tx
<1>7. CASE _tombstone_lineage_edge_tx(x)
  BY <1>1, <1>7 DEF _tombstone_lineage_edge_tx
<1> QED BY <1>2, <1>3, <1>4, <1>5, <1>6, <1>7 DEF Steps

LEMMA CutColumns ==
    ASSUME TypeInv, ColumnsFollowRows, NEW x \in Writer, Cut(x)
    PROVE  ColumnsFollowRows'
<1>1. /\ rec' = rec /\ row' = row /\ links' = links
      /\ \A y \in Writer : y # x => todo'[y] = todo[y]
      /\ torn \subseteq torn'
      /\ ~IsEdge(rec[x]) => Self(rec[x]) \in torn'
  BY DEF Cut, graph, TypeInv, TypeOK
<1>2. ASSUME NEW k \in Key \ torn', NEW y \in Writer, Pending(y, k, "parent")
      PROVE  Pending(y, k, "parent")'
  BY <1>1, <1>2 DEF Pending, BusyWith, Busy, Self, KeyOf
<1> QED BY <1>1, <1>2 DEF ColumnsFollowRows, HasTable

LEMMA NextColumns ==
    ColumnsNameTheirTable /\ TypeInv /\ ColumnsFollowRows /\ [Next]_vars => ColumnsFollowRows'
<1> SUFFICES ASSUME ColumnsNameTheirTable, TypeInv, ColumnsFollowRows, [Next]_vars
             PROVE  ColumnsFollowRows'
  OBVIOUS
<1>1. CASE UNCHANGED <<row, graph, rec, todo, torn>>
  BY <1>1 DEF ColumnsFollowRows, HasTable, Pending, BusyWith, Busy, Self, KeyOf, graph
<1>2. Read \/ UNCHANGED vars => UNCHANGED <<row, graph, rec, todo, torn>>
  BY DEF Read, get_table_lineage, ReadUpstream, ReadDownstream, vars
<1> QED BY <1>1, <1>2, BeginColumns, StepColumns, CutColumns DEF Next

\* Where every column names its table, a live column hangs off one as soon as
\* its write is through: no interleaving of writers leaves it alone.
THEOREM ColumnsAreAttachedAlways == ColumnsNameTheirTable => (Spec => []ColumnsAreAttached)
<1> SUFFICES ASSUME ColumnsNameTheirTable PROVE Spec => []ColumnsAreAttached
  OBVIOUS
<1>1. Init => ColumnsFollowRows
  BY DEF Init, ColumnsFollowRows
<1>2. TypeInv /\ ColumnsFollowRows /\ [Next]_vars => ColumnsFollowRows'
  BY NextColumns
<1>3. ColumnsFollowRows => ColumnsAreAttached
  BY DEF ColumnsFollowRows, ColumnsAreAttached, HasTable, Settled, Pending
<1> QED BY <1>1, <1>2, <1>3, InitTypes, NextTypes, PTL DEF Spec
-----------------------------------------------------------------------------
(* The traversal finds shortest paths: walks and what they reach.          *)

\* Where a relationship is entered and left in direction d.
From(e, d) == IF d = "upstream" THEN e.down ELSE e.up
To(e, d) == IF d = "upstream" THEN e.up ELSE e.down

\* p is a walk of h relationships from A to k; it may repeat some.
Walk(E, A, d, p, h, k) ==
    /\ p \in [1..h -> E]
    /\ \A i \in 1..(h - 1) : To(p[i], d) = From(p[i + 1], d)
    /\ From(p[1], d) \in A
    /\ To(p[h], d) = k

LEMMA ReachedStepwise ==
    ASSUME NEW E, NEW A, NEW d, NEW n \in Nat
    PROVE  Reached(E, A, d, n) =
             [h \in 0..n |-> IF h = 0 THEN A ELSE Across(E, Reached(E, A, d, n)[h - 1], d)]
<1> DEFINE Step(f, m) == [h \in 0..m |-> IF h = 0 THEN A ELSE Across(E, f[h - 1], d)]
           S == {m \in Nat : \E f : f = Step(f, m)}
<1>1. 0 \in S
  <2>1. [h \in 0..0 |-> A] = Step([h \in 0..0 |-> A], 0)
    OBVIOUS
  <2> QED BY <2>1
<1>2. ASSUME NEW m \in Nat, m \in S PROVE m + 1 \in S
  <2>1. PICK f : f = Step(f, m)
    BY <1>2
  <2> DEFINE g == [h \in 0..(m + 1) |-> IF h = m + 1 THEN Across(E, f[m], d) ELSE f[h]]
  <2>2. ASSUME NEW h \in 0..(m + 1) PROVE g[h] = IF h = 0 THEN A ELSE Across(E, g[h - 1], d)
    <3>1. CASE h = m + 1
      BY <3>1
    <3>2. CASE h \in 0..m
      <4>1. g[h] = f[h] /\ f[h] = IF h = 0 THEN A ELSE Across(E, f[h - 1], d)
        BY <2>1, <3>2
      <4>2. h # 0 => g[h - 1] = f[h - 1]
        BY <3>2
      <4> QED BY <4>1, <4>2
    <3> QED BY <3>1, <3>2
  <2>3. g = [h \in 0..(m + 1) |-> g[h]]
    OBVIOUS
  <2>4. g = Step(g, m + 1)
    <3> DEFINE s == Step(g, m + 1)
    <3>1. s = [h \in 0..(m + 1) |-> s[h]]
      OBVIOUS
    <3>2. ASSUME NEW h \in 0..(m + 1) PROVE s[h] = IF h = 0 THEN A ELSE Across(E, g[h - 1], d)
      <4> HIDE DEF g
      <4> QED OBVIOUS
    <3> HIDE DEF g, s
    <3>3. g = s
      BY <2>2, <2>3, <3>1, <3>2
    <3> QED BY <3>3 DEF s
  <2> HIDE DEF g
  <2> QED BY <2>4
<1>3. n \in S
  <2> HIDE DEF S
  <2>1. 0..n \subseteq S
    BY <1>1, <1>2, Stepwise
  <2> QED BY <2>1
<1>4. Reached(E, A, d, n) = CHOOSE f : f = Step(f, n)
  BY DEF Reached
<1>5. Reached(E, A, d, n) = Step(Reached(E, A, d, n), n)
  <2>1. \E f : f = Step(f, n)
    BY <1>3
  <2> HIDE DEF Step
  <2> QED BY <1>4, <2>1
<1> QED BY <1>5

LEMMA AcrossIsOneStep ==
    ASSUME NEW E, NEW S, NEW d, NEW k
    PROVE  k \in Across(E, S, d) <=> \E e \in E : From(e, d) \in S /\ To(e, d) = k
BY DEF Across, From, To

\* What h hops reach is what walks of h relationships end in.
LEMMA WalksReach ==
    ASSUME NEW E, NEW A, NEW d, NEW n \in Nat, NEW h \in 1..n, NEW k
    PROVE  k \in Reached(E, A, d, n)[h] <=> \E p : Walk(E, A, d, p, h, k)
<1> DEFINE reached == Reached(E, A, d, n)
           S == {m \in Nat : m = 0 \/ \A x : x \in reached[m] <=> \E p : Walk(E, A, d, p, m, x)}
<1>1. 0 \in S
  OBVIOUS
<1>2. ASSUME NEW m \in 0..n, m < n, m \in S PROVE m + 1 \in S
  <2>1. reached[m + 1] = Across(E, reached[m], d) /\ reached[0] = A
    <3>1. m + 1 \in 0..n /\ m + 1 # 0 /\ (m + 1) - 1 = m /\ 0 \in 0..n
      BY <1>2
    <3> QED BY <3>1, ReachedStepwise
  <2>2. ASSUME NEW x, x \in reached[m + 1] PROVE \E p : Walk(E, A, d, p, m + 1, x)
    <3>1. PICK e \in E : From(e, d) \in reached[m] /\ To(e, d) = x
      BY <2>1, <2>2, AcrossIsOneStep
    <3>2. CASE m = 0
      <4>1. Walk(E, A, d, [i \in 1..1 |-> e], 1, x)
        BY <2>1, <3>1, <3>2 DEF Walk
      <4> QED BY <3>2, <4>1
    <3>3. CASE m # 0
      <4>1. PICK p : Walk(E, A, d, p, m, From(e, d))
        BY <1>2, <3>1, <3>3
      <4> DEFINE q == [i \in 1..(m + 1) |-> IF i = m + 1 THEN e ELSE p[i]]
      <4>2. q \in [1..(m + 1) -> E]
        BY <4>1 DEF Walk
      <4>3. ASSUME NEW i \in 1..m PROVE To(q[i], d) = From(q[i + 1], d)
        <5>1. CASE i = m
          BY <3>3, <4>1, <5>1 DEF Walk
        <5>2. CASE i \in 1..(m - 1)
          BY <4>1, <5>2 DEF Walk
        <5> QED BY <5>1, <5>2
      <4>4. q[1] = p[1] /\ q[m + 1] = e
        BY <3>3
      <4>5. Walk(E, A, d, q, m + 1, x)
        <5> HIDE DEF q
        <5>1. (m + 1) - 1 = m
          OBVIOUS
        <5> QED BY <3>1, <4>1, <4>2, <4>3, <4>4, <5>1 DEF Walk
      <4> QED BY <4>5
    <3> QED BY <3>2, <3>3
  <2>3. ASSUME NEW x, NEW p, Walk(E, A, d, p, m + 1, x) PROVE x \in reached[m + 1]
    <3>1. p[m + 1] \in E /\ To(p[m + 1], d) = x
      BY <2>3 DEF Walk
    <3>2. From(p[m + 1], d) \in reached[m]
      <4>1. CASE m = 0
        BY <2>1, <2>3, <4>1 DEF Walk
      <4>2. CASE m # 0
        <5>1. Walk(E, A, d, [i \in 1..m |-> p[i]], m, From(p[m + 1], d))
          BY <2>3, <4>2 DEF Walk
        <5> QED BY <1>2, <4>2, <5>1
      <4> QED BY <4>1, <4>2
    <3> QED BY <2>1, <3>1, <3>2, AcrossIsOneStep
  <2> QED BY <2>2, <2>3
<1>3. 0..n \subseteq S
  <2> HIDE DEF S
  <2> QED BY <1>1, <1>2, Stepwise
<1> QED BY <1>3

\* A walk that repeats a relationship has a shortcut.
LEMMA Shortcut ==
    ASSUME NEW E, NEW A, NEW d, NEW p, NEW h \in Nat, NEW k, Walk(E, A, d, p, h, k),
           NEW i \in 1..h, NEW j \in 1..h, i < j, p[i] = p[j]
    PROVE  \E g \in 1..(h - 1) : \E q : Walk(E, A, d, q, g, k)
<1> DEFINE c == j - i
           g == h - c
           q == [m \in 1..g |-> IF m <= i THEN p[m] ELSE p[m + c]]
<1>1. c \in Nat /\ c > 0 /\ g \in 1..(h - 1) /\ i <= g
  OBVIOUS
<1>2. q \in [1..g -> E]
  <2>1. ASSUME NEW m \in 1..g PROVE m \in 1..h /\ m + c \in 1..h
    BY <1>1
  <2> QED BY <2>1 DEF Walk
<1>3. ASSUME NEW m \in 1..(g - 1) PROVE To(q[m], d) = From(q[m + 1], d)
  <2>0. m \in 1..g /\ m + 1 \in 1..g
    BY <1>1
  <2>1. CASE m < i
    <3>1. q[m] = p[m] /\ q[m + 1] = p[m + 1] /\ m \in 1..(h - 1)
      BY <1>1, <2>0, <2>1
    <3> QED BY <3>1 DEF Walk
  <2>2. CASE m = i
    <3>1. q[m] = p[j] /\ q[m + 1] = p[j + 1] /\ j \in 1..(h - 1)
      BY <1>1, <2>0, <2>2
    <3> QED BY <3>1 DEF Walk
  <2>3. CASE m > i
    <3>1. q[m] = p[m + c] /\ q[m + 1] = p[(m + c) + 1] /\ m + c \in 1..(h - 1)
      BY <1>1, <2>0, <2>3
    <3> QED BY <3>1 DEF Walk
  <2> QED BY <2>1, <2>2, <2>3, <1>1
<1>4. q[1] = p[1]
  BY <1>1
<1>5. q[g] = p[h]
  <2>1. CASE g = i
    <3>1. j = h
      BY <1>1, <2>1
    <3> QED BY <1>1, <2>1, <3>1
  <2>2. CASE g > i
    BY <1>1, <2>2
  <2> QED BY <1>1, <2>1, <2>2
<1>6. Walk(E, A, d, q, g, k)
  <2> HIDE DEF q, g
  <2> QED BY <1>2, <1>3, <1>4, <1>5 DEF Walk
<1> QED BY <1>1, <1>6

\* A function on 1..h is a sequence of length h.
LEMMA PathLength ==
    ASSUME NEW E, NEW h \in Nat, NEW p \in [1..h -> E]
    PROVE  Len(p) = h /\ DOMAIN p = 1..h
<1>1. p \in Seq(E)
  BY SeqDef
<1>2. Len(p) \in Nat /\ DOMAIN p = 1..Len(p)
  BY <1>1, LenProperties
<1>3. DOMAIN p = 1..h
  OBVIOUS
<1> QED BY <1>2, <1>3

\* The paths of a query are the walks that repeat nothing.
LEMMA PathIsWalk ==
    ASSUME NEW E, NEW A, NEW d, NEW h \in Nat, h # 0, NEW p \in [1..h -> E], NEW k
    PROVE  Walk(E, A, d, p, h, k) <=> Chained(p, d) /\ Source(p, d) \in A /\ Target(p, d) = k
<1>1. Len(p) = h
  BY PathLength
<1>2. Chained(p, d) <=> \A i \in 1..(h - 1) : To(p[i], d) = From(p[i + 1], d)
  BY <1>1 DEF Chained, To, From
<1>3. Source(p, d) = From(p[1], d) /\ Target(p, d) = To(p[h], d)
  BY <1>1 DEF Source, Target, To, From
<1> QED BY <1>2, <1>3 DEF Walk

\* Repeating nothing, they are no longer than there are relationships.
LEMMA PathsAre ==
    ASSUME NEW E, IsFiniteSet(E), NEW d, NEW p
    PROVE  p \in PathsIn(E, d) <=>
             \E h \in Nat : h # 0 /\ p \in [1..h -> E] /\ RepeatsNone(p) /\ Chained(p, d)
<1>1. Cardinality(E) \in Nat
  BY FS_CardinalityType
<1>2. ASSUME NEW h \in Nat, h # 0, p \in [1..h -> E], RepeatsNone(p)
      PROVE  h \in 1..Cardinality(E)
  <2>1. IsFiniteSet(1..h) /\ Cardinality(1..h) = h
    BY FS_Interval
  <2>2. ~(Cardinality(E) < Cardinality(1..h))
    <3>1. DOMAIN p = 1..h
      BY <1>2, PathLength
    <3>2. ~\E i, j \in 1..h : i # j /\ p[i] = p[j]
      BY <1>2, <3>1 DEF RepeatsNone
    <3> QED BY <1>2, <2>1, <3>2, FS_PigeonHole
  <2> QED BY <1>1, <1>2, <2>1, <2>2
<1>3. \A h \in 1..Cardinality(E) : h \in Nat /\ h # 0
  BY <1>1
<1> QED BY <1>2, <1>3 DEF PathsIn

LEMMA MorePaths ==
    ASSUME NEW F, IsFiniteSet(F), NEW E \in SUBSET F, NEW d
    PROVE  PathsIn(E, d) \subseteq PathsIn(F, d)
<1>1. IsFiniteSet(E)
  BY FS_Subset
<1>2. ASSUME NEW p \in PathsIn(E, d) PROVE p \in PathsIn(F, d)
  <2>1. PICK h \in Nat : h # 0 /\ p \in [1..h -> E] /\ RepeatsNone(p) /\ Chained(p, d)
    BY <1>1, <1>2, PathsAre
  <2>2. p \in [1..h -> F]
    BY <2>1
  <2> QED BY <2>1, <2>2, PathsAre
<1> QED BY <1>2

\* If walks lead to k, a shortest one does, and it is a path.
LEMMA ShortestWalk ==
    ASSUME NEW E, IsFiniteSet(E), NEW A, NEW d, NEW h \in Nat, h # 0, NEW k,
           \E p : Walk(E, A, d, p, h, k)
    PROVE  \E g \in 1..h, p \in PathsIn(E, d) :
             /\ Walk(E, A, d, p, g, k) /\ Len(p) = g
             /\ \A m \in 1..(g - 1) : ~\E q : Walk(E, A, d, q, m, k)
<1> DEFINE S == {m \in Nat : m # 0 /\ \E p : Walk(E, A, d, p, m, k)}
<1>1. h \in S /\ S \in SUBSET Nat
  OBVIOUS
<1>2. PICK g \in S : \A m \in S : g <= m
  <2> HIDE DEF S
  <2> QED BY <1>1, LeastNatural
<1>3. g \in 1..h
  BY <1>1, <1>2
<1>4. \A m \in 1..(g - 1) : ~\E q : Walk(E, A, d, q, m, k)
  BY <1>2
<1>5. PICK p : Walk(E, A, d, p, g, k)
  OBVIOUS
<1> HIDE DEF S
<1>6. p \in [1..g -> E] /\ g \in Nat /\ g # 0
  BY <1>3, <1>5 DEF Walk
<1>7. Len(p) = g /\ DOMAIN p = 1..g
  BY <1>6, PathLength
<1>8. RepeatsNone(p)
  <2>1. ASSUME NEW i \in 1..g, NEW j \in 1..g, i < j, p[i] = p[j] PROVE FALSE
    BY <1>4, <1>5, <1>6, <2>1, Shortcut
  <2>2. \A i, j \in 1..g : i # j => i < j \/ j < i
    BY <1>6
  <2> QED BY <1>7, <2>1, <2>2 DEF RepeatsNone
<1>9. p \in PathsIn(E, d)
  <2>1. Chained(p, d)
    BY <1>5, <1>6, PathIsWalk
  <2> QED BY <1>6, <1>8, <2>1, PathsAre
<1> QED BY <1>3, <1>4, <1>5, <1>7, <1>9

\* What the traversal returns: the nodes of N, by the length of a shortest walk.
LEMMA TraverseMeans ==
    ASSUME NEW E, NEW N, NEW A, NEW d, NEW n \in Nat, NEW hit
    PROVE  hit \in _traverse_tx(E, N, A, d, n) <=>
             \E h \in 1..n, k \in N :
               /\ hit = HitOf(k, h)
               /\ \E p : Walk(E, A, d, p, h, k)
               /\ \A g \in 1..(h - 1) : ~\E p : Walk(E, A, d, p, g, k)
<1> DEFINE reached == Reached(E, A, d, n)
           nearer(h) == UNION {reached[g] : g \in 1..(h - 1)}
<1>1. hit \in _traverse_tx(E, N, A, d, n) <=>
        \E h \in 1..n : \E k \in (N \cap reached[h]) \ nearer(h) : hit = HitOf(k, h)
  BY DEF _traverse_tx
<1>2. ASSUME NEW h \in 1..n, NEW k
      PROVE  /\ k \in reached[h] <=> \E p : Walk(E, A, d, p, h, k)
             /\ k \in nearer(h) <=> \E g \in 1..(h - 1) : \E p : Walk(E, A, d, p, g, k)
  <2>1. \A g \in 1..(h - 1) : g \in 1..n
    OBVIOUS
  <2>2. \A g \in 1..n : k \in reached[g] <=> \E p : Walk(E, A, d, p, g, k)
    BY WalksReach
  <2> HIDE DEF reached
  <2> QED BY <2>1, <2>2
<1> HIDE DEF reached, nearer
<1> QED BY <1>1, <1>2
-----------------------------------------------------------------------------
(* What the endpoint answers. *)

FinitelyMany == IsFiniteSet(derives)

PathInv == TenantInv /\ EdgesHaveNodes /\ FinitelyMany

LEMMA StepDerives ==
    ASSUME [Next]_vars, IsFiniteSet(derives)
    PROVE  derives \subseteq derives' /\ IsFiniteSet(derives')
<1>1. CASE derives' = derives
  BY <1>1
<1>2. CASE \E x \in Writer : _merge_derives_from_tx(x)
  <2>1. PICK e : derives' = derives \cup {e}
    BY <1>2 DEF _merge_derives_from_tx
  <2> QED BY <2>1, FS_AddElement
<1>3. derives' = derives \/ \E x \in Writer : _merge_derives_from_tx(x)
  <2>1. Read \/ UNCHANGED vars => derives' = derives
    BY DEF Read, get_table_lineage, ReadUpstream, ReadDownstream, vars, graph
  <2>2. ASSUME NEW x \in Writer PROVE (\E r \in Record : Begin(x, r)) \/ Cut(x) => derives' = derives
    BY DEF Begin, Cut, graph
  <2>3. ASSUME NEW x \in Writer, Steps(x) PROVE derives' = derives \/ _merge_derives_from_tx(x)
    BY <2>3 DEF Steps, _merge_node_tx, _link_tx, _link_owner_tx, _merge_job_edges_tx,
                _tombstone_lineage_edge_tx
  <2> QED BY <2>1, <2>2, <2>3 DEF Next
<1> QED BY <1>1, <1>2, <1>3

LEMMA PathInvHolds == Spec => []PathInv
<1>1. Init => FinitelyMany
  BY FS_EmptySet DEF Init, FinitelyMany
<1>2. FinitelyMany /\ [Next]_vars => FinitelyMany'
  BY StepDerives DEF FinitelyMany
<1> QED BY <1>1, <1>2, TenantInvHolds, EdgesHaveNodesHolds, PTL DEF Spec, PathInv

LEMMA EdgesOfFinite ==
    ASSUME IsFiniteSet(derives), NEW t
    PROVE  IsFiniteSet(EdgesOf(t))
BY FS_Subset DEF EdgesOf

\* A path of the tenant leads from the anchor if its first relationship is
\* entered at the anchor's URN: that node is there.
LEMMA PathsFromAnchor ==
    ASSUME TypeOK, EdgesHaveNodes, NEW t, NEW u, NEW d, NEW h \in Nat, h # 0,
           NEW p \in [1..h -> EdgesOf(t)]
    PROVE  Source(p, d) \in AnchorsOf(t, u) <=> Source(p, d).urn = u
<1>1. p[1] \in EdgesOf(t)
  OBVIOUS
<1>2. p[1] \in derives /\ p[1] \in Edge
  BY <1>1 DEF EdgesOf, TypeOK
<1>3. p[1].up \in Key /\ p[1].down \in Key
  BY <1>2 DEF Edge
<1>4. node[p[1].up] # "none" /\ node[p[1].down] # "none"
  BY <1>2 DEF EdgesHaveNodes
<1>5. p[1].up.tenant = t /\ p[1].down.tenant = t
  BY <1>1 DEF EdgesOf
<1> QED BY <1>3, <1>4, <1>5 DEF Source, AnchorsOf

LEMMA Clamped == \A n \in 1.._MAX_HOPS_CEILING : Clamp(n) = n /\ n \in Nat
BY DEF Clamp, _MAX_HOPS_CEILING

LEMMA TraversalFindsShortest ==
    ASSUME TypeOK, EdgesHaveNodes, IsFiniteSet(derives),
           NEW t, NEW u, NEW d, NEW n \in 1.._MAX_HOPS_CEILING
    PROVE  TraversalIsShortest(t, u, d, n)
<1> DEFINE E == EdgesOf(t)
           A == AnchorsOf(t, u)
           N == LiveOf(t)
           P == PathsFrom(t, u, d, n)
<1>1. IsFiniteSet(E) /\ n \in Nat /\ Clamp(n) = n
  BY EdgesOfFinite, Clamped
<1>2. ASSUME NEW p, NEW h \in Nat, h # 0, p \in [1..h -> E], NEW k \in N
      PROVE  Walk(E, A, d, p, h, k) <=> Chained(p, d) /\ Source(p, d).urn = u /\ Target(p, d) = k
  <2>1. Source(p, d) \in A <=> Source(p, d).urn = u
    BY <1>2, PathsFromAnchor
  <2> HIDE DEF E, A
  <2> QED BY <1>2, <2>1, PathIsWalk
<1>3. ASSUME NEW p, NEW k \in N
      PROVE  p \in P /\ Target(p, d) = k <=>
               \E h \in 1..n : Walk(E, A, d, p, h, k) /\ RepeatsNone(p) /\ Len(p) = h
  <2>1. p \in P <=> p \in PathsIn(E, d) /\ Source(p, d).urn = u /\ Len(p) <= n /\ Target(p, d) \in N
    BY DEF PathsFrom
  <2> HIDE DEF E, A, N, P
  <2>2. ASSUME p \in P, Target(p, d) = k
        PROVE  \E h \in 1..n : Walk(E, A, d, p, h, k) /\ RepeatsNone(p) /\ Len(p) = h
    <3>1. PICK h \in Nat : h # 0 /\ p \in [1..h -> E] /\ RepeatsNone(p) /\ Chained(p, d)
      BY <1>1, <2>1, <2>2, PathsAre
    <3>2. Len(p) = h
      BY <3>1, PathLength
    <3>3. h \in 1..n
      BY <1>1, <2>1, <2>2, <3>1, <3>2
    <3> QED BY <1>2, <2>1, <2>2, <3>1, <3>2, <3>3
  <2>3. ASSUME NEW h \in 1..n, Walk(E, A, d, p, h, k), RepeatsNone(p), Len(p) = h
        PROVE  p \in P /\ Target(p, d) = k
    <3>1. p \in [1..h -> E] /\ h \in Nat /\ h # 0 /\ h <= n
      BY <1>1, <2>3 DEF Walk
    <3>2. Chained(p, d) /\ Source(p, d).urn = u /\ Target(p, d) = k
      BY <1>2, <2>3, <3>1
    <3>3. p \in PathsIn(E, d)
      BY <1>1, <2>3, <3>1, <3>2, PathsAre
    <3> QED BY <2>1, <2>3, <3>1, <3>2, <3>3
  <2> QED BY <2>2, <2>3
<1>4. ASSUME NEW k \in N, NEW h \in 1..n
      PROVE  (\E p : Walk(E, A, d, p, h, k)) /\ (\A g \in 1..(h - 1) : ~\E p : Walk(E, A, d, p, g, k))
               <=> \E p \in P : /\ Target(p, d) = k /\ Len(p) = h
                                /\ \A r \in P : Target(r, d) = k => Len(p) <= Len(r)
  <2> HIDE DEF E, A, N, P
  <2>1. h \in Nat /\ h # 0
    BY <1>1
  <2>2. ASSUME \E p : Walk(E, A, d, p, h, k), \A g \in 1..(h - 1) : ~\E p : Walk(E, A, d, p, g, k)
        PROVE  \E p \in P : /\ Target(p, d) = k /\ Len(p) = h
                            /\ \A r \in P : Target(r, d) = k => Len(p) <= Len(r)
    <3>1. PICK g \in 1..h, p \in PathsIn(E, d) : Walk(E, A, d, p, g, k) /\ Len(p) = g
      BY <1>1, <2>1, <2>2, ShortestWalk
    <3>2. g = h
      BY <2>1, <2>2, <3>1
    <3>3. RepeatsNone(p)
      BY DEF PathsIn
    <3>4. p \in P /\ Target(p, d) = k
      BY <1>3, <3>1, <3>2, <3>3
    <3>5. ASSUME NEW r \in P, Target(r, d) = k PROVE h <= Len(r)
      <4>1. PICK m \in 1..n : Walk(E, A, d, r, m, k) /\ Len(r) = m
        BY <1>3, <3>5
      <4> QED BY <1>1, <2>1, <2>2, <4>1
    <3> QED BY <3>1, <3>2, <3>4, <3>5
  <2>3. ASSUME NEW p \in P, Target(p, d) = k, Len(p) = h,
               \A r \in P : Target(r, d) = k => Len(p) <= Len(r)
        PROVE  /\ \E q : Walk(E, A, d, q, h, k)
               /\ \A g \in 1..(h - 1) : ~\E q : Walk(E, A, d, q, g, k)
    <3>1. Walk(E, A, d, p, h, k)
      BY <1>3, <2>3
    <3>2. ASSUME NEW g \in 1..(h - 1), \E q : Walk(E, A, d, q, g, k) PROVE FALSE
      <4>0. g \in Nat /\ g # 0
        BY <2>1
      <4>1. PICK m \in 1..g, q \in PathsIn(E, d) : Walk(E, A, d, q, m, k) /\ Len(q) = m
        BY <1>1, <3>2, <4>0, ShortestWalk
      <4>2. RepeatsNone(q) /\ m \in 1..n /\ m < h
        BY <1>1, <2>1 DEF PathsIn
      <4>3. q \in P /\ Target(q, d) = k
        BY <1>3, <4>1, <4>2
      <4> QED BY <1>1, <2>1, <2>3, <4>1, <4>2, <4>3
    <3> QED BY <3>1, <3>2
  <2> QED BY <2>2, <2>3
<1>5. ASSUME NEW p \in P PROVE Target(p, d) \in N /\ Len(p) \in 1..n
  <2>1. Target(p, d) \in N
    BY DEF PathsFrom
  <2> HIDE DEF P, N, E, A
  <2> QED BY <1>3, <2>1
<1>6. ASSUME NEW hit
      PROVE  hit \in Traversal(t, u, d, n) <=> hit \in ShortestHits(P, d)
  <2>1. hit \in Traversal(t, u, d, n) <=>
          \E h \in 1..n, k \in N :
               /\ hit = HitOf(k, h)
               /\ \E p : Walk(E, A, d, p, h, k)
               /\ \A g \in 1..(h - 1) : ~\E p : Walk(E, A, d, p, g, k)
    BY <1>1, TraverseMeans DEF Traversal
  <2>2. hit \in ShortestHits(P, d) <=>
          \E p \in P : /\ hit = HitOf(Target(p, d), Len(p))
                       /\ \A r \in P : Target(r, d) = Target(p, d) => Len(p) <= Len(r)
    BY DEF ShortestHits, HitOf
  <2> HIDE DEF E, A, N, P
  <2>3. hit \in Traversal(t, u, d, n) <=>
          \E h \in 1..n, k \in N : /\ hit = HitOf(k, h)
                                   /\ \E p \in P : /\ Target(p, d) = k /\ Len(p) = h
                                                   /\ \A r \in P : Target(r, d) = k => Len(p) <= Len(r)
    BY <1>4, <2>1
  <2> QED BY <1>5, <2>2, <2>3
<1> HIDE DEF P
<1>7. Traversal(t, u, d, n) = ShortestHits(P, d)
  BY <1>6
<1> QED BY <1>7 DEF TraversalIsShortest, P

\* Lineage is what the paths of the graph lead to, each entity once and with the
\* length of its shortest path: the walks that stop at a node's first level find
\* all of it (graph/store.py:293-306).
THEOREM HopsAreShortestAlways == Spec => []HopsAreShortest
<1>1. PathInv => HopsAreShortest
  <2>1. \A n \in 1..2 : n \in 1.._MAX_HOPS_CEILING
    BY DEF _MAX_HOPS_CEILING
  <2> QED BY <2>1, TraversalFindsShortest DEF PathInv, TenantInv, TypeInv, FinitelyMany, HopsAreShortest
<1> QED BY <1>1, PathInvHolds, PTL

\* The same for any anchor and every number of hops up to the ceiling.
THEOREM LineageIsShortest ==
    Spec => [](\A t, u, d : \A n \in 1.._MAX_HOPS_CEILING : TraversalIsShortest(t, u, d, n))
<1>1. PathInv => \A t, u, d : \A n \in 1.._MAX_HOPS_CEILING : TraversalIsShortest(t, u, d, n)
  BY TraversalFindsShortest DEF PathInv, TenantInv, TypeInv, FinitelyMany
<1> QED BY <1>1, PathInvHolds, PTL

\* Each half of an answer, at whatever time, is explained by the present graph.
Explanations ==
    /\ Explained(ask.tenant, ask.urn, ask.up, "upstream")
    /\ Explained(ask.tenant, ask.urn, ask.down, "downstream")

LEMMA TraversalExplained ==
    ASSUME IsFiniteSet(derives), NEW t, NEW u, NEW d, NEW n \in Nat
    PROVE  Explained(t, u, Traversal(t, u, d, n), d)
<1> DEFINE E == EdgesOf(t)
           A == AnchorsOf(t, u)
           N == LiveOf(t)
<1>1. IsFiniteSet(E) /\ Clamp(n) \in Nat
  BY EdgesOfFinite DEF Clamp, _MAX_HOPS_CEILING
<1>2. ASSUME NEW hit \in Traversal(t, u, d, n)
      PROVE  \E p \in PathsIn(E, d) :
               /\ Source(p, d).urn = u
               /\ Target(p, d) = [tenant |-> t, label |-> hit.entity_type, urn |-> hit.urn]
               /\ Len(p) = hit.hops
  <2>1. PICK h \in 1..Clamp(n), k \in N :
               /\ hit = HitOf(k, h)
               /\ \E p : Walk(E, A, d, p, h, k)
               /\ \A g \in 1..(h - 1) : ~\E p : Walk(E, A, d, p, g, k)
    BY <1>1, <1>2, TraverseMeans DEF Traversal
  <2>2. h \in Nat /\ h # 0
    BY <1>1
  <2>3. k = [tenant |-> t, label |-> hit.entity_type, urn |-> hit.urn] /\ hit.hops = h
    BY <2>1 DEF LiveOf, Key, HitOf
  <2>4. PICK g \in 1..h, p \in PathsIn(E, d) : Walk(E, A, d, p, g, k) /\ Len(p) = g
    <3> HIDE DEF E, A, N
    <3> QED BY <1>1, <2>1, <2>2, ShortestWalk
  <2>5. g = h
    BY <2>1, <2>2, <2>4
  <2>6. Source(p, d) \in A /\ Target(p, d) = k
    <3>1. p \in [1..h -> E]
      BY <2>4, <2>5 DEF Walk
    <3> HIDE DEF E, A
    <3> QED BY <2>2, <2>4, <2>5, <3>1, PathIsWalk
  <2>7. Source(p, d).urn = u
    BY <2>6 DEF AnchorsOf
  <2> QED BY <2>3, <2>4, <2>5, <2>6, <2>7
<1> QED BY <1>2 DEF Explained

\* No write takes a path away.
LEMMA PathsStay ==
    ASSUME [Next]_vars, IsFiniteSet(derives), NEW t, NEW d
    PROVE  PathsIn(EdgesOf(t), d) \subseteq PathsIn(EdgesOf(t)', d)
<1>1. derives \subseteq derives' /\ IsFiniteSet(derives')
  BY StepDerives
<1>2. EdgesOf(t) \subseteq EdgesOf(t)' /\ IsFiniteSet(EdgesOf(t)')
  BY <1>1, FS_Subset DEF EdgesOf
<1> QED BY <1>2, MorePaths

LEMMA NextExplanations == PathInv /\ Explanations /\ [Next]_vars => Explanations'
<1> SUFFICES ASSUME PathInv, Explanations, [Next]_vars PROVE Explanations'
  OBVIOUS
<1>0. TypeOK /\ IsFiniteSet(derives) /\ IsFiniteSet(derives')
  BY StepDerives DEF PathInv, TenantInv, TypeInv, FinitelyMany
<1>1. CASE UNCHANGED ask
  <2> DEFINE F == {e \in derives' : e.up.tenant = ask.tenant /\ e.down.tenant = ask.tenant}
  <2>1. ASSUME NEW d PROVE PathsIn(EdgesOf(ask.tenant), d) \subseteq PathsIn(F, d)
    <3>1. \A t : PathsIn({e \in derives : e.up.tenant = t /\ e.down.tenant = t}, d)
                   \subseteq PathsIn({e \in derives' : e.up.tenant = t /\ e.down.tenant = t}, d)
      BY <1>0, PathsStay DEF EdgesOf
    <3> QED BY <3>1 DEF EdgesOf
  <2>2. EdgesOf(ask.tenant)' = F
    BY <1>1 DEF EdgesOf
  <2> HIDE DEF F
  <2>3. ASSUME NEW d PROVE PathsIn(EdgesOf(ask.tenant), d) \subseteq PathsIn(EdgesOf(ask.tenant)', d)
    BY <2>1, <2>2
  <2> QED BY <1>1, <2>3 DEF Explanations, Explained
<1>2. CASE \E q \in Asked : get_table_lineage(q)
  <2>1. ask'.up = {} /\ ask'.down = {}
    BY <1>2 DEF get_table_lineage
  <2> QED BY <2>1 DEF Explanations, Explained
<1>3. CASE ReadUpstream
  <2>1. /\ ask'.up = Traversal(ask.tenant, ask.urn, "upstream", ask.max_hops)
        /\ ask'.tenant = ask.tenant /\ ask'.urn = ask.urn /\ ask'.down = ask.down
        /\ ask.max_hops \in Nat
    BY <1>0, <1>3 DEF ReadUpstream, TypeOK, Request
  <2>2. Explained(ask.tenant, ask.urn, ask'.up, "upstream")
    BY <1>0, <2>1, TraversalExplained
  <2>3. derives' = derives
    BY <1>3 DEF ReadUpstream, graph
  <2> QED BY <2>1, <2>2, <2>3 DEF Explanations, Explained, EdgesOf
<1>4. CASE ReadDownstream
  <2>1. /\ ask'.down = Traversal(ask.tenant, ask.urn, "downstream", ask.max_hops)
        /\ ask'.tenant = ask.tenant /\ ask'.urn = ask.urn /\ ask'.up = ask.up
        /\ ask.max_hops \in Nat
    BY <1>0, <1>4 DEF ReadDownstream, TypeOK, Request
  <2>2. Explained(ask.tenant, ask.urn, ask'.down, "downstream")
    BY <1>0, <2>1, TraversalExplained
  <2>3. derives' = derives
    BY <1>4 DEF ReadDownstream, graph
  <2> QED BY <2>1, <2>2, <2>3 DEF Explanations, Explained, EdgesOf
<1>5. UNCHANGED ask \/ Read
  BY DEF Next, vars, Begin, Steps, Cut, Commits, _merge_node_tx, _link_tx, _link_owner_tx,
         _merge_derives_from_tx, _merge_job_edges_tx, _tombstone_lineage_edge_tx
<1> QED BY <1>1, <1>2, <1>3, <1>4, <1>5 DEF Read

\* Although the two directions of an answer are read in two transactions, with
\* writes in between, the graph of the moment the answer is given explains both.
THEOREM AnswersAreOfOneGraphAlways == Spec => []AnswersAreOfOneGraph
<1>1. Init => Explanations
  BY DEF Init, NoRequest, Explanations, Explained
<1>2. PathInv /\ Explanations /\ [Next]_vars => Explanations'
  BY NextExplanations
<1>3. Explanations => AnswersAreOfOneGraph
  BY DEF Explanations, AnswersAreOfOneGraph
<1> QED BY <1>1, <1>2, <1>3, PathInvHolds, PTL DEF Spec
=============================================================================
