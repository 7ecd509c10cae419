-------------------------------- MODULE Agent --------------------------------
(***************************************************************************)
(* The data plane agent: one process that, cycle after cycle, retries its  *)
(* dead letters and then scrapes each source connection, pushing what it   *)
(* finds in batches and saving the connection's cursor at the end.         *)
(*                                                                         *)
(* Around it: the sources, which change at any moment, and the ingest API  *)
(* as the agent sees it.  A request may be lost, be answered too late, be  *)
(* broken off half done or be refused; the process may be killed between   *)
(* any two steps and comes back with what it left on disk.  Entities of a  *)
(* batch have distinct URNs, so a batch is a set and its order is left out. *)
(***************************************************************************)
EXTENDS Naturals, FiniteSets

CONSTANTS Source,       \* source connections
          Urn, Hash,
          NoHash,       \* nothing there
          SourceOf,     \* [Urn -> Source]
          Invalid,      \* URNs whose upsert the agent's own validation drops
          Rejected,     \* URNs whose upsert the API rejects, entity by entity
          BatchId,
          NoBatch,
          MaxBatch,     \* max_batch_entities
          MaxAttempts,  \* retry_max_attempts
          MaxDrift,     \* bound on the changes of the sources
          MaxFaults,    \* bound on failing attempts to push
          MaxCrashes    \* bound on killed processes and failing sources

Entity == [urn : Urn, op : {"upsert", "delete"}, hash : Hash \cup {NoHash}]

Batch == [id : BatchId, ents : SUBSET Entity]

ASSUME AgentAssumption ==
    /\ NoHash \notin Hash
    /\ NoBatch \notin Batch
    /\ SourceOf \in [Urn -> Source]
    /\ Invalid \subseteq Urn /\ Rejected \subseteq Urn
    /\ MaxBatch \in Nat \ {0} /\ MaxAttempts \in Nat \ {0}
    /\ MaxDrift \in Nat /\ MaxFaults \in Nat /\ MaxCrashes \in Nat

VARIABLES src,      \* what each source holds, by URN
          cursor,   \* on disk: the URNs each connection's cursor knows
          dead,     \* on disk: the dead-letter queue
          m,        \* memory of the agent process
          catalog,  \* the catalog, through the ingest API
          done,     \* idempotency records of the API, by batch_id
          wire,     \* requests the agent gave up waiting for, still under way
          owed,     \* valid entities of finished scrapes that no 202 covers yet
          drift, faults, crashes

disk == <<cursor, dead>>
server == <<catalog, done, wire>>
counts == <<drift, faults, crashes>>
vars == <<src, disk, m, server, owed, counts>>

C == INSTANCE Catalog
-----------------------------------------------------------------------------
Pcs == {"idle", "retry", "next", "scan", "push", "acked", "refused", "failed"}

\* todo: dead letters still to retry; agenda: connections still to scrape; sc:
\* the one being scraped; known: its cursor in memory; left, vanished: URNs to
\* look at, and found missing; out, tries, back: the batch being pushed, the
\* attempts so far and where to go on; sent: entities emitted without a 202.
Memory == [pc : Pcs, todo : SUBSET Batch, agenda : SUBSET Source, sc : SUBSET Source,
           known : SUBSET Urn, left : SUBSET Urn, vanished : SUBSET Urn,
           buffer : SUBSET Entity, out : Batch \cup {NoBatch}, tries : Nat,
           back : {"retry", "scan"}, sent : SUBSET Entity]

Asleep == [pc |-> "idle", todo |-> {}, agenda |-> {}, sc |-> {}, known |-> {}, left |-> {},
           vanished |-> {}, buffer |-> {}, out |-> NoBatch, tries |-> 0,
           back |-> "retry", sent |-> {}]

TypeOK ==
    /\ src \in [Urn -> Hash \cup {NoHash}]
    /\ cursor \in [Source -> SUBSET Urn]
    /\ dead \subseteq Batch
    /\ m \in Memory
    /\ catalog \in [Urn -> C!Copy]
    /\ done \subseteq BatchId
    /\ wire \subseteq Batch
    /\ owed \subseteq Entity
    /\ drift \in Nat /\ faults \in Nat /\ crashes \in Nat
    /\ m.pc \in {"push", "acked", "refused", "failed"} => m.out \in Batch

Init ==
    /\ src \in [Urn -> Hash \cup {NoHash}]
    /\ cursor = [s \in Source |-> {}]
    /\ dead = {}
    /\ m = Asleep
    /\ C!Init
    /\ done = {} /\ wire = {} /\ owed = {}
    /\ drift = 0 /\ faults = 0 /\ crashes = 0

At(pc) == m.pc = pc
-----------------------------------------------------------------------------
(* The cycle. *)

\* A cycle begins with the dead letters that are on disk at that moment.
StartCycle ==
    /\ At("idle")
    /\ m' = [m EXCEPT !.pc = "retry", !.todo = dead]
    /\ UNCHANGED <<src, disk, server, owed, counts>>

\* Mutant: the dead letter is pushed without having been loaded.
RetryUnloaded ==
    /\ At("retry")
    /\ \E b \in m.todo : m' = [m EXCEPT !.pc = "push", !.todo = @ \ {b}, !.back = "retry"]
    /\ UNCHANGED <<src, disk, server, owed, counts>>

\* Files are named by batch_id, a random uuid: any order.
RetryDeadLetter ==
    /\ At("retry")
    /\ \E b \in m.todo :
         m' = [m EXCEPT !.pc = "push", !.todo = @ \ {b}, !.out = b, !.tries = 0, !.back = "retry"]
    /\ UNCHANGED <<src, disk, server, owed, counts>>

StartSources ==
    /\ At("retry")
    /\ m.todo = {}
    /\ m' = [m EXCEPT !.pc = "next", !.agenda = Source]
    /\ UNCHANGED <<src, disk, server, owed, counts>>

\* A fresh connector and batcher; the cursor comes from disk.
StartSource ==
    /\ At("next")
    /\ \E s \in m.agenda :
         m' = [m EXCEPT !.pc = "scan", !.agenda = @ \ {s}, !.sc = {s}, !.known = cursor[s],
                        !.left = {u \in Urn : SourceOf[u] = s}, !.vanished = {},
                        !.buffer = {}, !.sent = {}]
    /\ UNCHANGED <<src, disk, server, owed, counts>>

EndCycle ==
    /\ At("next")
    /\ m.agenda = {}
    /\ m' = Asleep
    /\ UNCHANGED <<src, disk, server, owed, counts>>
-----------------------------------------------------------------------------
(* Scraping one source connection. *)

Held == {b.id : b \in dead \cup wire}

\* A batch_id is a fresh uuid: one no batch that could still be sent carries.
\* What the API recorded under it belonged to a batch nobody holds any more.
Fresh == CHOOSE i \in BatchId : i \notin Held

\* Mutant: the closed batch stays in the buffer.
CloseKept(n) ==
    /\ BatchId \ Held # {}
    /\ m' = [n EXCEPT !.pc = "push", !.out = [id |-> Fresh, ents |-> n.buffer],
                      !.tries = 0, !.back = "scan"]
    /\ done' = done \ {Fresh}

Close(n) ==
    /\ BatchId \ Held # {}
    /\ m' = [n EXCEPT !.pc = "push", !.out = [id |-> Fresh, ents |-> n.buffer],
                      !.tries = 0, !.back = "scan", !.buffer = {}]
    /\ done' = done \ {Fresh}

\* Validation, then the batcher: a batch closes when it is full or, whatever
\* its size, when it has been open for the flush interval.
Emit(n, e) ==
    LET kept == [n EXCEPT !.buffer = @ \cup {e}, !.sent = @ \cup {e}] IN
    \/ /\ e.op = "upsert" /\ e.urn \in Invalid
       /\ m' = n
       /\ UNCHANGED done
    \/ /\ e.op = "delete" \/ e.urn \notin Invalid
       /\ Cardinality(kept.buffer) < MaxBatch
       /\ m' = kept
       /\ UNCHANGED done
    \/ /\ e.op = "delete" \/ e.urn \notin Invalid
       /\ Close(kept)

\* What a connector makes of an entity it meets, and of one that vanished.
Found(u) == [urn |-> u, op |-> "upsert", hash |-> src[u]]

Gone(u) == [urn |-> u, op |-> "delete", hash |-> NoHash]

\* The connector meets an entity: its cursor records it before anything is
\* validated or pushed.
Scan ==
    /\ At("scan")
    /\ \E u \in m.left :
         /\ src[u] # NoHash
         /\ Emit([m EXCEPT !.left = @ \ {u}, !.known = @ \cup {u}], Found(u))
    /\ UNCHANGED <<src, disk, catalog, wire, owed, counts>>

\* Mutant: the cursor forgets what it misses before there is a tombstone.
MissForgotten ==
    /\ At("scan")
    /\ \E u \in m.left : src[u] = NoHash /\ m' = [m EXCEPT !.left = @ \ {u}, !.known = @ \ {u}]
    /\ UNCHANGED <<src, disk, server, owed, counts>>

\* Mutant: what is missing is left alone.
MissIgnored ==
    /\ At("scan")
    /\ \E u \in m.left : src[u] = NoHash /\ m' = [m EXCEPT !.left = @ \ {u}]
    /\ UNCHANGED <<src, disk, server, owed, counts>>

\* An entity the cursor knows is not there any more.
Miss ==
    /\ At("scan")
    /\ \E u \in m.left :
         /\ src[u] = NoHash
         /\ m' = [m EXCEPT !.left = @ \ {u}, !.vanished = @ \cup (m.known \cap {u})]
    /\ UNCHANGED <<src, disk, server, owed, counts>>

\* Once everything has been looked at, what vanished is tombstoned, and the
\* cursor forgets it there and then.
Tombstone ==
    /\ At("scan")
    /\ m.left = {}
    /\ \E u \in m.vanished :
         Emit([m EXCEPT !.vanished = @ \ {u}, !.known = @ \ {u}], Gone(u))
    /\ UNCHANGED <<src, disk, catalog, wire, owed, counts>>

Scraped == At("scan") /\ m.left = {} /\ m.vanished = {}

Flush ==
    /\ Scraped
    /\ m.buffer # {}
    /\ Close(m)
    /\ UNCHANGED <<src, disk, catalog, wire, owed, counts>>

\* Mutant: the cursor is saved before the last batch is flushed.
SaveEarly ==
    /\ Scraped
    /\ cursor' = [s \in Source |-> IF s \in m.sc THEN m.known ELSE cursor[s]]
    /\ owed' = owed \cup m.sent
    /\ m' = [m EXCEPT !.pc = "next", !.sc = {}, !.known = {}, !.sent = {}]
    /\ UNCHANGED <<src, dead, server, counts>>

Save ==
    /\ Scraped
    /\ m.buffer = {}
    /\ cursor' = [s \in Source |-> IF s \in m.sc THEN m.known ELSE cursor[s]]
    /\ owed' = owed \cup m.sent
    /\ m' = [m EXCEPT !.pc = "next", !.sc = {}, !.known = {}, !.sent = {}]
    /\ UNCHANGED <<src, dead, server, counts>>
-----------------------------------------------------------------------------
(* Pushing one batch. *)

Accepts(e) == e.op = "delete" \/ e.urn \notin Rejected

\* Mutant: one rejected entity sinks its batch.
AppliedWhole(es) ==
    IF \A e \in es : Accepts(e)
    THEN [u \in Urn |->
            IF \E e \in es : e.urn = u
            THEN LET e == CHOOSE e \in es : e.urn = u
                 IN  IF e.op = "upsert" THEN C!Upserted(e.hash) ELSE C!Tombstoned(catalog[u])
            ELSE catalog[u]]
    ELSE catalog

\* The catalog after the accepted entities among es have been fanned out.
Applied(es) ==
    [u \in Urn |->
        IF \E e \in es : e.urn = u /\ Accepts(e)
        THEN LET e == CHOOSE e \in es : e.urn = u /\ Accepts(e)
             IN  IF e.op = "upsert" THEN C!Upserted(e.hash) ELSE C!Tombstoned(catalog[u])
        ELSE catalog[u]]

\* The API takes a request: it answers from its record or processes the batch.
Process(b) ==
    /\ catalog' = IF b.id \in done THEN catalog ELSE Applied(b.ents)
    /\ done' = done \cup {b.id}

\* 202: the agent has the answer, whatever it rejects.
Answered ==
    /\ At("push")
    /\ Process(m.out)
    /\ m' = [m EXCEPT !.pc = "acked", !.sent = @ \ m.out.ents]
    /\ owed' = owed \ m.out.ents
    /\ UNCHANGED <<src, disk, wire, counts>>

\* 4xx: not tried again in this push.
Refused ==
    /\ At("push")
    /\ faults < MaxFaults
    /\ m' = [m EXCEPT !.pc = "refused"]
    /\ faults' = faults + 1
    /\ UNCHANGED <<src, disk, server, owed, drift, crashes>>

\* A failed attempt: again after the backoff, until there are MaxAttempts.
Attempt ==
    /\ faults < MaxFaults
    /\ m' = [m EXCEPT !.tries = @ + 1,
                      !.pc = IF m.tries + 1 < MaxAttempts THEN "push" ELSE "failed"]
    /\ faults' = faults + 1

\* Connection error or timeout: the request is lost, or still under way.
TimedOut ==
    /\ At("push")
    /\ Attempt
    /\ wire' \in {wire, wire \cup {m.out}}
    /\ UNCHANGED <<src, disk, catalog, done, owed, drift, crashes>>

\* 5xx: the fan-out stopped anywhere in the batch and nothing is recorded.
Broken ==
    /\ At("push")
    /\ Attempt
    /\ m.out.id \notin done
    /\ \E es \in SUBSET m.out.ents : catalog' = Applied(es)
    /\ UNCHANGED <<src, disk, done, wire, owed, drift, crashes>>

\* Mutant: the file of a dead letter is never removed.
SettleKept ==
    /\ At("acked")
    /\ m' = [m EXCEPT !.pc = m.back, !.out = NoBatch]
    /\ UNCHANGED <<src, disk, server, owed, counts>>

\* Success: a dead letter leaves the queue.
Settle ==
    /\ At("acked")
    /\ dead' = IF m.back = "retry" THEN dead \ {m.out} ELSE dead
    /\ m' = [m EXCEPT !.pc = m.back, !.out = NoBatch]
    /\ UNCHANGED <<src, cursor, server, owed, counts>>

\* Failure: a new batch joins the queue, whether it was refused or ran out of
\* attempts; a dead letter stays in it.
GiveUp ==
    /\ At("refused") \/ At("failed")
    /\ dead' = IF m.back = "scan" THEN dead \cup {m.out} ELSE dead
    /\ m' = [m EXCEPT !.pc = m.back, !.out = NoBatch]
    /\ UNCHANGED <<src, cursor, server, owed, counts>>
-----------------------------------------------------------------------------
(* What goes wrong around the cycle. *)

\* The source fails under the connector, or the disk under the cursor or the
\* dead-letter queue: the connection's scrape is over, and what it had not
\* pushed is gone; the cycle goes on with the next connection.
SourceFails ==
    /\ At("scan") \/ (m.pc \in {"refused", "failed"} /\ m.back = "scan")
    /\ crashes < MaxCrashes
    /\ m' = [Asleep EXCEPT !.pc = "next", !.agenda = m.agenda]
    /\ crashes' = crashes + 1
    /\ UNCHANGED <<src, disk, server, owed, drift, faults>>

Crash ==
    /\ ~At("idle")
    /\ crashes < MaxCrashes
    /\ m' = Asleep
    /\ crashes' = crashes + 1
    /\ UNCHANGED <<src, disk, server, owed, drift, faults>>

\* A request nobody waits for any more reaches the API.
Late ==
    /\ \E b \in wire : Process(b) /\ wire' = wire \ {b}
    /\ UNCHANGED <<src, disk, m, owed, counts>>

\* The API restarts without its idempotency records.
Forget ==
    /\ crashes < MaxCrashes
    /\ done # {}
    /\ done' = {}
    /\ crashes' = crashes + 1
    /\ UNCHANGED <<src, disk, m, catalog, wire, owed, drift, faults>>

\* Someone creates, alters or drops an entity at a source.
Drift ==
    /\ drift < MaxDrift
    /\ \E u \in Urn, h \in Hash \cup {NoHash} : h # src[u] /\ src' = [src EXCEPT ![u] = h]
    /\ drift' = drift + 1
    /\ UNCHANGED <<disk, m, server, owed, faults, crashes>>
-----------------------------------------------------------------------------
Cycle == StartCycle \/ RetryDeadLetter \/ StartSources \/ StartSource \/ EndCycle

Scrape == Scan \/ Miss \/ Tombstone \/ Flush \/ Save

Push == Answered \/ Refused \/ TimedOut \/ Broken \/ Settle \/ GiveUp

Next == Cycle \/ Scrape \/ Push \/ SourceFails \/ Crash \/ Late \/ Forget \/ Drift

Spec == Init /\ [][Next]_vars

\* The scheduler starts the next cycle after the last one and the agent never
\* waits for anything but the answer to a push, which has a timeout.
FairSpec == Spec /\ WF_vars(Cycle \/ Scrape \/ Push)
-----------------------------------------------------------------------------
(* What must hold. *)

Live(u) == catalog[u].state = "live"

\* Once a scrape has saved its cursor, every valid entity it emitted has been
\* answered 202 or is in a dead letter on disk, whatever pushes failed, processes
\* were killed and answers were lost: the cursor is saved last (runner.py:106-118)
\* and a dead letter leaves the queue only after its 202 (runner.py:73-87).
NothingLost == \A e \in owed : \E b \in dead : e \in b.ents

\* With nothing under way, an entity the catalog shows as live is one some
\* cursor knows, so that dropping it at the source is noticed and tombstoned
\* (base.py:32-37: discover() reports "anything the cursor previously saw but
\* that vanished").
LiveIsWatched ==
    At("idle") /\ dead = {} /\ wire = {} =>
        \A u \in Urn : Live(u) => u \in cursor[SourceOf[u]]

\* A cycle always ends: attempts, dead letters and entities all run out.
CyclesEnd == []<>At("idle")

\* When the sources and the faults come to rest, so does the queue.
QueueDrains == <>[](dead = {})

\* When the sources and the faults come to rest, the catalog shows every valid
\* entity that exists, with its present content, whatever stale dead letters and
\* late requests were applied in between: every cycle emits everything again.
PresentConverges ==
    <>[](\A u \in Urn \ (Invalid \cup Rejected) :
            src[u] # NoHash => catalog[u] = C!Upserted(src[u]))

\* When the sources come to rest the catalog shows nothing that is gone.
GoneConverges == <>[](\A u \in Urn : src[u] = NoHash => ~Live(u))
=============================================================================
