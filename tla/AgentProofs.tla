----------------------------- MODULE AgentProofs -----------------------------
(***************************************************************************)
(* Theorems about the data plane agent, for every set of sources, URNs,    *)
(* hashes and batch identifiers, and every number of changes, faults and   *)
(* crashes.                                                                *)
(***************************************************************************)
EXTENDS Agent, TLAPS
-----------------------------------------------------------------------------
(* Type correctness. *)

LEMMA CopyTypes ==
    ASSUME NEW h \in Hash \cup {NoHash}, NEW c \in C!Copy
    PROVE  C!Absent \in C!Copy /\ C!Upserted(h) \in C!Copy /\ C!Tombstoned(c) \in C!Copy
BY DEF C!Copy, C!States, C!Absent, C!Upserted, C!Tombstoned

LEMMA AppliedType ==
    ASSUME catalog \in [Urn -> C!Copy], NEW es \in SUBSET Entity
    PROVE  Applied(es) \in [Urn -> C!Copy]
<1>1. ASSUME NEW u \in Urn, \E e \in es : e.urn = u /\ Accepts(e)
      PROVE  LET e == CHOOSE e \in es : e.urn = u /\ Accepts(e)
             IN  (IF e.op = "upsert" THEN C!Upserted(e.hash) ELSE C!Tombstoned(catalog[u])) \in C!Copy
  <2> DEFINE e == CHOOSE e \in es : e.urn = u /\ Accepts(e)
  <2>1. e \in es
    BY <1>1
  <2>2. e.hash \in Hash \cup {NoHash}
    BY <2>1 DEF Entity
  <2> QED BY <2>2, CopyTypes
<1> QED BY <1>1 DEF Applied

LEMMA AsleepType == Asleep \in Memory
BY DEF Asleep, Memory, Pcs

LEMMA ProcessType ==
    ASSUME TypeOK, NEW b \in Batch, Process(b)
    PROVE  catalog' \in [Urn -> C!Copy] /\ done' \subseteq BatchId
BY AppliedType DEF Process, TypeOK, Batch

\* Closing a batch takes an identifier that is free.
LEMMA CloseType ==
    ASSUME TypeOK, NEW n \in Memory, Close(n)
    PROVE  /\ m' \in Memory
           /\ m'.pc = "push" /\ m'.out \in Batch /\ m'.back = "scan"
           /\ m'.buffer = {} /\ m'.out.ents = n.buffer
           /\ m'.sent = n.sent /\ m'.known = n.known /\ m'.sc = n.sc /\ m'.left = n.left
           /\ m'.vanished = n.vanished /\ m'.todo = n.todo
           /\ m'.out.id \notin done' /\ done' \subseteq BatchId
<1>1. Fresh \in BatchId
  BY DEF Fresh, Close
<1>2. [id |-> Fresh, ents |-> n.buffer] \in Batch
  BY <1>1 DEF Memory, Batch
<1> QED BY <1>2 DEF Close, TypeOK, Memory, Pcs

\* What emitting one entity makes of the agent's memory.
LEMMA EmitType ==
    ASSUME TypeOK, NEW n \in Memory, NEW e \in Entity, n.pc = "scan", Emit(n, e)
    PROVE  /\ m' \in Memory
           /\ done' \subseteq BatchId
           /\ m'.pc \in {"scan", "push"}
           /\ m'.pc = "push" => m'.out \in Batch
<1> DEFINE kept == [n EXCEPT !.buffer = @ \cup {e}, !.sent = @ \cup {e}]
<1>1. kept \in Memory /\ kept.pc = "scan"
  BY DEF Memory
<1>2. CASE m' = n /\ UNCHANGED done
  BY <1>2 DEF TypeOK
<1>3. CASE m' = kept /\ UNCHANGED done
  BY <1>1, <1>3 DEF TypeOK
<1>4. CASE Close(kept)
  <2> HIDE DEF kept
  <2> QED BY <1>1, <1>4, CloseType
<1> QED BY <1>2, <1>3, <1>4 DEF Emit

\* What a scan or a tombstone emits is an entity, and the agent is ready for it.
LEMMA SeenType ==
    ASSUME TypeOK, NEW u \in m.left, src[u] # NoHash
    PROVE  /\ [m EXCEPT !.left = @ \ {u}, !.known = @ \cup {u}] \in Memory
           /\ Found(u) \in Entity /\ Found(u).urn = u /\ Found(u).op = "upsert"
BY DEF TypeOK, Memory, Entity, Found

LEMMA VanishedType ==
    ASSUME TypeOK, NEW u \in m.vanished
    PROVE  /\ [m EXCEPT !.vanished = @ \ {u}, !.known = @ \ {u}] \in Memory
           /\ Gone(u) \in Entity /\ Gone(u).urn = u /\ Gone(u).op = "delete"
BY DEF TypeOK, Memory, Entity, Gone

LEMMA TypeInit == Init => TypeOK
<1> SUFFICES ASSUME Init PROVE TypeOK
  OBVIOUS
<1>1. catalog \in [Urn -> C!Copy]
  BY DEF Init, C!Init, C!Absent, C!Copy, C!States
<1> QED BY <1>1, AsleepType DEF Init, TypeOK, Asleep

LEMMA TypeStep == ASSUME TypeOK, [Next]_vars PROVE TypeOK'
<1> USE AgentAssumption DEF disk, server, counts
<1>1. CASE StartCycle
  BY <1>1 DEF StartCycle, At, TypeOK, Memory, Pcs
<1>2. CASE RetryDeadLetter
  <2> PICK b \in m.todo :
        m' = [m EXCEPT !.pc = "push", !.todo = @ \ {b}, !.out = b, !.tries = 0, !.back = "retry"]
    BY <1>2 DEF RetryDeadLetter
  <2>1. m' \in Memory /\ m'.out \in Batch
    BY DEF TypeOK, Memory, Pcs
  <2> QED BY <1>2, <2>1 DEF RetryDeadLetter, TypeOK
<1>3. CASE StartSources
  BY <1>3 DEF StartSources, At, TypeOK, Memory, Pcs
<1>4. CASE StartSource
  <2> PICK s \in m.agenda :
        m' = [m EXCEPT !.pc = "scan", !.agenda = @ \ {s}, !.sc = {s}, !.known = cursor[s],
                       !.left = {u \in Urn : SourceOf[u] = s}, !.vanished = {},
                       !.buffer = {}, !.sent = {}]
    BY <1>4 DEF StartSource
  <2>1. s \in Source /\ cursor[s] \in SUBSET Urn /\ {u \in Urn : SourceOf[u] = s} \in SUBSET Urn
    BY DEF TypeOK, Memory
  <2>2. m' \in Memory /\ m'.pc = "scan"
    BY <2>1 DEF TypeOK, Memory, Pcs
  <2> QED BY <1>4, <2>2 DEF StartSource, TypeOK
<1>5. CASE EndCycle
  BY <1>5, AsleepType DEF EndCycle, TypeOK, Asleep
<1>6. CASE Scan
  <2> PICK u \in m.left :
        /\ src[u] # NoHash
        /\ Emit([m EXCEPT !.left = @ \ {u}, !.known = @ \cup {u}], Found(u))
    BY <1>6 DEF Scan
  <2> DEFINE n == [m EXCEPT !.left = @ \ {u}, !.known = @ \cup {u}]
  <2>1. n \in Memory /\ n.pc = "scan"
    BY <1>6, SeenType DEF Scan, At, TypeOK, Memory
  <2> HIDE DEF n
  <2>2. m' \in Memory /\ done' \subseteq BatchId /\ m'.pc \in {"scan", "push"}
          /\ (m'.pc = "push" => m'.out \in Batch)
    BY <2>1, SeenType, EmitType DEF n
  <2> QED BY <1>6, <2>2 DEF Scan, TypeOK
<1>7. CASE Miss
  <2> PICK u \in m.left : m' = [m EXCEPT !.left = @ \ {u}, !.vanished = @ \cup (m.known \cap {u})]
    BY <1>7 DEF Miss
  <2>1. m' \in Memory /\ m'.pc = "scan"
    BY <1>7 DEF Miss, At, TypeOK, Memory
  <2> QED BY <1>7, <2>1 DEF Miss, TypeOK
<1>8. CASE Tombstone
  <2> PICK u \in m.vanished :
        Emit([m EXCEPT !.vanished = @ \ {u}, !.known = @ \ {u}], Gone(u))
    BY <1>8 DEF Tombstone
  <2> DEFINE n == [m EXCEPT !.vanished = @ \ {u}, !.known = @ \ {u}]
  <2>1. n \in Memory /\ n.pc = "scan"
    BY <1>8, VanishedType DEF Tombstone, At, TypeOK, Memory
  <2> HIDE DEF n
  <2>2. m' \in Memory /\ done' \subseteq BatchId /\ m'.pc \in {"scan", "push"}
          /\ (m'.pc = "push" => m'.out \in Batch)
    BY <2>1, VanishedType, EmitType DEF n
  <2> QED BY <1>8, <2>2 DEF Tombstone, TypeOK
<1>9. CASE Flush
  <2>1. Close(m) /\ m \in Memory
    BY <1>9 DEF Flush, TypeOK
  <2>2. m' \in Memory /\ m'.out \in Batch /\ done' \subseteq BatchId
    BY <2>1, CloseType
  <2> QED BY <1>9, <2>2 DEF Flush, TypeOK
<1>10. CASE Save
  <2>1. m.known \in SUBSET Urn /\ m.sent \in SUBSET Entity
    BY DEF TypeOK, Memory
  <2>2. cursor' \in [Source -> SUBSET Urn]
    BY <1>10, <2>1 DEF Save, TypeOK
  <2>3. m' \in Memory /\ m'.pc = "next"
    BY <1>10 DEF Save, Scraped, At, TypeOK, Memory, Pcs
  <2> QED BY <1>10, <2>1, <2>2, <2>3 DEF Save, TypeOK
<1>11. CASE Answered
  <2>1. catalog' \in [Urn -> C!Copy] /\ done' \subseteq BatchId
    BY <1>11, ProcessType DEF Answered, At, TypeOK
  <2>2. m' \in Memory /\ m'.out = m.out
    BY <1>11 DEF Answered, At, TypeOK, Memory, Pcs
  <2> QED BY <1>11, <2>1, <2>2 DEF Answered, At, TypeOK
<1>12. CASE Refused
  BY <1>12 DEF Refused, At, TypeOK, Memory, Pcs
<1>13. ASSUME At("push"), Attempt PROVE m' \in Memory /\ m'.out = m.out /\ faults' \in Nat
  <2> DEFINE pc == IF m.tries + 1 < MaxAttempts THEN "push" ELSE "failed"
  <2>1. pc \in Pcs /\ m.tries + 1 \in Nat /\ faults + 1 \in Nat
    BY DEF Pcs, TypeOK, Memory
  <2>2. m' = [m EXCEPT !.tries = @ + 1, !.pc = pc]
    BY <1>13 DEF Attempt
  <2> HIDE DEF pc
  <2>3. m' \in Memory /\ m'.out = m.out
    BY <2>1, <2>2 DEF TypeOK, Memory
  <2> QED BY <1>13, <2>1, <2>3 DEF Attempt
<1>14. CASE TimedOut
  BY <1>13, <1>14 DEF TimedOut, At, TypeOK
<1>15. CASE Broken
  <2> PICK es \in SUBSET m.out.ents : catalog' = Applied(es)
    BY <1>15 DEF Broken
  <2>1. es \in SUBSET Entity
    BY <1>15 DEF Broken, At, TypeOK, Batch
  <2>2. catalog' \in [Urn -> C!Copy]
    BY <2>1, AppliedType DEF TypeOK
  <2> QED BY <1>13, <1>15, <2>2 DEF Broken, At, TypeOK
<1>16. CASE Settle
  BY <1>16 DEF Settle, At, TypeOK, Memory, Pcs
<1>17. CASE GiveUp
  BY <1>17 DEF GiveUp, At, TypeOK, Memory, Pcs
<1>18. CASE SourceFails
  <2>1. m' \in Memory /\ m'.pc = "next"
    BY <1>18, AsleepType DEF SourceFails, TypeOK, Memory, Pcs, Asleep
  <2>2. crashes' \in Nat
    BY <1>18 DEF SourceFails, TypeOK
  <2> QED BY <1>18, <2>1, <2>2 DEF SourceFails, TypeOK
<1>19. CASE Crash
  BY <1>19, AsleepType DEF Crash, TypeOK, Asleep
<1>20. CASE Late
  <2> PICK b \in wire : Process(b) /\ wire' = wire \ {b}
    BY <1>20 DEF Late
  <2>1. catalog' \in [Urn -> C!Copy] /\ done' \subseteq BatchId
    BY ProcessType DEF TypeOK
  <2> QED BY <1>20, <2>1 DEF Late, TypeOK
<1>21. CASE Forget
  BY <1>21 DEF Forget, TypeOK
<1>22. CASE Drift
  BY <1>22 DEF Drift, TypeOK
<1>23. CASE UNCHANGED vars
  BY <1>23 DEF vars, TypeOK
<1> QED
  BY <1>1, <1>2, <1>3, <1>4, <1>5, <1>6, <1>7, <1>8, <1>9, <1>10, <1>11, <1>12, <1>14, <1>15,
     <1>16, <1>17, <1>18, <1>19, <1>20, <1>21, <1>22, <1>23 DEF Next, Cycle, Scrape, Push

\* The agent's memory, its files and the catalog keep their types.
THEOREM TypeCorrect == Spec => []TypeOK
BY TypeInit, TypeStep, PTL DEF Spec
-----------------------------------------------------------------------------
(* Nothing is lost. *)

Filed(e) == \E b \in dead : e \in b.ents

\* What the running scrape emitted without a 202 is somewhere it survives the
\* end of the scrape: in the buffer, in the batch being pushed, or filed.
SentIsHeld ==
    \A e \in m.sent :
        \/ e \in m.buffer
        \/ m.pc \in {"push", "refused", "failed"} /\ m.back = "scan" /\ e \in m.out.ents
        \/ Filed(e)

\* Nothing of a batch that has its 202 is waited for any more.
AckedIsClear == At("acked") => m.out.ents \cap (owed \cup m.sent) = {}

LostInv == TypeOK /\ NothingLost /\ SentIsHeld /\ AckedIsClear

LEMMA EmitHeld ==
    ASSUME LostInv, At("scan"), UNCHANGED <<dead, owed>>,
           NEW n \in Memory, n.pc = "scan", n.buffer = m.buffer, n.sent = m.sent,
           NEW e \in Entity, Emit(n, e)
    PROVE  NothingLost' /\ SentIsHeld' /\ AckedIsClear'
<1> DEFINE kept == [n EXCEPT !.buffer = @ \cup {e}, !.sent = @ \cup {e}]
<1>1. kept \in Memory /\ kept.pc = "scan" /\ kept.buffer = m.buffer \cup {e}
        /\ kept.sent = m.sent \cup {e}
  BY DEF Memory
<1>2. \A x \in m.sent : x \in m.buffer \/ Filed(x)
  BY DEF LostInv, SentIsHeld, At
<1>3. NothingLost'
  BY DEF LostInv, NothingLost
<1>4. CASE m' = n
  BY <1>2, <1>3, <1>4 DEF SentIsHeld, AckedIsClear, At, Filed
<1>5. CASE m' = kept
  <2> HIDE DEF kept
  <2> QED BY <1>1, <1>2, <1>3, <1>5 DEF SentIsHeld, AckedIsClear, At, Filed
<1>6. CASE Close(kept)
  <2> HIDE DEF kept
  <2>1. m'.pc = "push" /\ m'.back = "scan" /\ m'.out.ents = m.buffer \cup {e}
          /\ m'.sent = m.sent \cup {e}
    BY <1>1, <1>6, CloseType DEF LostInv
  <2> QED BY <1>2, <1>3, <2>1 DEF SentIsHeld, AckedIsClear, At, Filed
<1> QED BY <1>4, <1>5, <1>6 DEF Emit

LEMMA LostStep == LostInv /\ [Next]_vars => NothingLost' /\ SentIsHeld' /\ AckedIsClear'
<1> SUFFICES ASSUME LostInv, [Next]_vars
             PROVE  NothingLost' /\ SentIsHeld' /\ AckedIsClear'
  OBVIOUS
<1> USE DEF disk, server, counts
<1>m. m \in Memory /\ TypeOK
  BY DEF LostInv, TypeOK
\* A step that leaves the queue alone and starts no push from nothing.
<1>q. ASSUME UNCHANGED <<dead, owed>>, m'.sent = m.sent, m'.buffer = m.buffer,
             m'.pc \notin {"acked"},
             \/ m.pc \notin {"push", "refused", "failed"}
             \/ /\ m'.pc \in {"push", "refused", "failed"}
                /\ m'.back = m.back /\ m'.out = m.out
      PROVE  NothingLost' /\ SentIsHeld' /\ AckedIsClear'
  BY <1>q DEF LostInv, NothingLost, SentIsHeld, AckedIsClear, At, Filed
\* A step after which nothing is emitted and not owed.
<1>s. ASSUME UNCHANGED <<dead, owed>>, m'.sent = {}, m'.pc # "acked"
      PROVE  NothingLost' /\ SentIsHeld' /\ AckedIsClear'
  BY <1>s DEF LostInv, NothingLost, SentIsHeld, AckedIsClear, At, Filed
\* A step that changes nothing these parts speak of.
<1>u. ASSUME UNCHANGED <<dead, owed, m>>
      PROVE  NothingLost' /\ SentIsHeld' /\ AckedIsClear'
  BY <1>u DEF LostInv, NothingLost, SentIsHeld, AckedIsClear, At, Filed
<1>1. CASE StartCycle
  BY <1>1, <1>m, <1>q DEF StartCycle, At, Memory
<1>2. CASE RetryDeadLetter
  BY <1>2, <1>m, <1>q DEF RetryDeadLetter, At, Memory
<1>3. CASE StartSources
  BY <1>3, <1>m, <1>q DEF StartSources, At, Memory
<1>4. CASE StartSource
  BY <1>4, <1>m, <1>s DEF StartSource, At, Memory
<1>5. CASE EndCycle
  BY <1>5, <1>s DEF EndCycle, Asleep
<1>6. CASE Scan
  <2> PICK u \in m.left :
        /\ src[u] # NoHash
        /\ Emit([m EXCEPT !.left = @ \ {u}, !.known = @ \cup {u}], Found(u))
    BY <1>6 DEF Scan
  <2> DEFINE n == [m EXCEPT !.left = @ \ {u}, !.known = @ \cup {u}]
             e == Found(u)
  <2>1. n \in Memory /\ e \in Entity
    BY <1>m, SeenType
  <2>2. n.pc = "scan" /\ n.buffer = m.buffer /\ n.sent = m.sent
    BY <1>6, <1>m DEF Scan, At, Memory
  <2>3. Emit(n, e) /\ At("scan") /\ UNCHANGED <<dead, owed>>
    BY <1>6 DEF Scan
  <2> HIDE DEF n, e
  <2> QED BY <2>1, <2>2, <2>3, EmitHeld
<1>7. CASE Miss
  <2>1. m'.sent = m.sent /\ m'.buffer = m.buffer /\ m'.pc = m.pc
    BY <1>7, <1>m DEF Miss, Memory
  <2> QED BY <1>7, <1>q, <2>1 DEF Miss, At
<1>8. CASE Tombstone
  <2> PICK u \in m.vanished :
        Emit([m EXCEPT !.vanished = @ \ {u}, !.known = @ \ {u}], Gone(u))
    BY <1>8 DEF Tombstone
  <2> DEFINE n == [m EXCEPT !.vanished = @ \ {u}, !.known = @ \ {u}]
             e == Gone(u)
  <2>1. n \in Memory /\ e \in Entity
    BY <1>m, VanishedType
  <2>2. n.pc = "scan" /\ n.buffer = m.buffer /\ n.sent = m.sent
    BY <1>8, <1>m DEF Tombstone, At, Memory
  <2>3. Emit(n, e) /\ At("scan") /\ UNCHANGED <<dead, owed>>
    BY <1>8 DEF Tombstone
  <2> HIDE DEF n, e
  <2> QED BY <2>1, <2>2, <2>3, EmitHeld
<1>9. CASE Flush
  <2>1. m'.pc = "push" /\ m'.back = "scan" /\ m'.out.ents = m.buffer /\ m'.sent = m.sent
    BY <1>9, <1>m, CloseType DEF Flush
  <2>2. UNCHANGED <<dead, owed>> /\ m.pc = "scan"
    BY <1>9 DEF Flush, Scraped, At
  <2> QED BY <2>1, <2>2 DEF LostInv, NothingLost, SentIsHeld, AckedIsClear, At, Filed
<1>10. CASE Save
  <2>1. \A e \in m.sent : Filed(e)
    BY <1>10 DEF Save, Scraped, At, LostInv, SentIsHeld
  <2>2. dead' = dead /\ owed' = owed \cup m.sent
    BY <1>10 DEF Save
  <2>3. NothingLost'
    BY <2>1, <2>2 DEF LostInv, NothingLost, Filed
  <2>4. m'.sent = {} /\ m'.pc = "next"
    BY <1>10, <1>m DEF Save, Memory
  <2> QED BY <2>3, <2>4 DEF SentIsHeld, AckedIsClear, At
<1>11. CASE Answered
  <2>1. m'.sent = m.sent \ m.out.ents /\ m'.pc = "acked" /\ m'.out = m.out /\ m'.buffer = m.buffer
    BY <1>11, <1>m DEF Answered, Memory
  <2>2. owed' = owed \ m.out.ents /\ dead' = dead
    BY <1>11 DEF Answered
  <2> QED BY <2>1, <2>2 DEF LostInv, NothingLost, SentIsHeld, AckedIsClear, At, Filed
<1>12. CASE Refused
  BY <1>12, <1>m, <1>q DEF Refused, At, Memory
<1>13. ASSUME At("push"), Attempt, UNCHANGED <<dead, owed>>
       PROVE  NothingLost' /\ SentIsHeld' /\ AckedIsClear'
  <2> DEFINE pc == IF m.tries + 1 < MaxAttempts THEN "push" ELSE "failed"
  <2>1. pc \in {"push", "failed"}
    OBVIOUS
  <2>2. m' = [m EXCEPT !.tries = @ + 1, !.pc = pc]
    BY <1>13 DEF Attempt
  <2> HIDE DEF pc
  <2>3. m'.pc \in {"push", "failed"} /\ m'.sent = m.sent /\ m'.buffer = m.buffer
          /\ m'.out = m.out /\ m'.back = m.back
    BY <2>1, <2>2, <1>m DEF Memory
  <2> QED BY <1>13, <2>3, <1>q
<1>14. CASE TimedOut
  BY <1>13, <1>14 DEF TimedOut
<1>15. CASE Broken
  BY <1>13, <1>15 DEF Broken
<1>16. CASE Settle
  <2>1. m'.sent = m.sent /\ m'.buffer = m.buffer /\ m'.pc \in {"retry", "scan"}
    BY <1>16, <1>m DEF Settle, Memory
  <2>2. \A e \in owed \cup m.sent : e \notin m.out.ents
    BY <1>16 DEF Settle, LostInv, AckedIsClear
  <2>3. \A e \in owed \cup m.sent : Filed(e) => Filed(e)'
    BY <1>16, <2>2 DEF Settle, Filed
  <2>4. owed' = owed /\ m.pc = "acked"
    BY <1>16 DEF Settle, At
  <2>5. NothingLost'
    BY <2>3, <2>4 DEF LostInv, NothingLost, Filed
  <2> QED BY <2>1, <2>3, <2>4, <2>5 DEF LostInv, SentIsHeld, AckedIsClear, At
<1>17. CASE GiveUp
  <2>1. m'.sent = m.sent /\ m'.buffer = m.buffer /\ m'.pc \in {"retry", "scan"}
    BY <1>17, <1>m DEF GiveUp, Memory
  <2>2. \A e \in Entity : Filed(e) => Filed(e)'
    BY <1>17 DEF GiveUp, Filed
  <2>3. m.back = "scan" => \A e \in m.out.ents : Filed(e)'
    BY <1>17 DEF GiveUp, Filed
  <2>4. owed' = owed /\ owed \subseteq Entity /\ m.sent \subseteq Entity
    BY <1>17, <1>m DEF GiveUp, TypeOK, Memory
  <2>5. NothingLost'
    BY <2>2, <2>4 DEF LostInv, NothingLost, Filed
  <2>6. SentIsHeld'
    BY <2>1, <2>2, <2>3, <2>4 DEF LostInv, SentIsHeld
  <2> QED BY <2>1, <2>5, <2>6 DEF AckedIsClear, At
<1>18. CASE SourceFails
  <2>1. m'.sent = {} /\ m'.pc = "next"
    BY <1>18 DEF SourceFails, Asleep
  <2> QED BY <1>18, <1>s, <2>1 DEF SourceFails
<1>19. CASE Crash
  BY <1>19, <1>s DEF Crash, Asleep
<1>20. CASE Late
  BY <1>20, <1>u DEF Late
<1>21. CASE Forget
  BY <1>21, <1>u DEF Forget
<1>22. CASE Drift
  BY <1>22, <1>u DEF Drift
<1>23. CASE UNCHANGED vars
  BY <1>23, <1>u DEF vars
<1> QED
  BY <1>1, <1>2, <1>3, <1>4, <1>5, <1>6, <1>7, <1>8, <1>9, <1>10, <1>11, <1>12, <1>14, <1>15,
     <1>16, <1>17, <1>18, <1>19, <1>20, <1>21, <1>22, <1>23 DEF Next, Cycle, Scrape, Push

\* Once a scrape has saved its cursor, every valid entity it emitted has been
\* answered 202 or is in a dead letter on disk, whatever is lost, refused, killed
\* or answered late, for as many faults as there may be.
THEOREM NothingLostAlways == Spec => []NothingLost
<1>1. Init => LostInv
  BY TypeInit DEF Init, Asleep, LostInv, NothingLost, SentIsHeld, AckedIsClear, At
<1>2. LostInv /\ [Next]_vars => LostInv'
  BY TypeStep, LostStep DEF LostInv
<1>3. LostInv => NothingLost
  BY DEF LostInv
<1> QED BY <1>1, <1>2, <1>3, PTL DEF Spec
-----------------------------------------------------------------------------
(* With no faults, what is live is watched. *)

Calm == MaxFaults = 0 /\ MaxCrashes = 0

Scraping == m.pc \in {"scan", "push", "acked"}

\* What has been emitted and not yet answered.
Pending == IF At("push") THEN m.buffer \cup m.out.ents ELSE m.buffer

\* The URNs of the running scrape are in step with what is pending: an upsert is
\* known to the cursor and settled, a delete is forgotten and settled.
Sound(n, pending) ==
    /\ \A u \in n.left : SourceOf[u] \in n.sc
    /\ \A u \in n.vanished : u \notin n.left
    /\ \A e \in pending :
         /\ e.urn \notin n.left \cup n.vanished
         /\ e.op = "upsert" => e.urn \in n.known /\ SourceOf[e.urn] \in n.sc
         /\ e.op = "delete" => e.urn \notin n.known

\* A live entity is known to the cursor, or its tombstone is on its way.
Watches(n, pending) ==
    \A u \in Urn : Live(u) =>
        IF SourceOf[u] \in n.sc
        THEN u \in n.known \/ \E d \in pending : d.urn = u /\ d.op = "delete"
        ELSE u \in cursor[SourceOf[u]]

\* Nothing fails: no dead letters, no late requests, no retries.
Serene ==
    /\ dead = {} /\ wire = {} /\ m.todo = {}
    /\ m.pc \in {"idle", "retry", "next", "scan", "push", "acked"}
    /\ m.pc \in {"push", "acked"} => m.back = "scan"
    /\ At("push") => m.out.id \notin done

Watched ==
    IF Scraping THEN Sound(m, Pending) /\ Watches(m, Pending)
    ELSE \A u \in Urn : Live(u) => u \in cursor[SourceOf[u]]

CalmInv == TypeOK /\ Serene /\ Watched

\* Emitting e from the memory n, prepared by a scan or a tombstone.
LEMMA EmitWatched ==
    ASSUME CalmInv, At("scan"), UNCHANGED <<catalog, cursor, dead, wire>>,
           NEW n \in Memory, n.pc = "scan", n.todo = {}, n.buffer = m.buffer,
           NEW e \in Entity, Emit(n, e),
           Sound(n, n.buffer \cup {e}), Watches(n, n.buffer \cup {e}),
           e.op = "upsert" => Sound(n, n.buffer) /\ Watches(n, n.buffer)
    PROVE  Serene' /\ Watched'
<1> DEFINE kept == [n EXCEPT !.buffer = @ \cup {e}, !.sent = @ \cup {e}]
<1>1. /\ kept \in Memory /\ kept.pc = "scan" /\ kept.todo = {}
      /\ kept.buffer = n.buffer \cup {e} /\ kept.left = n.left /\ kept.known = n.known
      /\ kept.sc = n.sc /\ kept.vanished = n.vanished
  BY DEF Memory
<1>2. CASE m' = n /\ e.op = "upsert"
  <2>1. Sound(m, Pending)' /\ Watches(m, Pending)'
    BY <1>2 DEF Pending, At, Sound, Watches, Live
  <2> QED BY <1>2, <2>1 DEF CalmInv, Serene, Watched, Scraping, At
<1>3. CASE m' = kept
  <2> HIDE DEF kept
  <2>1. Sound(m, Pending)' /\ Watches(m, Pending)'
    BY <1>1, <1>3 DEF Pending, At, Sound, Watches, Live
  <2> QED BY <1>1, <1>3, <2>1 DEF CalmInv, Serene, Watched, Scraping, At
<1>4. CASE Close(kept)
  <2> HIDE DEF kept
  <2>1. /\ m'.pc = "push" /\ m'.back = "scan" /\ m'.buffer = {} /\ m'.todo = {}
        /\ m'.out.ents = n.buffer \cup {e} /\ m'.out.id \notin done'
        /\ m'.left = n.left /\ m'.known = n.known /\ m'.sc = n.sc /\ m'.vanished = n.vanished
    BY <1>1, <1>4, CloseType DEF CalmInv
  <2>2. Pending' = n.buffer \cup {e}
    BY <2>1 DEF Pending, At
  <2>3. Sound(m, Pending)' /\ Watches(m, Pending)'
    BY <2>1, <2>2 DEF Sound, Watches, Live
  <2> QED BY <2>1, <2>3 DEF CalmInv, Serene, Watched, Scraping, At
<1> QED BY <1>2, <1>3, <1>4 DEF Emit

\* The answer turns every pending upsert of the batch live and every pending
\* delete into a tombstone.
LEMMA AnswerWatched ==
    ASSUME CalmInv, Answered
    PROVE  Serene' /\ Watched'
<1> USE DEF disk, server, counts
<1>1. m \in Memory /\ m.out \in Batch /\ m.pc = "push"
  BY DEF CalmInv, TypeOK, Answered, At
<1>2. /\ m'.pc = "acked" /\ m'.out = m.out /\ m'.buffer = m.buffer /\ m'.todo = m.todo
      /\ m'.left = m.left /\ m'.known = m.known /\ m'.sc = m.sc /\ m'.vanished = m.vanished
      /\ m'.back = m.back
  BY <1>1 DEF Answered, Memory
<1>3. catalog' = Applied(m.out.ents) /\ cursor' = cursor /\ dead' = dead /\ wire' = wire
  BY <1>1 DEF Answered, Process, CalmInv, Serene, At
<1>4. Pending = m.buffer \cup m.out.ents /\ Pending' = m.buffer
  BY <1>1, <1>2 DEF Pending, At
<1>5. Sound(m, Pending) /\ Watches(m, Pending)
  BY <1>1 DEF CalmInv, Watched, Scraping
<1>6. Sound(m, Pending)'
  BY <1>2, <1>4, <1>5 DEF Sound
<1>7. ASSUME NEW u \in Urn, Live(u)'
      PROVE  IF SourceOf[u] \in m.sc
             THEN u \in m.known \/ \E d \in m.buffer : d.urn = u /\ d.op = "delete"
             ELSE u \in cursor[SourceOf[u]]
  <2>1. CASE \E e \in m.out.ents : e.urn = u /\ Accepts(e)
    <3> DEFINE e == CHOOSE e \in m.out.ents : e.urn = u /\ Accepts(e)
    <3>1. e \in m.out.ents /\ e.urn = u /\ e \in Entity
      BY <2>1, <1>1 DEF Batch
    <3>2. catalog'[u] = IF e.op = "upsert" THEN C!Upserted(e.hash) ELSE C!Tombstoned(catalog[u])
      BY <2>1, <1>3 DEF Applied
    <3> HIDE DEF e
    <3>3. catalog[u] \in C!Copy
      BY DEF CalmInv, TypeOK
    <3>4. e.op = "upsert"
      BY <1>7, <3>1, <3>2, <3>3 DEF Live, Entity, C!Tombstoned, C!Copy
    <3> QED BY <1>4, <1>5, <3>1, <3>4 DEF Sound
  <2>2. CASE ~\E e \in m.out.ents : e.urn = u /\ Accepts(e)
    <3>1. Live(u)
      BY <1>3, <1>7, <2>2 DEF Applied, Live
    <3> QED BY <1>4, <1>5, <2>2, <3>1 DEF Watches, Accepts
  <2> QED BY <2>1, <2>2
<1>8. Watches(m, Pending)'
  BY <1>2, <1>3, <1>4, <1>7 DEF Watches
<1>9. Serene'
  BY <1>2, <1>3 DEF CalmInv, Serene, At, Answered
<1> QED BY <1>2, <1>6, <1>8, <1>9 DEF Watched, Scraping

LEMMA CalmStep == ASSUME Calm, CalmInv, [Next]_vars PROVE Serene' /\ Watched'
<1> USE DEF disk, server, counts
<1>m. m \in Memory /\ faults \in Nat /\ crashes \in Nat /\ TypeOK
  BY DEF CalmInv, TypeOK
\* A step between scrapes.
<1>b. ASSUME UNCHANGED <<catalog, cursor, dead, wire>>, ~Scraping,
             m'.pc \in {"idle", "retry", "next"}, m'.todo = {}
      PROVE  Serene' /\ Watched'
  BY <1>b DEF CalmInv, Serene, Watched, Scraping, Live, At
<1>1. CASE StartCycle
  BY <1>1, <1>m, <1>b DEF StartCycle, At, Memory, CalmInv, Serene, Scraping
<1>2. CASE RetryDeadLetter
  BY <1>2 DEF RetryDeadLetter, CalmInv, Serene
<1>3. CASE StartSources
  BY <1>3, <1>m, <1>b DEF StartSources, At, Memory, CalmInv, Serene, Scraping
<1>4. CASE StartSource
  <2> PICK s \in m.agenda :
        m' = [m EXCEPT !.pc = "scan", !.agenda = @ \ {s}, !.sc = {s}, !.known = cursor[s],
                       !.left = {u \in Urn : SourceOf[u] = s}, !.vanished = {},
                       !.buffer = {}, !.sent = {}]
    BY <1>4 DEF StartSource
  <2>1. /\ m'.pc = "scan" /\ m'.sc = {s} /\ m'.known = cursor[s] /\ m'.buffer = {}
        /\ m'.left = {u \in Urn : SourceOf[u] = s} /\ m'.vanished = {} /\ m'.todo = m.todo
    BY <1>m DEF Memory
  <2>2. UNCHANGED <<catalog, cursor, dead, wire>> /\ ~Scraping
    BY <1>4 DEF StartSource, At, Scraping
  <2>3. Pending' = {}
    BY <2>1 DEF Pending, At
  <2>4. Sound(m, Pending)'
    BY <2>1, <2>3 DEF Sound
  <2>5. Watches(m, Pending)'
    BY <2>1, <2>2, <2>3 DEF Watches, CalmInv, Watched, Live
  <2> QED BY <2>1, <2>2, <2>4, <2>5 DEF CalmInv, Serene, Watched, Scraping, At
<1>5. CASE EndCycle
  BY <1>5, <1>b DEF EndCycle, Asleep, At, Scraping
<1>6. CASE Scan
  <2> PICK u \in m.left :
        /\ src[u] # NoHash
        /\ Emit([m EXCEPT !.left = @ \ {u}, !.known = @ \cup {u}], Found(u))
    BY <1>6 DEF Scan
  <2> DEFINE n == [m EXCEPT !.left = @ \ {u}, !.known = @ \cup {u}]
             e == Found(u)
  <2>1. n \in Memory /\ e \in Entity /\ e.urn = u /\ e.op = "upsert"
    BY <1>m, SeenType
  <2>2. /\ n.pc = "scan" /\ n.buffer = m.buffer /\ n.todo = {} /\ n.sc = m.sc
        /\ n.left = m.left \ {u} /\ n.known = m.known \cup {u} /\ n.vanished = m.vanished
    BY <1>6, <1>m DEF Scan, At, Memory, CalmInv, Serene
  <2>3. Emit(n, e) /\ At("scan") /\ UNCHANGED <<catalog, cursor, dead, wire>>
    BY <1>6 DEF Scan
  <2>4. Sound(m, m.buffer) /\ Watches(m, m.buffer)
    BY <2>3 DEF CalmInv, Watched, Scraping, Pending, At
  <2> HIDE DEF n, e
  <2>5. Sound(n, n.buffer) /\ Sound(n, n.buffer \cup {e})
    BY <2>1, <2>2, <2>4 DEF Sound
  <2>6. Watches(n, n.buffer) /\ Watches(n, n.buffer \cup {e})
    BY <2>1, <2>2, <2>4 DEF Watches
  <2> QED BY <2>1, <2>2, <2>3, <2>5, <2>6, EmitWatched
<1>7. CASE Miss
  <2> PICK u \in m.left : m' = [m EXCEPT !.left = @ \ {u}, !.vanished = @ \cup (m.known \cap {u})]
    BY <1>7 DEF Miss
  <2>1. /\ m'.pc = "scan" /\ m'.buffer = m.buffer /\ m'.todo = m.todo /\ m'.sc = m.sc
        /\ m'.left = m.left \ {u} /\ m'.known = m.known
        /\ m'.vanished = m.vanished \cup (m.known \cap {u})
    BY <1>7, <1>m DEF Miss, At, Memory
  <2>2. UNCHANGED <<catalog, cursor, dead, wire>> /\ At("scan")
    BY <1>7 DEF Miss
  <2>3. Sound(m, m.buffer) /\ Watches(m, m.buffer)
    BY <2>2 DEF CalmInv, Watched, Scraping, Pending, At
  <2>4. Pending' = m.buffer
    BY <2>1 DEF Pending, At
  <2>5. Sound(m, Pending)'
    BY <2>1, <2>3, <2>4 DEF Sound
  <2>6. Watches(m, Pending)'
    BY <2>1, <2>2, <2>3, <2>4 DEF Watches, Live
  <2> QED BY <2>1, <2>2, <2>5, <2>6 DEF CalmInv, Serene, Watched, Scraping, At
<1>8. CASE Tombstone
  <2> PICK u \in m.vanished :
        Emit([m EXCEPT !.vanished = @ \ {u}, !.known = @ \ {u}], Gone(u))
    BY <1>8 DEF Tombstone
  <2> DEFINE n == [m EXCEPT !.vanished = @ \ {u}, !.known = @ \ {u}]
             e == Gone(u)
  <2>1. n \in Memory /\ e \in Entity /\ e.urn = u /\ e.op = "delete"
    BY <1>m, VanishedType
  <2>2. /\ n.pc = "scan" /\ n.buffer = m.buffer /\ n.todo = {} /\ n.sc = m.sc
        /\ n.left = m.left /\ n.known = m.known \ {u} /\ n.vanished = m.vanished \ {u}
    BY <1>8, <1>m DEF Tombstone, At, Memory, CalmInv, Serene
  <2>3. Emit(n, e) /\ At("scan") /\ UNCHANGED <<catalog, cursor, dead, wire>>
    BY <1>8 DEF Tombstone
  <2>4. Sound(m, m.buffer) /\ Watches(m, m.buffer)
    BY <2>3 DEF CalmInv, Watched, Scraping, Pending, At
  <2> HIDE DEF n, e
  <2>5. Sound(n, n.buffer \cup {e})
    BY <2>1, <2>2, <2>4 DEF Sound
  <2>6. Watches(n, n.buffer \cup {e})
    BY <2>1, <2>2, <2>4 DEF Watches
  <2> QED BY <2>1, <2>2, <2>3, <2>5, <2>6, EmitWatched
<1>9. CASE Flush
  <2>1. /\ m'.pc = "push" /\ m'.back = "scan" /\ m'.buffer = {} /\ m'.todo = m.todo
        /\ m'.out.ents = m.buffer /\ m'.out.id \notin done'
        /\ m'.left = m.left /\ m'.known = m.known /\ m'.sc = m.sc /\ m'.vanished = m.vanished
    BY <1>9, <1>m, CloseType DEF Flush
  <2>2. UNCHANGED <<catalog, cursor, dead, wire>> /\ At("scan")
    BY <1>9 DEF Flush, Scraped
  <2>3. Sound(m, m.buffer) /\ Watches(m, m.buffer)
    BY <2>2 DEF CalmInv, Watched, Scraping, Pending, At
  <2>4. Pending' = m.buffer
    BY <2>1 DEF Pending, At
  <2>5. Sound(m, Pending)'
    BY <2>1, <2>3, <2>4 DEF Sound
  <2>6. Watches(m, Pending)'
    BY <2>1, <2>2, <2>3, <2>4 DEF Watches, Live
  <2> QED BY <2>1, <2>2, <2>5, <2>6 DEF CalmInv, Serene, Watched, Scraping, At
<1>10. CASE Save
  <2>1. Watches(m, {})
    BY <1>10 DEF Save, Scraped, CalmInv, Watched, Scraping, Pending, At
  <2>2. cursor' = [s \in Source |-> IF s \in m.sc THEN m.known ELSE cursor[s]]
          /\ UNCHANGED <<catalog, dead, wire>>
    BY <1>10 DEF Save
  <2>3. m'.pc = "next" /\ m'.todo = m.todo
    BY <1>10, <1>m DEF Save, Memory
  <2>4. \A u \in Urn : SourceOf[u] \in Source
    BY AgentAssumption
  <2>5. \A u \in Urn : Live(u)' => u \in cursor'[SourceOf[u]]
    BY <2>1, <2>2, <2>4 DEF Watches, Live
  <2> QED BY <2>2, <2>3, <2>5 DEF CalmInv, Serene, Watched, Scraping, At
<1>11. CASE Answered
  BY <1>11, AnswerWatched
<1>12. CASE Refused \/ TimedOut \/ Broken \/ SourceFails \/ Crash \/ Forget
  BY <1>12, <1>m DEF Calm, Refused, TimedOut, Broken, Attempt, SourceFails, Crash, Forget
<1>13. CASE GiveUp
  BY <1>13 DEF GiveUp, At, CalmInv, Serene
<1>14. CASE Late
  BY <1>14 DEF Late, CalmInv, Serene
<1>15. CASE Settle
  <2>1. /\ m'.pc = "scan" /\ m'.buffer = m.buffer /\ m'.todo = m.todo /\ m'.sc = m.sc
        /\ m'.left = m.left /\ m'.known = m.known /\ m'.vanished = m.vanished
    BY <1>15, <1>m DEF Settle, At, Memory, CalmInv, Serene
  <2>2. UNCHANGED <<catalog, cursor, dead, wire>>
    BY <1>15 DEF Settle, At, CalmInv, Serene
  <2>3. Sound(m, m.buffer) /\ Watches(m, m.buffer)
    BY <1>15 DEF Settle, CalmInv, Watched, Scraping, Pending, At
  <2>4. Pending' = m.buffer
    BY <2>1 DEF Pending, At
  <2>5. Sound(m, Pending)'
    BY <2>1, <2>3, <2>4 DEF Sound
  <2>6. Watches(m, Pending)'
    BY <2>1, <2>2, <2>3, <2>4 DEF Watches, Live
  <2> QED BY <2>1, <2>2, <2>5, <2>6 DEF CalmInv, Serene, Watched, Scraping, At
\* A step of the sources only, or of nothing.
<1>u. ASSUME UNCHANGED <<m, catalog, cursor, done, dead, wire>>
      PROVE  Serene' /\ Watched'
  <2>1. Pending' = Pending /\ Scraping' = Scraping
    BY <1>u DEF Pending, At, Scraping
  <2>2. Sound(m, Pending)' <=> Sound(m, Pending)
    BY <1>u, <2>1 DEF Sound
  <2>3. Watches(m, Pending)' <=> Watches(m, Pending)
    BY <1>u, <2>1 DEF Watches, Live
  <2> QED BY <1>u, <2>1, <2>2, <2>3 DEF CalmInv, Serene, Watched, Live, At
<1>16. CASE Drift
  BY <1>16, <1>u DEF Drift
<1>17. CASE UNCHANGED vars
  BY <1>17, <1>u DEF vars
<1> QED
  BY <1>1, <1>2, <1>3, <1>4, <1>5, <1>6, <1>7, <1>8, <1>9, <1>10, <1>11, <1>12, <1>13, <1>14,
     <1>15, <1>16, <1>17 DEF Next, Cycle, Scrape, Push

\* Without failing pushes, crashes or failing sources, an entity the catalog
\* shows as live is known to the cursor of its connection between cycles, however
\* the sources change while they are scraped: so dropping it will be noticed.
THEOREM LiveIsWatchedAlways == ASSUME Calm PROVE Spec => []LiveIsWatched
<1>1. Init => CalmInv
  <2> SUFFICES ASSUME Init PROVE CalmInv
    OBVIOUS
  <2>1. m = Asleep /\ dead = {} /\ wire = {} /\ \A u \in Urn : ~Live(u)
    BY DEF Init, C!Init, C!Absent, Live
  <2> QED BY <2>1, TypeInit DEF CalmInv, Serene, Watched, Scraping, Asleep, At
<1>2. CalmInv /\ [Next]_vars => CalmInv'
  BY TypeStep, CalmStep DEF CalmInv
<1>3. CalmInv => LiveIsWatched
  BY DEF CalmInv, Watched, Scraping, LiveIsWatched, At
<1> QED BY <1>1, <1>2, <1>3, PTL DEF Spec
=============================================================================
