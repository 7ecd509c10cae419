-------------------------- MODULE ConnectorsProofs --------------------------
(***************************************************************************)
(* Theorems about scrapes of a source that changes under them, for every   *)
(* database, bucket, list of prefixes and page size, and every number of   *)
(* changes and failures.                                                   *)
(***************************************************************************)
EXTENDS Connectors, SequenceTheorems, Induction
-----------------------------------------------------------------------------
(* The database stays one. *)

\* What a place of db may hold.
Slot == Relation \cup {Nothing}

NamesAreUnique == \A a, b \in Oids : db[a].name = db[b].name => a = b

LEMMA FunctionIsSeq ==
    ASSUME NEW S, NEW n \in Nat, NEW f \in [1..n -> S]
    PROVE  f \in Seq(S)
OBVIOUS

LEMMA ColumnType ==
    ASSUME NEW r \in Relation, NEW a \in ColumnsOf(r)
    PROVE  r.cols[a] \in Column
BY DEF Relation, ColumnsOf

LEMMA ReleasedKeeps ==
    ASSUME NEW c \in Column
    PROVE  /\ Released(c) \in Column /\ Released(c).name = c.name /\ Released(c).fk = Nothing
           /\ Released(c) # Nothing /\ c # Nothing
<1>1. c \in [name : Label, type : NativeType, pk : BOOLEAN, fk : {Nothing} \cup [oid : Nat, attnum : Nat]]
      /\ Released(c) \in Column /\ Nothing \notin Column
  BY PostgresAssumption
<1>2. Released(c).name = c.name /\ Released(c).fk = Nothing
  BY <1>1 DEF Released
<1> QED BY <1>1, <1>2

\* Cascade releases the references that dangle and leaves everything else alone.
LEMMA CascadedKeeps ==
    ASSUME NEW d, NEW r \in Relation
    PROVE  /\ Cascaded(d, r) \in Relation /\ Cascaded(d, r).name = r.name
           /\ ColumnsOf(Cascaded(d, r)) = ColumnsOf(r)
           /\ \A a \in ColumnsOf(r) :
                LET c == Cascaded(d, r).cols[a]
                    fk == r.cols[a].fk
                IN  /\ c.name = r.cols[a].name
                    /\ c.fk # Nothing => /\ c.fk = fk /\ d[fk.oid] # Nothing
                                         /\ d[fk.oid].cols[fk.attnum] # Nothing
<1> DEFINE Dangling(c) == c # Nothing /\ c.fk # Nothing
                          /\ (d[c.fk.oid] = Nothing \/ d[c.fk.oid].cols[c.fk.attnum] = Nothing)
           Cut(c) == IF Dangling(c) THEN Released(c) ELSE c
           cols == [a \in DOMAIN r.cols |-> Cut(r.cols[a])]
<1>1. r.cols \in [1..Len(r.cols) -> Column \cup {Nothing}] /\ Len(r.cols) \in Nat
  BY LenProperties DEF Relation
<1>2. Cascaded(d, r) = [r EXCEPT !.cols = cols]
  BY DEF Cascaded
<1>3. ASSUME NEW a \in DOMAIN r.cols
      PROVE  /\ cols[a] \in Column \cup {Nothing}
             /\ cols[a] = Nothing <=> r.cols[a] = Nothing
             /\ r.cols[a] # Nothing =>
                  /\ cols[a].name = r.cols[a].name
                  /\ cols[a].fk # Nothing => cols[a] = r.cols[a] /\ ~Dangling(r.cols[a])
  <2>1. r.cols[a] \in Column \/ r.cols[a] = Nothing
    BY <1>1
  <2>2. ASSUME NEW c \in Column
        PROVE  /\ Cut(c) \in Column /\ Cut(c) # Nothing /\ Cut(c).name = c.name
               /\ Cut(c).fk # Nothing => Cut(c) = c /\ ~Dangling(c)
    <3> HIDE DEF Dangling
    <3> QED BY ReleasedKeeps
  <2>3. Cut(Nothing) = Nothing
    OBVIOUS
  <2>4. cols[a] = Cut(r.cols[a])
    <3> HIDE DEF Cut
    <3> QED OBVIOUS
  <2>5. \A c \in Column : c # Nothing
    BY ReleasedKeeps
  <2> HIDE DEF Cut, cols, Dangling
  <2>6. CASE r.cols[a] \in Column
    BY <2>2, <2>4, <2>5, <2>6
  <2>7. CASE r.cols[a] = Nothing
    BY <2>3, <2>4, <2>7
  <2> QED BY <2>1, <2>6, <2>7
<1>4. cols \in [1..Len(r.cols) -> Column \cup {Nothing}]
  <2>1. cols = [a \in 1..Len(r.cols) |-> cols[a]]
    <3> HIDE DEF Cut
    <3> QED BY <1>1
  <2> HIDE DEF cols
  <2> QED BY <1>1, <1>3, <2>1
<1>5. cols \in Seq(Column \cup {Nothing})
  <2> HIDE DEF cols
  <2> QED BY <1>1, <1>4, FunctionIsSeq
<1>6. /\ Cascaded(d, r) \in Relation /\ Cascaded(d, r).name = r.name
      /\ Cascaded(d, r).cols = cols
  <2> HIDE DEF cols
  <2> QED BY <1>2, <1>5 DEF Relation
<1>7. ColumnsOf(Cascaded(d, r)) = ColumnsOf(r)
  <2>1. DOMAIN cols = DOMAIN r.cols
    <3> HIDE DEF Cut
    <3> QED OBVIOUS
  <2> HIDE DEF cols
  <2> QED BY <1>3, <1>6, <2>1 DEF ColumnsOf
<1>8. ASSUME NEW a \in ColumnsOf(r)
      PROVE  /\ cols[a].name = r.cols[a].name
             /\ cols[a].fk # Nothing => /\ cols[a].fk = r.cols[a].fk
                                        /\ d[r.cols[a].fk.oid] # Nothing
                                        /\ d[r.cols[a].fk.oid].cols[r.cols[a].fk.attnum] # Nothing
  <2>1. a \in DOMAIN r.cols /\ r.cols[a] # Nothing
    BY DEF ColumnsOf
  <2>2. cols[a].name = r.cols[a].name
        /\ (cols[a].fk # Nothing => cols[a] = r.cols[a] /\ ~Dangling(r.cols[a]))
    <3> HIDE DEF cols, Dangling
    <3> QED BY <1>3, <2>1
  <2> HIDE DEF cols
  <2> QED BY <2>1, <2>2
<1> HIDE DEF cols
<1> QED BY <1>6, <1>7, <1>8

\* References that may dangle, but not reach outside of what was there.
Reaches(d, fk) ==
    fk.oid \in DOMAIN d /\ (d[fk.oid] # Nothing => fk.attnum \in DOMAIN d[fk.oid].cols)

Reaching(d) ==
    \A o \in DOMAIN d : d[o] # Nothing =>
        \A a \in ColumnsOf(d[o]) : d[o].cols[a].fk # Nothing => Reaches(d, d[o].cols[a].fk)

LEMMA CascadedDatabase ==
    ASSUME NEW d \in Seq(Slot), Reaching(d),
           \A a, b \in DOMAIN d :
             d[a] # Nothing /\ d[b] # Nothing /\ d[a].name = d[b].name => a = b,
           \A o \in DOMAIN d : d[o] # Nothing => OneOfEach(d[o])
    PROVE  Cascade(d) \in Seq(Slot) /\ Consistent(Cascade(d))
<1> DEFINE e == Cascade(d)
<1>1. d \in [1..Len(d) -> Slot] /\ Len(d) \in Nat
  BY LenProperties
<1>2. /\ DOMAIN e = DOMAIN d
      /\ \A o \in DOMAIN d : e[o] = IF d[o] = Nothing THEN Nothing ELSE Cascaded(d, d[o])
  BY DEF Cascade
<1> HIDE DEF e
<1>3. ASSUME NEW o \in DOMAIN d, d[o] # Nothing
      PROVE  /\ d[o] \in Relation /\ e[o] \in Relation /\ e[o] # Nothing /\ e[o].name = d[o].name
             /\ ColumnsOf(e[o]) = ColumnsOf(d[o])
             /\ \A a \in ColumnsOf(d[o]) :
                  LET c == e[o].cols[a]
                      fk == d[o].cols[a].fk
                  IN  /\ c.name = d[o].cols[a].name
                      /\ c.fk # Nothing => /\ c.fk = fk /\ d[fk.oid] # Nothing
                                           /\ d[fk.oid].cols[fk.attnum] # Nothing
  <2>1. d[o] \in Relation /\ e[o] = Cascaded(d, d[o])
    BY <1>1, <1>2, <1>3 DEF Slot
  <2>2. Nothing \notin Relation
    BY PostgresAssumption
  <2> QED BY <2>1, <2>2, CascadedKeeps
<1>4. \A o \in DOMAIN d : d[o] = Nothing => e[o] = Nothing
  BY <1>2
<1>5. e \in Seq(Slot)
  <2>1. \A o \in 1..Len(d) : e[o] \in Slot
    BY <1>1, <1>3, <1>4 DEF Slot
  <2>2. e = [o \in 1..Len(d) |-> e[o]]
    BY <1>1 DEF e, Cascade
  <2>3. e \in [1..Len(d) -> Slot]
    BY <2>1, <2>2
  <2> QED BY <1>1, <2>3, FunctionIsSeq
<1>6. ASSUME NEW o \in DOMAIN d, d[o] # Nothing
      PROVE  OneOfEach(e[o])
  BY <1>3, <1>6 DEF OneOfEach
<1>7. ASSUME NEW o \in DOMAIN d, d[o] # Nothing, NEW a \in ColumnsOf(d[o]), e[o].cols[a].fk # Nothing
      PROVE  LET fk == e[o].cols[a].fk IN
             fk.oid \in DOMAIN d /\ d[fk.oid] # Nothing /\ fk.attnum \in ColumnsOf(e[fk.oid])
  <2> DEFINE fk == d[o].cols[a].fk
  <2>1. e[o].cols[a].fk = fk /\ d[fk.oid] # Nothing /\ d[fk.oid].cols[fk.attnum] # Nothing
    BY <1>3, <1>7
  <2>2. fk.oid \in DOMAIN d /\ fk.attnum \in DOMAIN d[fk.oid].cols
    BY <1>7, <2>1 DEF Reaching, Reaches
  <2>3. fk.attnum \in ColumnsOf(d[fk.oid])
    BY <2>1, <2>2 DEF ColumnsOf
  <2>4. ColumnsOf(e[fk.oid]) = ColumnsOf(d[fk.oid])
    BY <1>3, <2>1, <2>2
  <2> HIDE DEF fk
  <2> QED BY <2>1, <2>2, <2>3, <2>4
<1>8. \A o \in DOMAIN e : e[o] # Nothing <=> d[o] # Nothing
  BY <1>2, <1>3, <1>4
<1>9. Consistent(e)
  BY <1>2, <1>3, <1>6, <1>7, <1>8 DEF Consistent
<1> QED BY <1>5, <1>9 DEF e

\* Changing one relation, or dropping it, and what that needs.
LEMMA DatabaseExcept ==
    ASSUME db \in Seq(Slot), NEW o \in Oids, NEW r \in Slot
    PROVE  /\ o \in DOMAIN db /\ db[o] \in Relation
           /\ [db EXCEPT ![o] = r] \in Seq(Slot)
           /\ DOMAIN [db EXCEPT ![o] = r] = DOMAIN db
<1>1. o \in 1..Len(db) /\ db[o] \in Relation
  BY LenProperties DEF Oids, Slot
<1> QED BY <1>1, ExceptSeq DEF Oids

\* What the database says of its relations.
LEMMA Told ==
    ASSUME db \in Seq(Slot), Consistent(db)
    PROVE  /\ NamesAreUnique
           /\ \A o \in Oids :
                /\ db[o] \in Relation /\ Attnums(o) = ColumnsOf(db[o]) /\ OneOfEach(db[o])
                /\ \A a \in Attnums(o) :
                     LET fk == db[o].cols[a].fk IN
                     fk # Nothing => fk.oid \in Oids /\ fk.attnum \in Attnums(fk.oid)
<1>1. NamesAreUnique
  BY DEF Consistent, NamesAreUnique, Oids
<1>2. \A o \in Oids : db[o] \in Relation
  BY LenProperties DEF Oids, Slot
<1>3. \A o \in Oids : Attnums(o) = ColumnsOf(db[o])
  BY DEF Attnums, ColumnsOf
<1>4. \A o \in Oids : /\ OneOfEach(db[o])
                      /\ \A a \in ColumnsOf(db[o]) :
                           LET fk == db[o].cols[a].fk IN
                           fk # Nothing => fk.oid \in Oids /\ fk.attnum \in ColumnsOf(db[fk.oid])
  BY DEF Consistent, Oids
<1> QED BY <1>1, <1>2, <1>3, <1>4

\* Whose references lead to columns that are there.
Backed(r) ==
    \A a \in ColumnsOf(r) : LET fk == r.cols[a].fk IN fk # Nothing => fk.attnum \in Attnums(fk.oid)

\* A relation takes another form, in which it keeps its columns and may get more.
LEMMA RelationExcept ==
    ASSUME db \in Seq(Slot), Consistent(db), NEW o \in Oids, NEW r \in Relation,
           \A b \in Oids : b # o => db[b].name # r.name,
           ColumnsOf(db[o]) \subseteq ColumnsOf(r), OneOfEach(r),
           Backed(r)
    PROVE  [db EXCEPT ![o] = r] \in Seq(Slot) /\ Consistent([db EXCEPT ![o] = r])
<1> DEFINE d == [db EXCEPT ![o] = r]
<1>1. d \in Seq(Slot) /\ DOMAIN d = DOMAIN db /\ o \in DOMAIN db
  BY DatabaseExcept DEF Slot
<1>2. d[o] = r /\ r # Nothing /\ \A b \in DOMAIN db : b # o => d[b] = db[b]
  BY <1>1, PostgresAssumption
<1> HIDE DEF d
<1>3. {b \in DOMAIN d : d[b] # Nothing} = Oids
  BY <1>1, <1>2 DEF Oids
<1>4. \A b \in Oids : ColumnsOf(db[b]) \subseteq ColumnsOf(d[b])
  BY <1>1, <1>2 DEF Oids
<1>5. \A b \in Oids : \A a \in Attnums(b) : a \in ColumnsOf(d[b])
  BY <1>4, Told
<1>6. \A b, c \in Oids : d[b].name = d[c].name => b = c
  BY <1>2, Told DEF NamesAreUnique, Oids
<1>7. ASSUME NEW b \in Oids
      PROVE  OneOfEach(d[b])
  BY <1>2, Told DEF Oids
<1>8. ASSUME NEW b \in Oids, NEW a \in ColumnsOf(d[b]), d[b].cols[a].fk # Nothing
      PROVE  d[b].cols[a].fk.oid \in Oids
             /\ d[b].cols[a].fk.attnum \in ColumnsOf(d[d[b].cols[a].fk.oid])
  <2> DEFINE fk == d[b].cols[a].fk
  <2>1. fk.attnum \in Attnums(fk.oid)
    <3>1. CASE b = o
      BY <1>2, <1>8, <3>1 DEF Backed
    <3>2. CASE b # o
      <4>1. d[b] = db[b] /\ Attnums(b) = ColumnsOf(db[b])
        BY <1>2, <3>2, Told DEF Oids
      <4> QED BY <1>8, <4>1, Told
    <3> QED BY <3>1, <3>2
  <2> HIDE DEF fk
  <2>2. fk.oid \in Oids
    <3>1. \A x : Attnums(x) # {} => x \in Oids
      BY DEF Attnums
    <3> QED BY <2>1, <3>1
  <2>3. fk.attnum \in ColumnsOf(d[fk.oid])
    BY <1>5, <2>1, <2>2
  <2> QED BY <2>2, <2>3 DEF fk
<1>9. Consistent(d)
  BY <1>3, <1>6, <1>7, <1>8 DEF Consistent
<1> QED BY <1>1, <1>9 DEF d

LEMMA DatabaseStep ==
    ASSUME db \in Seq(Slot), Consistent(db), ChangeDatabase
    PROVE  db' \in Seq(Slot) /\ Consistent(db')
<1>0. Nothing \notin Relation /\ Nothing \notin Column
  BY PostgresAssumption
<1>1. CASE CreateTable
  <2> PICK r \in NewTable : Consistent(Append(db, r)) /\ db' = Append(db, r)
    BY <1>1 DEF CreateTable
  <2>1. r \in Slot
    BY PostgresAssumption DEF Slot
  <2> QED BY <2>1, AppendProperties
<1>2. CASE DropTable
  <2> PICK o \in Oids : db' = Cascade([db EXCEPT ![o] = Nothing])
    BY <1>2 DEF DropTable
  <2> DEFINE d == [db EXCEPT ![o] = Nothing]
  <2>1. d \in Seq(Slot) /\ DOMAIN d = DOMAIN db
    BY DatabaseExcept DEF Slot
  <2>2. \A a \in DOMAIN db : d[a] # Nothing => a \in Oids /\ d[a] = db[a]
    BY DEF Oids
  <2>0. db' = Cascade(d)
    OBVIOUS
  <2> HIDE DEF d
  <2>3. \A a, b \in DOMAIN d : d[a] # Nothing /\ d[b] # Nothing /\ d[a].name = d[b].name => a = b
    BY <2>1, <2>2, Told DEF NamesAreUnique
  <2>4. \A a \in DOMAIN d : d[a] # Nothing => OneOfEach(d[a])
    BY <2>1, <2>2, Told
  <2>5. Reaching(d)
    BY <2>1, <2>2, Told DEF Reaching, Reaches, Oids, ColumnsOf
  <2> QED BY <2>0, <2>1, <2>3, <2>4, <2>5, CascadedDatabase
<1>3. CASE RenameTable
  <2> PICK o \in Oids, n \in TableUrn : Free(n) /\ db' = [db EXCEPT ![o].name = n]
    BY <1>3 DEF RenameTable
  <2> DEFINE r == [db[o] EXCEPT !.name = n]
  <2>1. db[o] \in Relation
    BY Told
  <2>2. r \in Relation /\ r.name = n /\ r.cols = db[o].cols
    BY <2>1 DEF Relation
  <2>3. db' = [db EXCEPT ![o] = r]
    OBVIOUS
  <2> HIDE DEF r
  <2>4. ColumnsOf(r) = ColumnsOf(db[o]) /\ OneOfEach(r)
    BY <2>2, Told DEF ColumnsOf, OneOfEach
  <2>5. Backed(r)
    BY <2>2, <2>4, Told DEF Backed
  <2> QED BY <2>2, <2>3, <2>4, <2>5, RelationExcept DEF Free
<1>4. CASE ReplaceTable
  <2> PICK o, other \in Oids :
        o # other /\ db' = Cascade([db EXCEPT ![o] = Nothing, ![other].name = db[o].name])
    BY <1>4 DEF ReplaceTable
  <2> DEFINE dropped == [db EXCEPT ![o] = Nothing]
             r == [db[other] EXCEPT !.name = db[o].name]
             d == [db EXCEPT ![o] = Nothing, ![other].name = db[o].name]
  <2>1. db[other] \in Relation /\ db[o] \in Relation
    BY Told
  <2>2. r \in Relation /\ r.name = db[o].name /\ r.cols = db[other].cols
    BY <2>1 DEF Relation
  <2>3. dropped \in Seq(Slot) /\ DOMAIN dropped = DOMAIN db
    BY DatabaseExcept DEF Slot
  <2>4. other \in 1..Len(dropped)
    BY <2>3, LenProperties DEF Oids
  <2>5. d = [dropped EXCEPT ![other] = r]
    OBVIOUS
  <2>6. /\ d[o] = Nothing /\ d[other] = r
        /\ \A a \in DOMAIN db : a # o /\ a # other => d[a] = db[a]
    BY DEF Oids
  <2>0. db' = Cascade(d)
    OBVIOUS
  <2> HIDE DEF d, r
  <2>7. r \in Slot
    BY <2>2 DEF Slot
  <2>8. [dropped EXCEPT ![other] = r] \in Seq(Slot)
    BY <2>3, <2>4, <2>7, ExceptSeq
  <2>9. d \in Seq(Slot) /\ DOMAIN d = DOMAIN db
    BY <2>3, <2>5, <2>8
  <2>10. ASSUME NEW a \in DOMAIN d, d[a] # Nothing
         PROVE  /\ a # o /\ a \in Oids /\ d[a].cols = db[a].cols /\ ColumnsOf(d[a]) = ColumnsOf(db[a])
                /\ d[a].name = IF a = other THEN db[o].name ELSE db[a].name
    BY <2>2, <2>6, <2>9, <2>10 DEF Oids, ColumnsOf
  <2>11. \A a, b \in DOMAIN d : d[a] # Nothing /\ d[b] # Nothing /\ d[a].name = d[b].name => a = b
    BY <2>10, Told DEF NamesAreUnique
  <2>12. \A a \in DOMAIN d : d[a] # Nothing => OneOfEach(d[a])
    BY <2>10, Told DEF OneOfEach
  <2>13. Reaching(d)
    <3> SUFFICES ASSUME NEW b \in DOMAIN d, d[b] # Nothing, NEW a \in ColumnsOf(d[b]),
                        d[b].cols[a].fk # Nothing
                 PROVE  Reaches(d, d[b].cols[a].fk)
      BY DEF Reaching
    <3>1. b \in Oids /\ a \in Attnums(b) /\ d[b].cols[a].fk = db[b].cols[a].fk
      BY <2>10, Told
    <3> DEFINE fk == d[b].cols[a].fk
    <3>2. fk.oid \in Oids /\ fk.attnum \in ColumnsOf(db[fk.oid])
      BY <3>1, Told
    <3> HIDE DEF fk
    <3>3. fk.oid \in DOMAIN d /\ fk.attnum \in DOMAIN db[fk.oid].cols
      BY <2>9, <2>10, <3>2 DEF Oids, ColumnsOf
    <3>4. d[fk.oid] # Nothing => DOMAIN d[fk.oid].cols = DOMAIN db[fk.oid].cols
      BY <2>9, <2>10, <3>3
    <3>5. Reaches(d, fk)
      BY <3>3, <3>4 DEF Reaches
    <3> QED BY <3>5 DEF fk
  <2> QED BY <2>0, <2>9, <2>11, <2>12, <2>13, CascadedDatabase
<1>5. CASE AddColumn
  <2> PICK o \in Oids, c \in Column : MayHave(o, c, {}) /\ db' = [db EXCEPT ![o].cols = Append(@, c)]
    BY <1>5 DEF AddColumn
  <2> DEFINE r == [db[o] EXCEPT !.cols = Append(@, c)]
             n == Len(db[o].cols) + 1
  <2>1. db[o] \in Relation /\ db[o].cols \in Seq(Column \cup {Nothing})
    BY Told DEF Relation
  <2>2. /\ Append(db[o].cols, c) \in Seq(Column \cup {Nothing})
        /\ DOMAIN db[o].cols = 1..Len(db[o].cols) /\ Len(db[o].cols) \in Nat
        /\ DOMAIN Append(db[o].cols, c) = 1..n
        /\ Append(db[o].cols, c)[n] = c
        /\ \A a \in DOMAIN db[o].cols : Append(db[o].cols, c)[a] = db[o].cols[a]
    BY <2>1, AppendProperties, LenProperties
  <2>3. r \in Relation /\ r.name = db[o].name /\ r.cols = Append(db[o].cols, c)
    BY <2>1, <2>2 DEF Relation
  <2>4. db' = [db EXCEPT ![o] = r]
    OBVIOUS
  <2>5. ColumnsOf(r) = ColumnsOf(db[o]) \cup {n} /\ r.cols[n] = c /\ n \notin ColumnsOf(db[o])
        /\ \A a \in ColumnsOf(db[o]) : r.cols[a] = db[o].cols[a]
    BY <1>0, <2>2, <2>3 DEF ColumnsOf
  <2> HIDE DEF r, n
  <2>6. OneOfEach(r)
    <3>1. \A a \in ColumnsOf(db[o]) : db[o].cols[a].name # c.name
      BY Told DEF MayHave
    <3>2. OneOfEach(db[o])
      BY Told
    <3> QED BY <2>5, <3>1, <3>2 DEF OneOfEach
  <2>7. Backed(r)
    BY <2>5, Told DEF MayHave, Backed
  <2>8. \A b \in Oids : b # o => db[b].name # r.name
    BY <2>3, Told DEF NamesAreUnique
  <2>9. [db EXCEPT ![o] = r] \in Seq(Slot) /\ Consistent([db EXCEPT ![o] = r])
    BY <2>3, <2>5, <2>6, <2>7, <2>8, RelationExcept
  <2> QED BY <2>4, <2>9
<1>6. CASE AlterColumn
  <2> PICK o \in Oids, c \in Column : \E a \in Attnums(o) :
             MayHave(o, c, {a}) /\ db' = [db EXCEPT ![o].cols[a] = c]
    BY <1>6 DEF AlterColumn
  <2> PICK a \in Attnums(o) : MayHave(o, c, {a}) /\ db' = [db EXCEPT ![o].cols[a] = c]
    OBVIOUS
  <2> DEFINE r == [db[o] EXCEPT !.cols[a] = c]
  <2>1. db[o] \in Relation /\ db[o].cols \in Seq(Column \cup {Nothing}) /\ a \in DOMAIN db[o].cols
    BY Told DEF Relation, Attnums
  <2>2. [db[o].cols EXCEPT ![a] = c] \in Seq(Column \cup {Nothing})
    BY <2>1, ExceptSeq, LenProperties
  <2>3. r \in Relation /\ r.name = db[o].name /\ r.cols = [db[o].cols EXCEPT ![a] = c]
    BY <2>1, <2>2 DEF Relation
  <2>4. db' = [db EXCEPT ![o] = r]
    OBVIOUS
  <2>5. ColumnsOf(r) = ColumnsOf(db[o]) /\ r.cols[a] = c /\ a \in ColumnsOf(db[o])
        /\ \A b \in ColumnsOf(db[o]) : b # a => r.cols[b] = db[o].cols[b]
    BY <1>0, <2>1, <2>3 DEF ColumnsOf, Attnums
  <2> HIDE DEF r
  <2>6. OneOfEach(r)
    <3>1. \A b \in ColumnsOf(db[o]) : b # a => db[o].cols[b].name # c.name
      BY Told DEF MayHave
    <3>2. OneOfEach(db[o])
      BY Told
    <3> QED BY <2>5, <3>1, <3>2 DEF OneOfEach
  <2>7. Backed(r)
    BY <2>5, Told DEF MayHave, Backed
  <2>8. \A b \in Oids : b # o => db[b].name # r.name
    BY <2>3, Told DEF NamesAreUnique
  <2>9. [db EXCEPT ![o] = r] \in Seq(Slot) /\ Consistent([db EXCEPT ![o] = r])
    BY <2>3, <2>5, <2>6, <2>7, <2>8, RelationExcept
  <2> QED BY <2>4, <2>9
<1>7. CASE DropColumn
  <2> PICK o \in Oids : \E a \in Attnums(o) : db' = Cascade([db EXCEPT ![o].cols[a] = Nothing])
    BY <1>7 DEF DropColumn
  <2> PICK a \in Attnums(o) : db' = Cascade([db EXCEPT ![o].cols[a] = Nothing])
    OBVIOUS
  <2> DEFINE d == [db EXCEPT ![o].cols[a] = Nothing]
             r == [db[o] EXCEPT !.cols[a] = Nothing]
  <2>1. db[o] \in Relation /\ db[o].cols \in Seq(Column \cup {Nothing}) /\ a \in DOMAIN db[o].cols
    BY Told DEF Relation, Attnums
  <2>2. [db[o].cols EXCEPT ![a] = Nothing] \in Seq(Column \cup {Nothing})
    BY <2>1, ExceptSeq, LenProperties
  <2>3. r \in Slot /\ r.name = db[o].name /\ r.cols = [db[o].cols EXCEPT ![a] = Nothing]
    BY <2>1, <2>2 DEF Relation, Slot
  <2>4. d = [db EXCEPT ![o] = r]
    OBVIOUS
  <2>0. db' = Cascade(d)
    OBVIOUS
  <2>5. ColumnsOf(r) \subseteq ColumnsOf(db[o]) /\ DOMAIN r.cols = DOMAIN db[o].cols
        /\ \A b \in ColumnsOf(r) : r.cols[b] = db[o].cols[b]
    BY <2>1, <2>3 DEF ColumnsOf
  <2> HIDE DEF d, r
  <2>6. d \in Seq(Slot) /\ DOMAIN d = DOMAIN db
    BY <2>3, <2>4, DatabaseExcept
  <2>7. ASSUME NEW b \in DOMAIN d, d[b] # Nothing
        PROVE  /\ b \in Oids /\ d[b].name = db[b].name /\ DOMAIN d[b].cols = DOMAIN db[b].cols
               /\ ColumnsOf(d[b]) \subseteq ColumnsOf(db[b])
               /\ \A e \in ColumnsOf(d[b]) : d[b].cols[e] = db[b].cols[e]
    BY <2>3, <2>4, <2>5, <2>6, <2>7 DEF Oids
  <2>8. \A b, c \in DOMAIN d : d[b] # Nothing /\ d[c] # Nothing /\ d[b].name = d[c].name => b = c
    BY <2>7, Told DEF NamesAreUnique
  <2>9. \A b \in DOMAIN d : d[b] # Nothing => OneOfEach(d[b])
    BY <2>7, Told DEF OneOfEach
  <2>10. Reaching(d)
    <3> SUFFICES ASSUME NEW b \in DOMAIN d, d[b] # Nothing, NEW e \in ColumnsOf(d[b]),
                        d[b].cols[e].fk # Nothing
                 PROVE  Reaches(d, d[b].cols[e].fk)
      BY DEF Reaching
    <3>1. b \in Oids /\ e \in Attnums(b) /\ d[b].cols[e].fk = db[b].cols[e].fk
      BY <2>7, Told
    <3> DEFINE fk == d[b].cols[e].fk
    <3>2. fk.oid \in Oids /\ fk.attnum \in ColumnsOf(db[fk.oid])
      BY <3>1, Told
    <3> HIDE DEF fk
    <3>3. fk.oid \in DOMAIN d /\ fk.attnum \in DOMAIN db[fk.oid].cols
      BY <2>6, <2>7, <3>2 DEF Oids, ColumnsOf
    <3>4. d[fk.oid] # Nothing => DOMAIN d[fk.oid].cols = DOMAIN db[fk.oid].cols
      BY <2>6, <2>7, <3>3
    <3>5. Reaches(d, fk)
      BY <3>3, <3>4 DEF Reaches
    <3> QED BY <3>5 DEF fk
  <2> QED BY <2>0, <2>6, <2>8, <2>9, <2>10, CascadedDatabase
<1>8. CASE Analyze
  <2> PICK o \in Oids, n \in Rows : db' = [db EXCEPT ![o].reltuples = n]
    BY <1>8 DEF Analyze
  <2> DEFINE r == [db[o] EXCEPT !.reltuples = n]
  <2>1. db[o] \in Relation
    BY Told
  <2>2. r \in Relation /\ r.name = db[o].name /\ r.cols = db[o].cols
    BY <2>1 DEF Relation
  <2>3. db' = [db EXCEPT ![o] = r]
    OBVIOUS
  <2> HIDE DEF r
  <2>4. ColumnsOf(r) = ColumnsOf(db[o]) /\ OneOfEach(r)
    BY <2>2, Told DEF ColumnsOf, OneOfEach
  <2>5. Backed(r)
    BY <2>2, <2>4, Told DEF Backed
  <2>6. \A b \in Oids : b # o => db[b].name # r.name
    BY <2>2, Told DEF NamesAreUnique
  <2> QED BY <2>2, <2>3, <2>4, <2>5, <2>6, RelationExcept
<1> QED BY <1>1, <1>2, <1>3, <1>4, <1>5, <1>6, <1>7, <1>8 DEF ChangeDatabase
-----------------------------------------------------------------------------
(* The inductive invariant. *)

\* A row of LIST_TABLES.
Row == [oid : Nat, name : TableUrn, reltuples : Rows \cup {-1, Nothing}]

Listing == pc \in {"tables", "constraints", "references"}

Reading == pc \in {"constraints", "references"}

Memory(schemas, rows, row, names, pk, fks, refs) ==
    [schemas |-> schemas, rows |-> rows, row |-> row, names |-> names,
     pk |-> pk, fks |-> fks, refs |-> refs]

Listed(todo, last, sample, count) ==
    [todo |-> todo, last |-> last, sample |-> sample, count |-> count]

Typed ==
    /\ TypeOK
    /\ Consistent(db)
    /\ p = Memory(p.schemas, p.rows, p.row, p.names, p.pk, p.fks, p.refs)
    /\ p.schemas \subseteq Included /\ p.rows \subseteq Row
    /\ Reading => p.row \in Row
    /\ q = Listed(q.todo, q.last, q.sample, q.count)
    /\ q.todo \in Seq(Prefix) /\ q.count \in Nat

\* A connection of one kind has nothing of the other.
Kinds ==
    /\ kind = "postgres" =>
         /\ bucket = [k \in Key |-> Nothing]
         /\ pc \notin {"prefixes", "sniff"}
         /\ saved.dataset = {} /\ known.dataset = {} /\ seen.dataset = {}
    /\ kind = "s3" =>
         /\ db = <<>>
         /\ ~Listing
         /\ saved.table = {} /\ known.table = {} /\ seen.table = {}
         /\ saved.column = {} /\ known.column = {} /\ seen.column = {}

Closed(cursor) == \A u \in cursor.column : u[1] \in cursor.table

\* What was met is recorded, but for the table that is being read.
Recorded ==
    /\ Closed(saved) /\ Closed(known) /\ Closed(seen)
    /\ \A u \in seen.table : u \in known.table \/ (Reading /\ u = p.row.name)
    /\ seen.column \subseteq known.column
    /\ seen.dataset \subseteq known.dataset
    /\ pc = "idle" => known = empty /\ seen = empty
    /\ pc = "save" => known = seen

Window ==
    /\ always.table \subseteq TablesHere /\ TablesHere \subseteq ever.table
    /\ always.dataset \subseteq DatasetsHere /\ DatasetsHere \subseteq ever.dataset
    /\ calm => ever = Here /\ always = Here

\* What was there all the time is met or still to be met.
TablesMet ==
    /\ seen.table \subseteq ever.table
    /\ Listing =>
         /\ \A r \in p.rows : r.name \in ever.table
         /\ \A u \in always.table :
              u \in seen.table \/ u[1] \in p.schemas \/ \E r \in p.rows : r.name = u
    /\ Reading => p.row.name \in seen.table
    /\ pc \in {"diff", "save"} => always.table \subseteq seen.table

DatasetsMet ==
    /\ seen.dataset \subseteq ever.dataset
    /\ pc \in {"prefixes", "sniff"} =>
         /\ \A u \in always.dataset :
              u \in seen.dataset \/ \E i \in DOMAIN q.todo : q.todo[i] = u
         /\ \A i \in DOMAIN q.todo : \E n \in DOMAIN prefixes : prefixes[n] = q.todo[i]
         /\ q.last = 0 \/ q.count > 0
         /\ q.count > 0 => q.todo # <<>> /\ Head(q.todo) \in ever.dataset
    /\ pc = "sniff" => q.count > 0
    /\ pc \in {"diff", "save"} => always.dataset \subseteq seen.dataset

\* The row of a relation that nobody has touched since.
Stands(r) == r.oid \in Oids /\ db[r.oid].name = r.name

\* In an undisturbed scrape the columns of the tables that were read are met, and no
\* others.
Undisturbed ==
    calm =>
        /\ Listing => \A r \in p.rows : Stands(r)
        /\ Reading => Stands(p.row)
        /\ pc # "idle" =>
             /\ seen.column \subseteq ColumnsHere
             /\ \A u \in ColumnsHere :
                  u[1] \in seen.table => u \in seen.column \/ (Reading /\ u[1] = p.row.name)
        /\ QuietCursorIsExact

IInv == Typed /\ Kinds /\ Recorded /\ Window /\ TablesMet /\ DatasetsMet /\ Undisturbed
-----------------------------------------------------------------------------
(* What the sources hold. *)

LEMMA TablesHereType ==
    ASSUME db \in Seq(Slot) PROVE TablesHere \subseteq TableUrn
BY DatabaseExcept DEF TablesHere, Relation, Slot, Oids

LEMMA NoTables ==
    ASSUME db = <<>> PROVE TablesHere = {} /\ ColumnsHere = {}
BY DEF TablesHere, ColumnsHere, Oids

LEMMA NoDatasets ==
    ASSUME bucket = [k \in Key |-> Nothing] PROVE DatasetsHere = {}
<1>1. \A prefix \in Prefix : Present(prefix) = {}
  BY S3Assumption DEF Present, Key
<1>2. \A i \in DOMAIN prefixes : prefixes[i] \in Prefix
  BY S3Assumption
<1> QED BY <1>1, <1>2 DEF DatasetsHere

LEMMA InitInv == Init => IInv
<1> SUFFICES ASSUME Init PROVE IInv
  OBVIOUS
<1> USE DEF Init, InitConnector, empty
<1>1. db \in Seq(Slot) /\ Consistent(db)
  <2>1. CASE db \in Databases
    <3>1. db \in Seq(Relation)
      BY <2>1, ConnectorsAssumption
    <3>2. db \in Seq(Slot)
      BY <3>1, SeqMonotonic DEF Slot
    <3> QED BY <2>1, <3>2, ConnectorsAssumption
  <2>2. CASE db = <<>>
    BY <2>2, EmptySeq DEF Consistent
  <2> QED BY <2>1, <2>2
<1>2. TypeOK
  <2>1. bucket \in [Key -> Object \cup {Nothing}]
    BY ConnectorsAssumption
  <2>2. ever.table \subseteq TableUrn /\ always.table \subseteq TableUrn
    BY <1>1, TablesHereType DEF Here
  <2> QED BY <1>1, <2>1, <2>2 DEF TypeOK, Cursor, Slot
<1>3. Typed
  BY <1>1, <1>2, EmptySeq DEF Typed, Memory, AtRest, Listed, Unlisted, Reading
<1>4. Kinds /\ Recorded
  BY DEF Kinds, Recorded, Closed, Listing
<1>5. Window /\ TablesMet /\ DatasetsMet /\ Undisturbed
  BY DEF Window, TablesMet, DatasetsMet, Undisturbed, Listing, Reading, Here
<1> QED BY <1>3, <1>4, <1>5 DEF IInv
-----------------------------------------------------------------------------
(* The steps of a scrape of a database. *)

LEMMA StillHere ==
    ASSUME UNCHANGED <<db, bucket>>
    PROVE  /\ TablesHere' = TablesHere /\ ColumnsHere' = ColumnsHere
           /\ DatasetsHere' = DatasetsHere /\ Here' = Here
           /\ Consistent(db)' = Consistent(db)
           /\ \A r : Stands(r)' = Stands(r)
BY DEF TablesHere, ColumnsHere, DatasetsHere, Here, NamesAreUnique, Stands, Oids, Attnums, Present

LEMMA WindowGoesOn ==
    ASSUME IInv, GoesOn, UNCHANGED <<db, bucket>>
    PROVE  Window'
BY StillHere DEF IInv, Window, GoesOn

LEMMA ConnectPostgresStep ==
    ASSUME IInv, ConnectPostgres, Begins, kind = "postgres", UNCHANGED <<kind, bucket, q>>
    PROVE  IInv'
<1> USE DEF IInv, ConnectPostgres, Connect, Begins, catalog, counts
<1>1. UNCHANGED <<db, bucket>>
  OBVIOUS
<1>2. seen' = empty /\ p' = [AtRest EXCEPT !.schemas = Included]
  BY DEF Recorded
<1>3. Typed'
  <2>1. TypeOK'
    BY <1>1, TablesHereType DEF Typed, TypeOK, Here, Slot
  <2> QED BY <1>1, <1>2, <2>1, StillHere DEF Typed, Memory, AtRest, Reading
<1>4. Kinds'
  BY DEF Kinds, Listing
<1>5. Recorded'
  BY <1>2 DEF Recorded, Closed, Reading, empty
<1>6. Window'
  BY <1>1, StillHere DEF Window, Here
<1>7. TablesMet'
  BY <1>1, <1>2 DEF TablesMet, Listing, Reading, AtRest, empty, Here, TablesHere
<1>8. DatasetsMet'
  BY <1>2 DEF DatasetsMet, empty
<1>9. Undisturbed'
  <2>1. seen'.table = {} /\ seen'.column = {} /\ p'.rows = {} /\ pc' = "tables"
    BY <1>2 DEF empty, AtRest
  <2> QED BY <2>1 DEF Undisturbed, Reading, Listing, QuietCursorIsExact, Quiet
<1> QED BY <1>3, <1>4, <1>5, <1>6, <1>7, <1>8, <1>9

LEMMA ListTablesStep ==
    ASSUME IInv, ListTables, GoesOn, kind = "postgres", UNCHANGED <<kind, bucket, q>>
    PROVE  IInv'
<1> DEFINE s == CHOOSE s \in p.schemas : TRUE
           rows == {[oid |-> o, name |-> db[o].name, reltuples |-> db[o].reltuples] :
                      o \in Relations(s)}
<1> USE DEF IInv, ListTables, GoesOn, cursors, catalog, counts
<1>1. UNCHANGED <<db, bucket, seen, known, saved, pc, fails>> /\ pc = "tables" /\ s \in p.schemas
  OBVIOUS
<1>2. p' = [p EXCEPT !.schemas = @ \ {s}, !.rows = rows]
  OBVIOUS
<1> HIDE DEF s
<1>3. /\ p' = Memory(p.schemas \ {s}, rows, p.row, p.names, p.pk, p.fks, p.refs)
      /\ p'.schemas = p.schemas \ {s} /\ p'.rows = rows /\ p'.row = p.row
  BY <1>2 DEF Typed, Memory
<1>4. ASSUME NEW o \in Relations(s)
      PROVE  /\ o \in Oids /\ o \in Nat /\ db[o] \in Relation
             /\ db[o].name[1] = s /\ db[o].name \in TablesHere
  <2>1. o \in Oids /\ db[o].name[1] = s
    BY DEF Relations
  <2>2. o \in 1..Len(db) /\ db[o] \in Relation
    BY <2>1, DatabaseExcept, LenProperties DEF Typed, TypeOK, Slot, Oids
  <2>3. db[o].name \in TablesHere
    BY <1>1, <2>1 DEF Typed, TablesHere
  <2> QED BY <2>1, <2>2, <2>3
<1>5. Typed'
  <2>1. rows \subseteq Row
    BY <1>4 DEF Row, Relation
  <2>2. TypeOK'
    BY <1>1 DEF Typed, TypeOK
  <2> QED BY <1>1, <1>2, <1>3, <2>1, <2>2, StillHere DEF Typed, Memory, Listed, Reading
<1>6. Kinds' /\ Recorded'
  BY <1>1 DEF Kinds, Listing, Recorded, Closed, Reading
<1>7. Window'
  BY <1>1, WindowGoesOn
<1>8. TablesMet'
  <2>1. \A r \in rows : r.name \in ever.table
    BY <1>4 DEF Window
  <2>2. ASSUME NEW u \in always.table, u[1] = s PROVE \E r \in rows : r.name = u
    <3>1. PICK o \in Oids : db[o].name = u
      BY <2>2 DEF Window, TablesHere
    <3>2. o \in Relations(s)
      BY <2>2, <3>1 DEF Relations
    <3>3. [oid |-> o, name |-> db[o].name, reltuples |-> db[o].reltuples] \in rows
      BY <3>2
    <3> QED BY <3>1, <3>3
  <2>3. p.rows = {}
    OBVIOUS
  <2> QED BY <1>1, <1>3, <2>1, <2>2, <2>3 DEF TablesMet, Listing, Reading
<1>9. DatasetsMet'
  BY <1>1 DEF DatasetsMet
<1>10. Undisturbed'
  <2>1. \A r \in rows : Stands(r)
    BY <1>4 DEF Stands
  <2> QED BY <1>1, <1>3, <2>1, StillHere DEF Undisturbed, Listing, Reading, QuietCursorIsExact, Quiet
<1> QED BY <1>5, <1>6, <1>7, <1>8, <1>9, <1>10

LEMMA ListAttnamesStep ==
    ASSUME IInv, ListAttnames, GoesOn, kind = "postgres", UNCHANGED <<kind, bucket, q>>
    PROVE  IInv'
<1> DEFINE r == CHOOSE r \in p.rows : TRUE
<1> USE DEF IInv, ListAttnames, GoesOn, catalog, counts
<1>1. /\ UNCHANGED <<db, bucket, known, saved, fails>> /\ pc = "tables" /\ pc' = "constraints"
      /\ r \in p.rows /\ r \in Row
  BY DEF Typed
<1>2. PICK names :
        /\ p' = [p EXCEPT !.rows = @ \ {r}, !.row = r, !.names = names]
        /\ seen' = [seen EXCEPT !.table = @ \cup {r.name}]
  OBVIOUS
<1> HIDE DEF r
<1>3. /\ p' = Memory(p.schemas, p.rows \ {r}, r, names, p.pk, p.fks, p.refs)
      /\ p'.schemas = p.schemas /\ p'.rows = p.rows \ {r} /\ p'.row = r
  BY <1>2 DEF Typed, Memory
<1>4. seen \in Cursor
  BY DEF Typed, TypeOK
<1>5. seen'.table = seen.table \cup {r.name} /\ seen'.column = seen.column
      /\ seen'.dataset = seen.dataset
  BY <1>2, <1>4 DEF Cursor
<1>6. r.name \in TableUrn
  BY <1>1 DEF Row
<1>7. Typed'
  <2>1. seen' \in Cursor
    BY <1>2, <1>4, <1>6 DEF Cursor
  <2>2. TypeOK'
    BY <1>1, <2>1 DEF Typed, TypeOK
  <2> QED BY <1>1, <1>2, <1>3, <2>2, StillHere DEF Typed, Memory, Listed, Reading
<1>8. Kinds'
  BY <1>1, <1>5 DEF Kinds, Listing
<1>9. Recorded'
  BY <1>1, <1>3, <1>5 DEF Recorded, Closed, Reading
<1>10. Window'
  BY <1>1, WindowGoesOn
<1>11. TablesMet'
  BY <1>1, <1>3, <1>5 DEF TablesMet, Listing, Reading
<1>12. DatasetsMet'
  BY <1>1, <1>5 DEF DatasetsMet
<1>13. Undisturbed'
  BY <1>1, <1>3, <1>5, StillHere DEF Undisturbed, Listing, Reading, QuietCursorIsExact, Quiet
<1> QED BY <1>7, <1>8, <1>9, <1>10, <1>11, <1>12, <1>13

\* The queries about one table, which change the memory of its reading alone.
LEMMA ReadingGoesOn ==
    ASSUME IInv, GoesOn, Reading, pc' \in {"constraints", "references"},
           UNCHANGED <<kind, db, bucket, q, cursors, catalog, counts>>,
           NEW names, NEW pk, NEW fks, NEW refs,
           p' = Memory(p.schemas, p.rows, p.row, names, pk, fks, refs)
    PROVE  IInv'
<1> USE DEF IInv, GoesOn, cursors, catalog, counts
<1>1. p'.schemas = p.schemas /\ p'.rows = p.rows /\ p'.row = p.row
  BY DEF Memory
<1>2. Reading' /\ Listing' /\ Listing
  BY DEF Reading, Listing
<1>3. Typed'
  <2>1. TypeOK'
    BY DEF Typed, TypeOK
  <2> QED BY <1>1, <1>2, <2>1, StillHere DEF Typed, Memory, Listed
<1>4. Kinds'
  BY <1>2 DEF Kinds
<1>5. Recorded'
  BY <1>1, <1>2 DEF Recorded, Closed, Reading
<1>6. Window'
  BY WindowGoesOn
<1>7. TablesMet'
  BY <1>1, <1>2 DEF TablesMet, Reading
<1>8. DatasetsMet'
  BY DEF DatasetsMet, Reading
<1>9. Undisturbed'
  BY <1>1, <1>2, StillHere DEF Undisturbed, QuietCursorIsExact, Quiet, Reading
<1> QED BY <1>3, <1>4, <1>5, <1>6, <1>7, <1>8, <1>9

LEMMA ListConstraintsStep ==
    ASSUME IInv, ListConstraints, GoesOn, UNCHANGED <<kind, bucket, q>>
    PROVE  IInv'
<1>1. PICK pk, fks : p' = [p EXCEPT !.pk = pk, !.fks = fks]
  BY DEF ListConstraints
<1>2. p' = Memory(p.schemas, p.rows, p.row, p.names, pk, fks, p.refs)
  BY <1>1 DEF IInv, Typed, Memory
<1>3. Reading /\ pc' = "references" /\ UNCHANGED <<kind, db, bucket, q, cursors, catalog, counts>>
  BY DEF ListConstraints, Reading
<1> QED BY <1>2, <1>3, ReadingGoesOn

LEMMA ResolveReferenceStep ==
    ASSUME IInv, ResolveReference, GoesOn, UNCHANGED <<kind, bucket, q>>
    PROVE  IInv'
<1>1. PICK fks, refs : p' = [p EXCEPT !.fks = fks, !.refs = refs]
  BY DEF ResolveReference
<1>2. p' = Memory(p.schemas, p.rows, p.row, p.names, p.pk, fks, refs)
  BY <1>1 DEF IInv, Typed, Memory
<1>3. /\ Reading /\ pc' = "references"
      /\ UNCHANGED <<kind, db, bucket, q, cursors, catalog, counts>>
  BY DEF ResolveReference, Reading
<1> QED BY <1>2, <1>3, ReadingGoesOn

LEMMA ListColumnsStep ==
    ASSUME IInv, ListColumns, GoesOn, kind = "postgres", UNCHANGED <<kind, bucket, q>>
    PROVE  IInv'
<1> DEFINE o == p.row.oid
           t == p.row.name
           found == {_column_urn(o, a) : a \in Attnums(o)}
<1> USE DEF IInv, GoesOn, counts
<1>1. /\ pc = "references" /\ pc' = "tables"
      /\ seen' = [seen EXCEPT !.column = @ \cup found]
      /\ known' = [known EXCEPT !.table = @ \cup {t}, !.column = @ \cup found]
      /\ p' = [AtRest EXCEPT !.schemas = p.schemas, !.rows = p.rows]
      /\ UNCHANGED <<saved, datasets, fails, drift, db>>
  BY DEF ListColumns
<1>2. seen \in Cursor /\ known \in Cursor /\ p.row \in Row
  BY <1>1 DEF Typed, TypeOK, Reading
<1>3. t \in TableUrn /\ t \in seen.table
  BY <1>1, <1>2 DEF Row, TablesMet, Reading
<1>4. ASSUME NEW a \in Attnums(o)
      PROVE  /\ o \in Oids /\ db[o] \in Relation
             /\ _column_urn(o, a) = <<t, db[o].cols[a].name>> /\ _column_urn(o, a) \in ColumnUrn
  <2>1. o \in Oids /\ a \in DOMAIN db[o].cols /\ db[o].cols[a] # Nothing
    BY DEF Attnums
  <2>2. db[o] \in Relation
    BY <2>1, DatabaseExcept DEF Typed, TypeOK, Slot
  <2>3. db[o].cols[a] \in Column
    BY <2>1, <2>2 DEF Relation
  <2>4. db[o].cols[a].name \in Label
    BY <2>3, PostgresAssumption
  <2> QED BY <1>3, <2>1, <2>2, <2>4 DEF _column_urn, ColumnUrn
<1>5. /\ seen' \in Cursor /\ seen'.table = seen.table /\ seen'.column = seen.column \cup found
      /\ seen'.dataset = seen.dataset
      /\ known' \in Cursor /\ known'.table = known.table \cup {t}
      /\ known'.column = known.column \cup found /\ known'.dataset = known.dataset
  BY <1>1, <1>2, <1>3, <1>4 DEF Cursor
<1>6. \A u \in found : u[1] = t
  BY <1>4
<1>7. /\ p' = Memory(p.schemas, p.rows, Nothing, <<>>, {}, {}, {})
      /\ p'.schemas = p.schemas /\ p'.rows = p.rows
  BY <1>1 DEF AtRest, Memory
<1>8. tables' \in [TableUrn -> TableRow \cup {Nothing}]
  <2>1. _table_to_normalized = [row_count_estimate |-> p.row.reltuples]
    BY DEF _table_to_normalized
  <2>2. TableAccepted(_table_to_normalized) => _table_to_normalized \in TableRow
    BY <1>2, <2>1 DEF TableAccepted, TableRow, Row
  <2> QED BY <2>2 DEF ListColumns, Typed, TypeOK
<1>9. /\ DOMAIN columns' = ColumnUrn
      /\ \A u \in ColumnUrn : columns'[u] # Nothing => ColumnAccepted(columns'[u])
  <2> DEFINE as(u) == {a \in Attnums(o) :
                         _column_urn(o, a) = u /\ ColumnAccepted(_column_to_normalized(o, a))}
  <2>1. columns' = [u \in ColumnUrn |->
                      IF as(u) = {} THEN columns[u]
                      ELSE _column_to_normalized(o, CHOOSE a \in as(u) : TRUE)]
    BY DEF ListColumns
  <2>2. ASSUME NEW u \in ColumnUrn, as(u) # {}
        PROVE  ColumnAccepted(_column_to_normalized(o, CHOOSE a \in as(u) : TRUE))
    BY <2>2
  <2> HIDE DEF as
  <2> QED BY <2>1, <2>2 DEF Typed, TypeOK
<1>10. UNCHANGED <<db, bucket>>
  BY <1>1
<1> HIDE DEF o, t, found
<1>11. Typed'
  <2>1. TypeOK'
    BY <1>1, <1>5, <1>8, <1>9 DEF Typed, TypeOK
  <2> QED BY <1>1, <1>7, <2>1, StillHere DEF Typed, Memory, Listed, Reading
<1>12. Kinds'
  BY <1>1, <1>5 DEF Kinds, Listing
<1>13. Recorded'
  BY <1>1, <1>3, <1>5, <1>6 DEF Recorded, Closed, Reading, t
<1>14. Window'
  BY <1>10, WindowGoesOn
<1>15. TablesMet'
  BY <1>1, <1>5, <1>7 DEF TablesMet, Listing, Reading
<1>16. DatasetsMet'
  BY <1>1, <1>5 DEF DatasetsMet
<1>17. Undisturbed'
  <2> SUFFICES ASSUME calm PROVE Undisturbed'
    BY DEF Undisturbed
  <2>1. o \in Oids /\ db[o].name = t
    BY <1>1 DEF Undisturbed, Reading, Stands, o, t
  <2>2. t \in TablesHere
    BY <1>3 DEF TablesMet, Window, Here
  <2>3. db[o].name[1] \in Included
    BY <2>1, <2>2 DEF TablesHere
  <2>4. found \subseteq ColumnsHere
    BY <2>1, <2>3 DEF found, ColumnsHere, _column_urn, t
  <2>5. ASSUME NEW u \in ColumnsHere, u[1] = t PROVE u \in found
    <3>1. PICK b \in Oids : \E a \in Attnums(b) : u = <<db[b].name, db[b].cols[a].name>>
      BY DEF ColumnsHere
    <3>2. b = o
      BY <2>1, <2>5, <3>1, Told DEF Typed, TypeOK, Slot, NamesAreUnique
    <3> QED BY <2>1, <3>1, <3>2 DEF found, _column_urn, t
  <2> QED BY <1>1, <1>5, <1>7, <1>10, <2>4, <2>5, StillHere
          DEF Undisturbed, Listing, Reading, QuietCursorIsExact, Quiet, t
<1> QED BY <1>11, <1>12, <1>13, <1>14, <1>15, <1>16, <1>17

LEMMA ListedTablesStep ==
    ASSUME IInv, ListedTables, GoesOn, UNCHANGED <<kind, bucket, q>>
    PROVE  IInv'
<1> USE DEF IInv, ListedTables, GoesOn, cursors, catalog, counts
<1>1. UNCHANGED <<db, bucket>> /\ pc = "tables" /\ pc' = "diff"
  OBVIOUS
<1>2. kind = "postgres"
  BY <1>1 DEF Kinds, Listing, Typed, TypeOK
<1>3. Typed'
  <2>1. TypeOK'
    BY DEF Typed, TypeOK
  <2> QED BY <1>1, <2>1, StillHere DEF Typed, Memory, Listed, Reading
<1>4. Kinds' /\ Recorded'
  BY <1>1 DEF Kinds, Recorded, Closed, Listing, Reading
<1>5. Window'
  BY <1>1, WindowGoesOn
<1>6. TablesMet'
  BY <1>1 DEF TablesMet, Listing, Reading
<1>7. DatasetsMet'
  <2>1. always.dataset = {}
    BY <1>2, NoDatasets DEF Window, Kinds
  <2> QED BY <1>1, <2>1 DEF DatasetsMet
<1>8. Undisturbed'
  BY <1>1, StillHere DEF Undisturbed, Listing, Reading, QuietCursorIsExact, Quiet
<1> QED BY <1>3, <1>4, <1>5, <1>6, <1>7, <1>8
-----------------------------------------------------------------------------
(* The steps of both kinds. *)

LEMMA TombstoneStep ==
    ASSUME IInv, Tombstone, GoesOn, UNCHANGED <<kind, db, p, bucket, q>>
    PROVE  IInv'
<1> USE DEF IInv, GoesOn, counts
<1>1. pc = "diff" /\ pc' = "save" /\ UNCHANGED <<saved, seen, db, bucket, fails, drift>>
  BY DEF Tombstone
<1>2. seen \in Cursor /\ known \in Cursor
  BY DEF Typed, TypeOK
<1>3. /\ seen.table \subseteq known.table /\ seen.column \subseteq known.column
      /\ seen.dataset \subseteq known.dataset
  BY <1>1 DEF Recorded, Reading
<1>4. known' = [table   |-> known.table \ (known.table \ seen.table),
                column  |-> known.column \ (known.column \ seen.column),
                dataset |-> known.dataset \ (known.dataset \ seen.dataset)]
  BY DEF Tombstone, diff_deleted_urns
<1>5. known' = seen
  <2>1. /\ known.table \ (known.table \ seen.table) = seen.table
        /\ known.column \ (known.column \ seen.column) = seen.column
        /\ known.dataset \ (known.dataset \ seen.dataset) = seen.dataset
    BY <1>3
  <2> QED BY <1>2, <1>4, <2>1 DEF Cursor
<1>6. Typed'
  <2>1. tables' \in [TableUrn -> TableRow \cup {Nothing}]
    BY DEF Tombstone, Typed, TypeOK
  <2>2. /\ DOMAIN columns' = ColumnUrn
        /\ \A u \in ColumnUrn : columns'[u] # Nothing => ColumnAccepted(columns'[u])
    BY DEF Tombstone, Typed, TypeOK
  <2>3. /\ DOMAIN datasets' = Prefix
        /\ \A u \in Prefix : datasets'[u] # Nothing => DatasetAccepted(u, datasets'[u])
    BY DEF Tombstone, Typed, TypeOK
  <2>4. TypeOK'
    BY <1>1, <1>2, <1>5, <2>1, <2>2, <2>3 DEF Typed, TypeOK
  <2> QED BY <1>1, <2>4, StillHere DEF Typed, Memory, Listed, Reading
<1>7. Kinds'
  BY <1>1, <1>5 DEF Kinds, Listing
<1>8. Recorded'
  BY <1>1, <1>5 DEF Recorded, Closed
<1>9. Window'
  BY <1>1, WindowGoesOn
<1>10. TablesMet' /\ DatasetsMet'
  BY <1>1 DEF TablesMet, DatasetsMet, Listing, Reading
<1>11. Undisturbed'
  BY <1>1, StillHere DEF Undisturbed, Listing, Reading, QuietCursorIsExact, Quiet
<1> QED BY <1>6, <1>7, <1>8, <1>9, <1>10, <1>11

LEMMA SaveStep ==
    ASSUME IInv, Save, GoesOn, UNCHANGED <<kind, db, p, bucket, q>>
    PROVE  IInv'
<1> USE DEF IInv, Save, GoesOn, catalog, counts
<1>1. /\ pc = "save" /\ pc' = "idle" /\ saved' = seen /\ known' = empty /\ seen' = empty
      /\ UNCHANGED <<db, bucket, fails>>
  BY DEF Recorded
<1>2. seen \in Cursor /\ empty \in Cursor
  BY DEF Typed, TypeOK, empty, Cursor
<1>3. empty.table = {} /\ empty.column = {} /\ empty.dataset = {}
  BY DEF empty
<1>4. Typed'
  <2>1. TypeOK'
    BY <1>1, <1>2 DEF Typed, TypeOK
  <2> QED BY <1>1, <2>1, StillHere DEF Typed, Memory, Listed, Reading
<1>5. Kinds'
  BY <1>1, <1>3 DEF Kinds, Listing
<1>6. Recorded'
  BY <1>1, <1>3 DEF Recorded, Closed
<1>7. Window'
  BY <1>1, WindowGoesOn
<1>8. TablesMet' /\ DatasetsMet'
  BY <1>1, <1>3 DEF TablesMet, DatasetsMet, Listing, Reading
<1>9. Undisturbed'
  <2> SUFFICES ASSUME calm PROVE seen = [table |-> TablesHere, column |-> ColumnsHere,
                                         dataset |-> DatasetsHere]
    BY <1>1, StillHere DEF Undisturbed, Listing, Reading, QuietCursorIsExact, Quiet
  <2>1. seen.table = TablesHere
    BY <1>1 DEF TablesMet, Window, Here
  <2>2. seen.dataset = DatasetsHere
    BY <1>1 DEF DatasetsMet, Window, Here
  <2>3. \A u \in ColumnsHere : u[1] \in TablesHere
    BY DEF ColumnsHere, TablesHere
  <2>4. seen.column = ColumnsHere
    BY <1>1, <2>1, <2>3 DEF Undisturbed, Reading
  <2> QED BY <1>2, <2>1, <2>2, <2>4 DEF Cursor
<1> QED BY <1>4, <1>5, <1>6, <1>7, <1>8, <1>9

LEMMA FailStep ==
    ASSUME IInv, Fail, GoesOn, UNCHANGED <<kind, db, bucket>>,
           p' \in {p, AtRest}, q' \in {q, Unlisted}
    PROVE  IInv'
<1> USE DEF IInv, Fail, GoesOn, catalog
<1>1. /\ pc' = "idle" /\ UNCHANGED <<saved, db, bucket, drift>> /\ known' = empty /\ seen' = empty
      /\ fails' = fails + 1
  OBVIOUS
<1>2. ~calm' /\ fails' \in Nat
  <2>1. fails \in Nat
    BY DEF Typed, TypeOK
  <2>2. fails' # fails /\ fails' \in Nat
    BY <1>1, <2>1
  <2> QED BY <2>2
<1>3. empty.table = {} /\ empty.column = {} /\ empty.dataset = {} /\ empty \in Cursor
  BY DEF empty, Cursor
<1>4. Typed'
  <2>1. TypeOK'
    BY <1>1, <1>2, <1>3 DEF Typed, TypeOK
  <2>2. q'.todo \in Seq(Prefix) /\ q'.count \in Nat
        /\ q' = Listed(q'.todo, q'.last, q'.sample, q'.count)
    <3>1. CASE q' = q
      BY <3>1 DEF Typed
    <3>2. CASE q' = Unlisted
      BY <3>2, EmptySeq DEF Listed, Unlisted
    <3> QED BY <3>1, <3>2
  <2>3. /\ p' = Memory(p'.schemas, p'.rows, p'.row, p'.names, p'.pk, p'.fks, p'.refs)
        /\ p'.schemas \subseteq Included /\ p'.rows \subseteq Row
    BY DEF Typed, Memory, AtRest
  <2> QED BY <1>1, <2>1, <2>2, <2>3, StillHere DEF Typed, Memory, Listed, Reading
<1>5. Kinds'
  BY <1>1, <1>3 DEF Kinds, Listing
<1>6. Recorded'
  BY <1>1, <1>3 DEF Recorded, Closed
<1>7. Window'
  BY <1>1, WindowGoesOn
<1>8. TablesMet' /\ DatasetsMet'
  BY <1>1, <1>3 DEF TablesMet, DatasetsMet, Listing, Reading
<1>9. Undisturbed'
  BY <1>2 DEF Undisturbed
<1> QED BY <1>4, <1>5, <1>6, <1>7, <1>8, <1>9

\* What a change of the source makes of the window, and of all that depends on it.
LEMMA ChangeStep ==
    ASSUME IInv, Drifts, Changes, UNCHANGED <<kind, p, q>>,
           db' \in Seq(Slot), Consistent(db'), bucket' \in [Key -> Object \cup {Nothing}],
           \/ kind = "postgres" /\ UNCHANGED bucket
           \/ kind = "s3" /\ UNCHANGED db
    PROVE  IInv'
<1> USE DEF IInv, Drifts, Changes, cursors, catalog
<1>1. /\ ever'.table = ever.table \cup TablesHere' /\ always'.table = always.table \cap TablesHere'
      /\ ever'.dataset = ever.dataset \cup DatasetsHere'
      /\ always'.dataset = always.dataset \cap DatasetsHere'
      /\ ~calm' /\ UNCHANGED <<pc, saved, known, seen, tables, columns, datasets, fails>>
  OBVIOUS
<1>2. TablesHere' \subseteq TableUrn
  <2>1. \A o \in Oids' : db'[o] \in Relation
    BY LenProperties DEF Oids, Slot
  <2> QED BY <2>1 DEF TablesHere, Relation
<1>3. Typed'
  <2>1. drift' \in Nat
    BY DEF Typed, TypeOK
  <2>2. always'.table \subseteq TableUrn /\ ever'.table \subseteq TableUrn
    BY <1>1, <1>2 DEF Typed, TypeOK
  <2>3. TypeOK'
    BY <1>1, <2>1, <2>2 DEF Typed, TypeOK, Slot
  <2> QED BY <1>1, <2>3 DEF Typed, Memory, Listed, Reading
<1>4. Kinds'
  BY <1>1 DEF Kinds, Listing
<1>5. Recorded'
  BY <1>1 DEF Recorded, Closed, Reading
<1>6. Window'
  BY <1>1 DEF Window
<1>7. TablesMet'
  BY <1>1 DEF TablesMet, Listing, Reading
<1>8. DatasetsMet'
  BY <1>1 DEF DatasetsMet
<1>9. Undisturbed'
  BY <1>1 DEF Undisturbed
<1> QED BY <1>3, <1>4, <1>5, <1>6, <1>7, <1>8, <1>9
-----------------------------------------------------------------------------
(* The steps of a scrape of a bucket. *)

\* A page that is not the last holds an object.
LEMMA PageHolds ==
    ASSUME IInv, q.todo # <<>>
    PROVE  /\ Head(q.todo) \in Prefix
           /\ Cardinality(Counted) \in Nat
           /\ Cardinality(Counted) = 0 <=> Counted = {}
           /\ Counted \subseteq Present(Head(q.todo)) \ Marker
           /\ Page # Rest => Counted # {}
<1> DEFINE prefix == Head(q.todo)
<1>1. prefix \in Prefix
  BY HeadTailProperties DEF IInv, Typed
<1> HIDE DEF prefix
<1>2. Under[prefix] \subseteq 1..LastKey /\ IsFiniteSet(1..LastKey) /\ LastKey \in Nat
  BY <1>1, S3Assumption, FS_Interval
<1>3. Rest \subseteq Under[prefix]
  BY DEF Rest, Present, prefix
<1>4. Page \subseteq Rest
  BY DEF Page
<1>5. IsFiniteSet(Under[prefix])
  BY <1>2, FS_Subset
<1>6. IsFiniteSet(Counted)
  BY <1>3, <1>4, <1>5, FS_Subset DEF Counted
<1>7. ASSUME Page # Rest, Counted = {} PROVE FALSE
  <2>1. Page \subseteq Marker \cap Under[prefix]
    BY <1>3, <1>4, <1>7 DEF Counted
  <2>2. Rest \ Page \subseteq Nat /\ Rest \ Page # {}
    <3>1. Rest \subseteq Nat
      BY <1>2, <1>3
    <3> QED BY <1>4, <1>7, <3>1
  <2>3. PICK k \in Rest \ Page : \A j \in Rest \ Page : k <= j
    BY <2>2, LeastNatural
  <2> DEFINE B == {j \in Rest : j < k}
  <2>4. ~(Cardinality(B) < PageSize)
    <3>1. k \in Rest /\ k \notin Page
      BY <2>3
    <3> QED BY <3>1 DEF Page
  <2>5. B \subseteq Page
    BY <1>2, <1>3, <2>3
  <2>6. IsFiniteSet(Marker \cap Under[prefix])
    BY <1>5, FS_Subset
  <2>7. IsFiniteSet(B) /\ Cardinality(B) <= Cardinality(Marker \cap Under[prefix])
    BY <2>1, <2>5, <2>6, FS_Subset
  <2>8. Cardinality(B) \in Nat /\ Cardinality(Marker \cap Under[prefix]) \in Nat
    BY <2>6, <2>7, FS_CardinalityType
  <2>9. Cardinality(Marker \cap Under[prefix]) < PageSize /\ PageSize \in Nat
    BY <1>1, S3Assumption
  <2> QED BY <2>4, <2>7, <2>8, <2>9
<1>8. Counted \subseteq Present(prefix) \ Marker
  BY <1>4 DEF Counted, Rest, prefix
<1> QED BY <1>1, <1>6, <1>7, <1>8, FS_CardinalityType, FS_EmptySet DEF prefix

LEMMA DatasetHere ==
    ASSUME NEW i \in DOMAIN prefixes, Present(prefixes[i]) \ Marker # {}
    PROVE  prefixes[i] \in DatasetsHere
BY DEF DatasetsHere

LEMMA ConnectS3Step ==
    ASSUME IInv, ConnectS3, Begins, kind = "s3", UNCHANGED <<kind, db, p>>
    PROVE  IInv'
<1> USE DEF IInv, ConnectS3, Connect, Begins, catalog, counts
<1>1. /\ UNCHANGED <<db, bucket, saved, seen>> /\ pc = "idle" /\ pc' = "prefixes" /\ known' = saved
      /\ seen = empty /\ empty.dataset = {} /\ empty.table = {} /\ empty.column = {}
  BY DEF Recorded, empty
<1>2. q' = [todo |-> prefixes, last |-> 0, sample |-> <<>>, count |-> 0]
  BY DEF Unlisted
<1>3. Typed'
  <2>1. TypeOK'
    BY <1>1, TablesHereType DEF Typed, TypeOK, Here, Slot
  <2>2. q'.todo \in Seq(Prefix) /\ q'.count \in Nat
        /\ q' = Listed(q'.todo, q'.last, q'.sample, q'.count)
    <3>1. prefixes \in Seq(Prefix)
      BY S3Assumption
    <3>2. q' = Listed(q'.todo, q'.last, q'.sample, q'.count)
      BY <1>2 DEF Listed
    <3>3. q'.todo = prefixes /\ q'.count = 0
      BY <1>2
    <3> QED BY <3>1, <3>2, <3>3
  <2> QED BY <1>1, <2>1, <2>2, StillHere DEF Typed, Memory, Listed, Reading
<1>4. Kinds' /\ Recorded'
  BY <1>1 DEF Kinds, Listing, Recorded, Closed
<1>5. Window'
  BY <1>1, StillHere DEF Window, Here
<1>6. TablesMet'
  BY <1>1 DEF TablesMet, Listing, Reading
<1>7. DatasetsMet'
  <2>1. \A u \in DatasetsHere : \E i \in DOMAIN prefixes : prefixes[i] = u
    BY DEF DatasetsHere
  <2> QED BY <1>1, <1>2, <2>1 DEF DatasetsMet, Here
<1>8. Undisturbed'
  <2>1. ColumnsHere = {}
    BY NoTables DEF Kinds
  <2> QED BY <1>1, <2>1, StillHere DEF Undisturbed, Listing, Reading, QuietCursorIsExact, Quiet
<1> QED BY <1>3, <1>4, <1>5, <1>6, <1>7, <1>8

LEMMA TailElements ==
    ASSUME NEW S, NEW s \in Seq(S), s # <<>>
    PROVE  /\ Tail(s) \in Seq(S)
           /\ \A i \in DOMAIN s : s[i] = Head(s) \/ \E j \in DOMAIN Tail(s) : Tail(s)[j] = s[i]
           /\ \A j \in DOMAIN Tail(s) : \E i \in DOMAIN s : Tail(s)[j] = s[i]
<1>1. /\ Tail(s) \in Seq(S) /\ Len(Tail(s)) = Len(s) - 1 /\ Len(s) \in Nat
      /\ \A i \in 1..Len(Tail(s)) : Tail(s)[i] = s[i + 1]
      /\ DOMAIN s = 1..Len(s) /\ DOMAIN Tail(s) = 1..Len(Tail(s)) /\ Head(s) = s[1]
  BY HeadTailProperties, LenProperties
<1>2. ASSUME NEW i \in DOMAIN s, i # 1 PROVE i - 1 \in DOMAIN Tail(s) /\ Tail(s)[i - 1] = s[i]
  BY <1>1, <1>2
<1>3. ASSUME NEW j \in DOMAIN Tail(s) PROVE j + 1 \in DOMAIN s /\ Tail(s)[j] = s[j + 1]
  BY <1>1
<1> QED BY <1>1, <1>2, <1>3

\* Listing a prefix changes the memory of the listing alone.
LEMMA ListingGoesOn ==
    ASSUME IInv, GoesOn, kind = "s3", pc \in {"prefixes", "sniff"},
           pc' \in {"prefixes", "sniff", "diff"},
           UNCHANGED <<kind, db, p, bucket, cursors, catalog, counts>>,
           NEW todo \in Seq(Prefix), NEW last, NEW sample, NEW count \in Nat,
           q' = Listed(todo, last, sample, count),
           DatasetsMet'
    PROVE  IInv'
<1> USE DEF IInv, GoesOn, cursors, catalog, counts
<1>1. Typed'
  <2>1. TypeOK'
    BY DEF Typed, TypeOK
  <2> QED BY <2>1, StillHere DEF Typed, Memory, Listed, Reading
<1>2. Kinds' /\ Recorded'
  BY DEF Kinds, Listing, Recorded, Closed, Reading
<1>3. Window'
  BY WindowGoesOn
<1>4. TablesMet'
  <2>1. always.table = {}
    BY NoTables DEF Window, Kinds
  <2> QED BY <2>1 DEF TablesMet, Listing, Reading
<1>5. Undisturbed'
  <2>1. ColumnsHere = {}
    BY NoTables DEF Kinds
  <2> QED BY <2>1, StillHere
          DEF Undisturbed, Kinds, Listing, Reading, QuietCursorIsExact, Quiet
<1> QED BY <1>1, <1>2, <1>3, <1>4, <1>5

\* Behind a prefix whose dataset was met, or was not there all the time.
LEMMA NextPrefix ==
    ASSUME IInv, pc \in {"prefixes", "sniff"}, q.todo # <<>>,
           pc' = "prefixes", q' = Listed(Tail(q.todo), 0, <<>>, 0), UNCHANGED <<ever, always>>,
           seen.dataset \subseteq seen'.dataset, seen'.dataset \subseteq ever.dataset,
           Head(q.todo) \in seen'.dataset \/ Head(q.todo) \notin always.dataset
    PROVE  DatasetsMet' /\ Tail(q.todo) \in Seq(Prefix)
<1> DEFINE todo == q.todo
           tail == Tail(q.todo)
           head == Head(q.todo)
<1>1. /\ tail \in Seq(Prefix)
      /\ \A i \in DOMAIN todo : todo[i] = head \/ \E j \in DOMAIN tail : tail[j] = todo[i]
      /\ \A j \in DOMAIN tail : \E i \in DOMAIN todo : tail[j] = todo[i]
  BY TailElements DEF IInv, Typed
<1>2. q'.todo = tail /\ q'.last = 0 /\ q'.count = 0
  BY DEF Listed
<1>3. /\ \A u \in always.dataset : u \in seen.dataset \/ \E i \in DOMAIN todo : todo[i] = u
      /\ \A i \in DOMAIN todo : \E n \in DOMAIN prefixes : prefixes[n] = todo[i]
  BY DEF IInv, DatasetsMet
<1>4. head \in seen'.dataset \/ head \notin always.dataset
  OBVIOUS
<1> HIDE DEF todo, tail, head
<1>5. \A u \in always.dataset : u \in seen'.dataset \/ \E i \in DOMAIN tail : tail[i] = u
  BY <1>1, <1>3, <1>4
<1>6. \A i \in DOMAIN tail : \E n \in DOMAIN prefixes : prefixes[n] = tail[i]
  BY <1>1, <1>3
<1>7. DatasetsMet'
  BY <1>2, <1>5, <1>6 DEF DatasetsMet
<1> QED BY <1>1, <1>7 DEF tail

LEMMA ListPrefixStep ==
    ASSUME IInv, list_prefix, GoesOn, kind = "s3", UNCHANGED <<kind, db, p>>
    PROVE  IInv'
<1> DEFINE head == Head(q.todo)
           count == q.count + Cardinality(Counted)
<1> USE DEF GoesOn, cursors, catalog, counts
<1>1. /\ pc = "prefixes" /\ q.todo # <<>> /\ q.todo \in Seq(Prefix) /\ q.count \in Nat
      /\ UNCHANGED <<db, bucket, seen, known, saved, ever, always, fails>>
  BY DEF list_prefix, IInv, Typed
<1>2. q = Listed(q.todo, q.last, q.sample, q.count)
  BY DEF IInv, Typed
<1>3. \/ /\ Page # Rest /\ pc' = "prefixes"
         /\ \E last, sample : q' = [q EXCEPT !.last = last, !.count = count, !.sample = sample]
      \/ /\ Page = Rest /\ count = 0 /\ pc' = "prefixes"
         /\ q' = [Unlisted EXCEPT !.todo = Tail(q.todo)]
      \/ /\ Page = Rest /\ count # 0 /\ pc' = "sniff"
         /\ \E sample : q' = [q EXCEPT !.last = 0, !.count = count, !.sample = sample]
  BY DEF list_prefix
<1>4. /\ Cardinality(Counted) \in Nat
      /\ Cardinality(Counted) = 0 <=> Counted = {}
      /\ Counted \subseteq Present(head) \ Marker
      /\ Page # Rest => Counted # {}
  BY <1>1, PageHolds
<1>5. \E n \in DOMAIN prefixes : prefixes[n] = head
  <2>1. 1 \in DOMAIN q.todo /\ q.todo[1] = head
    BY <1>1
  <2> QED BY <1>1, <2>1 DEF IInv, DatasetsMet
<1>6. Counted # {} => head \in ever.dataset
  BY <1>4, <1>5, DatasetHere DEF IInv, Window
<1>7. count \in Nat /\ (count > 0 => head \in ever.dataset)
      /\ (count = 0 => Counted = {} /\ q.count = 0)
      /\ (Counted # {} => count > 0)
  <2>1. q.count > 0 => head \in ever.dataset
    BY <1>1 DEF IInv, DatasetsMet
  <2>2. count \in Nat /\ (count > 0 => q.count > 0 \/ Cardinality(Counted) # 0)
        /\ (count = 0 => Cardinality(Counted) = 0 /\ q.count = 0)
        /\ (Cardinality(Counted) # 0 => count > 0)
    BY <1>1, <1>4
  <2> HIDE DEF count
  <2> QED BY <1>4, <1>6, <2>1, <2>2
<1> HIDE DEF head, count
<1>8. ASSUME NEW last, NEW sample, q' = [q EXCEPT !.last = last, !.count = count, !.sample = sample],
             count > 0, pc' \in {"prefixes", "sniff"}
      PROVE  IInv'
  <2>1. /\ q' = Listed(q.todo, last, sample, count)
        /\ q'.todo = q.todo /\ q'.last = last /\ q'.count = count
    BY <1>2, <1>8 DEF Listed
  <2>2. Head(q'.todo) \in ever'.dataset /\ q'.todo # <<>> /\ q'.count > 0
    BY <1>1, <1>7, <1>8, <2>1 DEF head
  <2>3. \A u \in always'.dataset : u \in seen'.dataset \/ \E i \in DOMAIN q'.todo : q'.todo[i] = u
    BY <1>1, <2>1 DEF IInv, DatasetsMet
  <2>4. \A i \in DOMAIN q'.todo : \E n \in DOMAIN prefixes : prefixes[n] = q'.todo[i]
    BY <1>1, <2>1 DEF IInv, DatasetsMet
  <2>5. seen'.dataset \subseteq ever'.dataset
    BY <1>1 DEF IInv, DatasetsMet
  <2>6. DatasetsMet'
    BY <1>8, <2>2, <2>3, <2>4, <2>5 DEF DatasetsMet
  <2>7. UNCHANGED <<bucket, cursors, catalog, counts>>
    BY DEF list_prefix
  <2>8. pc \in {"prefixes", "sniff"} /\ pc' \in {"prefixes", "sniff", "diff"}
    BY <1>1, <1>8
  <2> HIDE DEF GoesOn, cursors, catalog, counts
  <2> QED BY <1>1, <1>7, <2>1, <2>6, <2>7, <2>8, ListingGoesOn
<1>9. ASSUME Page = Rest, count = 0, pc' = "prefixes", q' = [Unlisted EXCEPT !.todo = Tail(q.todo)]
      PROVE  IInv'
  <2>1. q' = Listed(Tail(q.todo), 0, <<>>, 0)
    BY <1>9 DEF Listed, Unlisted
  <2>2. head \notin always.dataset
    <3>1. q.last = 0 /\ Counted = {}
      BY <1>1, <1>7, <1>9 DEF IInv, DatasetsMet
    <3>2. Present(head) \subseteq 1..LastKey
      BY <1>1, HeadTailProperties, S3Assumption DEF Present, head
    <3>3. Rest = Present(head)
      BY <3>1, <3>2, S3Assumption DEF Rest, head
    <3>4. Present(head) \ Marker = {}
      BY <1>9, <3>1, <3>3 DEF Counted
    <3> QED BY <3>4 DEF IInv, Window, DatasetsHere
  <2>3. seen'.dataset = seen.dataset /\ seen.dataset \subseteq ever.dataset
    BY <1>1 DEF IInv, DatasetsMet
  <2>4. DatasetsMet' /\ Tail(q.todo) \in Seq(Prefix)
    BY <1>1, <1>9, <2>1, <2>2, <2>3, NextPrefix DEF head
  <2>5. UNCHANGED <<bucket, cursors, catalog, counts>>
    BY DEF list_prefix
  <2>6. pc \in {"prefixes", "sniff"} /\ pc' \in {"prefixes", "sniff", "diff"} /\ 0 \in Nat
    BY <1>1, <1>9
  <2> HIDE DEF GoesOn, cursors, catalog, counts
  <2> QED BY <2>1, <2>4, <2>5, <2>6, ListingGoesOn
<1>10. CASE Page # Rest /\ pc' = "prefixes"
  <2>1. count > 0
    BY <1>4, <1>7, <1>10
  <2>2. \E last, sample : q' = [q EXCEPT !.last = last, !.count = count, !.sample = sample]
    BY <1>3, <1>10
  <2> QED BY <1>8, <1>10, <2>1, <2>2
<1>11. CASE Page = Rest /\ count # 0 /\ pc' = "sniff"
  <2>1. count > 0
    BY <1>7, <1>11
  <2>2. \E sample : q' = [q EXCEPT !.last = 0, !.count = count, !.sample = sample]
    BY <1>3, <1>11
  <2> QED BY <1>8, <1>11, <2>1, <2>2
<1> QED BY <1>3, <1>9, <1>10, <1>11

LEMMA SniffStep ==
    ASSUME IInv, sniff_object_bytes, GoesOn, kind = "s3", UNCHANGED <<kind, db, p>>
    PROVE  IInv'
<1> DEFINE head == Head(q.todo)
<1> USE DEF IInv, GoesOn
<1>1. PICK o : Deliver(o) /\ pc = "sniff" /\ (fails' = fails \/ fails' = fails + 1)
  BY DEF sniff_object_bytes
<1>2. /\ pc = "sniff" /\ pc' = "prefixes" /\ q' = Listed(Tail(q.todo), 0, <<>>, 0)
      /\ UNCHANGED <<saved, tables, columns, drift, bucket, db>>
      /\ seen' = [seen EXCEPT !.dataset = @ \cup {head}]
      /\ known' = [known EXCEPT !.dataset = @ \cup {head}]
  BY <1>1 DEF Deliver, Listed, Unlisted
<1>3. q.count > 0 /\ q.todo # <<>> /\ head \in ever.dataset /\ q.todo \in Seq(Prefix)
  BY <1>2 DEF DatasetsMet, Typed
<1>4. head \in Prefix
  BY <1>3, HeadTailProperties
<1>5. /\ seen' \in Cursor /\ known' \in Cursor /\ seen \in Cursor /\ known \in Cursor
      /\ seen'.dataset = seen.dataset \cup {head} /\ known'.dataset = known.dataset \cup {head}
      /\ seen'.table = seen.table /\ known'.table = known.table
      /\ seen'.column = seen.column /\ known'.column = known.column
  BY <1>2, <1>4 DEF Typed, TypeOK, Cursor
<1>6. DatasetsMet' /\ Tail(q.todo) \in Seq(Prefix)
  <2>1. seen'.dataset \subseteq ever.dataset /\ head \in seen'.dataset
        /\ seen.dataset \subseteq seen'.dataset
    BY <1>3, <1>5 DEF DatasetsMet
  <2> QED BY <1>2, <1>3, <2>1, NextPrefix
<1>7. Typed'
  <2>1. DOMAIN datasets' = Prefix
        /\ \A u \in Prefix : datasets'[u] # Nothing => DatasetAccepted(u, datasets'[u])
    <3> PICK d : datasets' = IF DatasetAccepted(head, d) THEN [datasets EXCEPT ![head] = d] ELSE datasets
      BY <1>1 DEF Deliver
    <3> QED BY <1>4 DEF Typed, TypeOK
  <2>2. fails' \in Nat
    BY <1>1 DEF Typed, TypeOK
  <2>3. TypeOK'
    BY <1>2, <1>5, <2>1, <2>2 DEF Typed, TypeOK
  <2> QED BY <1>2, <1>6, <2>3, StillHere DEF Typed, Memory, Listed, Reading
<1>8. Kinds'
  BY <1>2, <1>5 DEF Kinds, Listing
<1>9. Recorded'
  BY <1>2, <1>5 DEF Recorded, Closed, Reading
<1>10. Window'
  BY <1>2, WindowGoesOn
<1>11. TablesMet'
  <2>1. always.table = {}
    BY NoTables DEF Window, Kinds
  <2> QED BY <1>2, <1>5, <2>1 DEF TablesMet, Listing, Reading
<1>12. Undisturbed'
  <2>1. ColumnsHere = {} /\ calm' => calm
    BY NoTables DEF Kinds
  <2> QED BY <1>2, <1>5, <2>1, StillHere
          DEF Undisturbed, Kinds, Listing, Reading, QuietCursorIsExact, Quiet
<1> QED BY <1>6, <1>7, <1>8, <1>9, <1>10, <1>11, <1>12

LEMMA ListedPrefixesStep ==
    ASSUME IInv, ListedPrefixes, GoesOn, kind = "s3", UNCHANGED <<kind, db, p>>
    PROVE  IInv'
<1>1. /\ pc = "prefixes" /\ pc' = "diff" /\ q.todo = <<>>
      /\ UNCHANGED <<cursors, catalog, counts, bucket, q>>
  BY DEF ListedPrefixes
<1>2. DatasetsMet'
  BY <1>1, EmptySeq DEF IInv, DatasetsMet, GoesOn, cursors
<1>3. q' = Listed(q.todo, q.last, q.sample, q.count) /\ q.todo \in Seq(Prefix) /\ q.count \in Nat
  BY <1>1 DEF IInv, Typed
<1>4. pc \in {"prefixes", "sniff"} /\ pc' \in {"prefixes", "sniff", "diff"}
  BY <1>1
<1> QED BY <1>1, <1>2, <1>3, <1>4, ListingGoesOn
-----------------------------------------------------------------------------
(* The invariant. *)

LEMMA NextInv == IInv /\ [Next]_vars => IInv'
<1> SUFFICES ASSUME IInv, [Next]_vars PROVE IInv'
  OBVIOUS
<1>1. /\ db \in Seq(Slot) /\ Consistent(db) /\ bucket \in [Key -> Object \cup {Nothing}]
  BY DEF IInv, Typed, TypeOK, Slot
<1>2. CASE kind = "postgres" /\ UNCHANGED <<kind, bucket, q>> /\ NextPostgres
  <2>1. CASE ConnectPostgres /\ Begins
    BY <1>2, <2>1, ConnectPostgresStep
  <2>2. CASE ListTables /\ GoesOn
    BY <1>2, <2>2, ListTablesStep
  <2>3. CASE ListAttnames /\ GoesOn
    BY <1>2, <2>3, ListAttnamesStep
  <2>4. CASE ListConstraints /\ GoesOn
    BY <1>2, <2>4, ListConstraintsStep
  <2>5. CASE ResolveReference /\ GoesOn
    BY <1>2, <2>5, ResolveReferenceStep
  <2>6. CASE ListColumns /\ GoesOn
    BY <1>2, <2>6, ListColumnsStep
  <2>7. CASE ListedTables /\ GoesOn
    BY <1>2, <2>7, ListedTablesStep
  <2>8. CASE Tombstone /\ UNCHANGED <<db, p>> /\ GoesOn
    BY <1>2, <2>8, TombstoneStep
  <2>9. CASE Save /\ UNCHANGED <<db, p>> /\ GoesOn
    BY <1>2, <2>9, SaveStep
  <2>10. CASE Fail /\ p' = AtRest /\ UNCHANGED db /\ GoesOn
    BY <1>2, <2>10, FailStep
  <2>11. CASE ChangeDatabase /\ Changes
    <3>1. db' \in Seq(Slot) /\ Consistent(db')
      BY <1>1, <2>11, DatabaseStep
    <3>2. Drifts /\ UNCHANGED <<kind, p, q>>
      BY <1>2, <2>11 DEF ChangeDatabase
    <3> QED BY <1>1, <1>2, <2>11, <3>1, <3>2, ChangeStep
  <2> QED BY <1>2, <2>1, <2>2, <2>3, <2>4, <2>5, <2>6, <2>7, <2>8, <2>9, <2>10, <2>11
          DEF NextPostgres, ScrapePostgres, DiscoverTables
<1>3. CASE kind = "s3" /\ UNCHANGED <<kind, db, p>> /\ NextS3
  <2>1. CASE ConnectS3 /\ Begins
    BY <1>3, <2>1, ConnectS3Step
  <2>2. CASE list_prefix /\ GoesOn
    BY <1>3, <2>2, ListPrefixStep
  <2>3. CASE sniff_object_bytes /\ GoesOn
    BY <1>3, <2>3, SniffStep
  <2>4. CASE ListedPrefixes /\ GoesOn
    BY <1>3, <2>4, ListedPrefixesStep
  <2>5. CASE Tombstone /\ UNCHANGED <<bucket, q>> /\ GoesOn
    BY <1>3, <2>5, TombstoneStep
  <2>6. CASE Save /\ UNCHANGED <<bucket, q>> /\ GoesOn
    BY <1>3, <2>6, SaveStep
  <2>7. CASE Fail /\ q' = Unlisted /\ UNCHANGED bucket /\ GoesOn
    BY <1>3, <2>7, FailStep
  <2>8. CASE ChangeBucket /\ Changes
    <3>1. bucket' \in [Key -> Object \cup {Nothing}] /\ Drifts /\ UNCHANGED q
      BY <1>1, <2>8 DEF ChangeBucket
    <3>2. Consistent(db')
      BY <1>1, <1>3
    <3> QED BY <1>1, <1>3, <2>8, <3>1, <3>2, ChangeStep
  <2> QED BY <1>3, <2>1, <2>2, <2>3, <2>4, <2>5, <2>6, <2>7, <2>8
          DEF NextS3, ScrapeS3, DiscoverDatasets
<1>4. CASE UNCHANGED vars
  <2>1. UNCHANGED <<pc, saved, known, seen, tables, columns, datasets, drift, fails,
                    db, p, bucket, q, kind, calm, ever, always>>
    BY <1>4 DEF vars, cursors, catalog, counts, history
  <2>2. Typed'
    <3>1. TypeOK'
      BY <2>1 DEF IInv, Typed, TypeOK
    <3> QED BY <2>1, <3>1, StillHere DEF IInv, Typed, Memory, Listed, Reading
  <2>3. Kinds' /\ Recorded' /\ Window' /\ TablesMet' /\ DatasetsMet'
    BY <2>1, StillHere DEF IInv, Kinds, Recorded, Closed, Window, TablesMet, DatasetsMet, Listing, Reading
  <2>4. Undisturbed'
    BY <2>1, StillHere DEF IInv, Undisturbed, Listing, Reading, QuietCursorIsExact, Quiet
  <2> QED BY <2>2, <2>3, <2>4 DEF IInv
<1> QED BY <1>2, <1>3, <1>4 DEF Next

LEMMA Invariant == Spec => []IInv
BY InitInv, NextInv, PTL DEF Spec

\* Whatever the source holds and does, what the catalog shows is what its schemas
\* accept: a column of a known type whose reference is complete, a table with a row
\* count of at least zero, fields with names (TableAccepted, ColumnAccepted,
\* DatasetAccepted at the end of ListColumns and of Deliver).
THEOREM TypeCorrect == Spec => []TypeOK
<1>1. IInv => TypeOK
  BY DEF IInv, Typed
<1> QED BY <1>1, Invariant, PTL

\* The cursor on disk knows the table of every column it knows, though the two are
\* diffed independently of each other.
THEOREM CursorIsClosedAlways == Spec => []CursorIsClosed
<1>1. IInv => CursorIsClosed
  BY DEF IInv, Recorded, Closed, CursorIsClosed
<1> QED BY <1>1, Invariant, PTL

\* After a scrape that nothing disturbed, the cursor on disk holds the tables, the
\* columns and the datasets of the source and nothing else, whatever cursor earlier
\* scrapes had left.
THEOREM QuietCursorIsExactAlways == Spec => []QuietCursorIsExact
<1>1. ASSUME IInv PROVE QuietCursorIsExact
  <2>1. calm => QuietCursorIsExact
    BY <1>1 DEF IInv, Undisturbed
  <2> QED BY <2>1 DEF QuietCursorIsExact, Quiet
<1> QED BY <1>1, Invariant, PTL
-----------------------------------------------------------------------------
(* What a connector promises. *)

\* The cursor in memory is that of the source's kind, and only these steps touch it.
LEMMA Steps ==
    ASSUME IInv, Next
    PROVE  \/ /\ pc = "idle" /\ pc' # "idle" /\ known' = saved
              /\ UNCHANGED <<saved, db, bucket>> /\ Begins
           \/ /\ kind = "postgres" /\ ListColumns /\ pc # "idle" /\ pc' # "idle"
              /\ known'.table = known.table \cup {p.row.name} /\ known'.dataset = known.dataset
              /\ UNCHANGED <<saved, db, bucket, ever, always>>
           \/ /\ kind = "s3" /\ pc = "sniff" /\ pc' # "idle"
              /\ known'.dataset = known.dataset \cup {Head(q.todo)} /\ known'.table = known.table
              /\ UNCHANGED <<saved, db, bucket, ever, always>>
           \/ /\ Tombstone /\ pc = "diff" /\ pc' # "idle"
              /\ UNCHANGED <<saved, db, bucket, ever, always>>
           \/ /\ Save /\ UNCHANGED <<db, bucket, ever, always>>
           \/ /\ Fail /\ UNCHANGED <<saved, db, bucket, ever, always>>
           \/ /\ pc # "idle" /\ pc' # "idle"
              /\ UNCHANGED <<saved, known, db, bucket, ever, always>>
           \/ /\ Changes /\ UNCHANGED <<pc, saved, known>>
<1>1. known \in Cursor
  BY DEF IInv, Typed, TypeOK
<1>2. CASE kind = "postgres" /\ UNCHANGED bucket /\ NextPostgres
  <2>1. CASE ConnectPostgres /\ Begins
    BY <1>2, <2>1 DEF ConnectPostgres, Connect
  <2>2. CASE ListColumns /\ GoesOn
    <3>1. known'.table = known.table \cup {p.row.name} /\ known'.dataset = known.dataset
      BY <1>1, <2>2 DEF ListColumns, Cursor
    <3> QED BY <1>2, <2>2, <3>1 DEF ListColumns, GoesOn
  <2>3. CASE DiscoverTables /\ ~ListColumns /\ GoesOn
    BY <1>2, <2>3 DEF DiscoverTables, ListTables, ListAttnames, ListConstraints, ResolveReference,
                      ListedTables, GoesOn, cursors
  <2>4. CASE (Tombstone \/ Save) /\ UNCHANGED <<db, p>> /\ GoesOn
    BY <1>2, <2>4 DEF Tombstone, GoesOn
  <2>5. CASE Fail /\ UNCHANGED db /\ GoesOn
    BY <1>2, <2>5 DEF Fail, GoesOn
  <2>6. CASE ChangeDatabase /\ Changes
    BY <1>2, <2>6 DEF ChangeDatabase, Drifts, cursors
  <2> QED BY <1>2, <2>1, <2>2, <2>3, <2>4, <2>5, <2>6 DEF NextPostgres, ScrapePostgres
<1>3. CASE kind = "s3" /\ UNCHANGED db /\ NextS3
  <2>1. CASE ConnectS3 /\ Begins
    BY <1>3, <2>1 DEF ConnectS3, Connect
  <2>2. CASE sniff_object_bytes /\ GoesOn
    <3> PICK o : Deliver(o)
      BY <2>2 DEF sniff_object_bytes
    <3>1. known'.dataset = known.dataset \cup {Head(q.todo)} /\ known'.table = known.table
      BY <1>1 DEF Deliver, Cursor
    <3> QED BY <1>3, <2>2, <3>1 DEF sniff_object_bytes, Deliver, GoesOn
  <2>3. CASE (list_prefix \/ ListedPrefixes) /\ GoesOn
    BY <1>3, <2>3 DEF list_prefix, ListedPrefixes, GoesOn, cursors
  <2>4. CASE (Tombstone \/ Save) /\ UNCHANGED <<bucket, q>> /\ GoesOn
    BY <1>3, <2>4 DEF Tombstone, GoesOn
  <2>5. CASE Fail /\ UNCHANGED bucket /\ GoesOn
    BY <1>3, <2>5 DEF Fail, GoesOn
  <2>6. CASE ChangeBucket /\ Changes
    BY <1>3, <2>6 DEF ChangeBucket, Drifts, cursors
  <2> QED BY <1>3, <2>1, <2>2, <2>3, <2>4, <2>5, <2>6 DEF NextS3, ScrapeS3, DiscoverDatasets
<1> QED BY <1>2, <1>3 DEF Next
LEMMA DatasetsHereType == DatasetsHere \subseteq Prefix
BY S3Assumption DEF DatasetsHere

LEMMA TStep ==
    ASSUME IInv, IInv', [Next]_vars
    PROVE  [T!Next]_T!vars
<1> USE DEF T!vars
<1>1. /\ saved \in Cursor /\ known \in Cursor /\ seen \in Cursor /\ empty.table = {}
      /\ always.table \subseteq TablesHere /\ TablesHere' \subseteq TableUrn
  <2>1. TablesHere' \subseteq TableUrn
    BY DEF IInv, Typed, TypeOK, Window
  <2> QED BY <2>1 DEF IInv, Typed, TypeOK, Window, empty
<1>2. CASE UNCHANGED vars
  <2>1. UNCHANGED <<pc, saved, known, db, bucket, ever, always>>
    BY <1>2 DEF vars, cursors, history
  <2> QED BY <2>1, StillHere
<1>3. CASE Next
  <2>1. CASE pc = "idle" /\ pc' # "idle" /\ known' = saved /\ UNCHANGED <<saved, db, bucket>> /\ Begins
    <3>1. T!Begin
      BY <2>1, StillHere DEF T!Begin, Begins, Here
    <3> QED BY <3>1 DEF T!Next
  <2>2. CASE kind = "postgres" /\ ListColumns /\ pc # "idle" /\ pc' # "idle"
             /\ known'.table = known.table \cup {p.row.name} /\ known'.dataset = known.dataset
             /\ UNCHANGED <<saved, db, bucket, ever, always>>
    <3>1. p.row.name \in ever.table
      BY <2>2 DEF IInv, ListColumns, TablesMet, Reading
    <3>2. T!Report
      BY <2>2, <3>1, StillHere DEF T!Report
    <3> QED BY <3>2 DEF T!Next
  <2>3. CASE kind = "s3" /\ pc = "sniff" /\ pc' # "idle"
             /\ known'.dataset = known.dataset \cup {Head(q.todo)} /\ known'.table = known.table
             /\ UNCHANGED <<saved, db, bucket, ever, always>>
    BY <2>3, StillHere
  <2>4. CASE Tombstone /\ pc = "diff" /\ pc' # "idle" /\ UNCHANGED <<saved, db, bucket, ever, always>>
    <3>1. known'.table = known.table \ (known.table \ seen.table)
      BY <2>4 DEF Tombstone, diff_deleted_urns
    <3>2. always.table \subseteq seen.table
      BY <2>4 DEF IInv, TablesMet, DatasetsMet
    <3>3. T!Retire
      BY <2>4, <3>1, <3>2, StillHere DEF T!Retire
    <3> QED BY <3>3 DEF T!Next
  <2>5. CASE Save /\ UNCHANGED <<db, bucket, ever, always>>
    <3>1. pc = "save" /\ pc' = "idle" /\ saved' = known /\ known' = empty
      BY <2>5 DEF Save
    <3>2. known = seen /\ always.table \subseteq seen.table /\ seen.table \subseteq ever.table
      BY <3>1 DEF IInv, Recorded, TablesMet, DatasetsMet
    <3>3. T!Save
      BY <1>1, <2>5, <3>1, <3>2, StillHere DEF T!Save
    <3> QED BY <3>3 DEF T!Next
  <2>6. CASE Fail /\ UNCHANGED <<saved, db, bucket, ever, always>>
    <3>1. T!Fail
      BY <1>1, <2>6, StillHere DEF T!Fail, Fail
    <3> QED BY <3>1 DEF T!Next
  <2>7. CASE pc # "idle" /\ pc' # "idle" /\ UNCHANGED <<saved, known, db, bucket, ever, always>>
    BY <2>7, StillHere
  <2>8. CASE Changes /\ UNCHANGED <<pc, saved, known>>
    <3>1. T!Change
      BY <1>1, <2>8 DEF T!Change, Changes
    <3> QED BY <3>1 DEF T!Next
  <2> QED BY <1>3, <2>1, <2>2, <2>3, <2>4, <2>5, <2>6, <2>7, <2>8, Steps
<1> QED BY <1>2, <1>3

LEMMA DStep ==
    ASSUME IInv, IInv', [Next]_vars
    PROVE  [D!Next]_D!vars
<1> USE DEF D!vars
<1>1. /\ saved \in Cursor /\ known \in Cursor /\ seen \in Cursor /\ empty.dataset = {}
      /\ always.dataset \subseteq DatasetsHere /\ DatasetsHere' \subseteq Prefix
  <2>1. DatasetsHere' \subseteq Prefix
    BY S3Assumption DEF DatasetsHere
  <2> QED BY <2>1 DEF IInv, Typed, TypeOK, Window, empty
<1>2. CASE UNCHANGED vars
  <2>1. UNCHANGED <<pc, saved, known, db, bucket, ever, always>>
    BY <1>2 DEF vars, cursors, history
  <2> QED BY <2>1, StillHere
<1>3. CASE Next
  <2>1. CASE pc = "idle" /\ pc' # "idle" /\ known' = saved /\ UNCHANGED <<saved, db, bucket>> /\ Begins
    <3>1. D!Begin
      BY <2>1, StillHere DEF D!Begin, Begins, Here
    <3> QED BY <3>1 DEF D!Next
  <2>2. CASE kind = "postgres" /\ ListColumns /\ pc # "idle" /\ pc' # "idle"
             /\ known'.table = known.table \cup {p.row.name} /\ known'.dataset = known.dataset
             /\ UNCHANGED <<saved, db, bucket, ever, always>>
    BY <2>2, StillHere
  <2>3. CASE kind = "s3" /\ pc = "sniff" /\ pc' # "idle"
             /\ known'.dataset = known.dataset \cup {Head(q.todo)} /\ known'.table = known.table
             /\ UNCHANGED <<saved, db, bucket, ever, always>>
    <3>1. Head(q.todo) \in ever.dataset
      BY <2>3 DEF IInv, DatasetsMet
    <3>2. D!Report
      BY <2>3, <3>1, StillHere DEF D!Report
    <3> QED BY <3>2 DEF D!Next
  <2>4. CASE Tombstone /\ pc = "diff" /\ pc' # "idle" /\ UNCHANGED <<saved, db, bucket, ever, always>>
    <3>1. known'.dataset = known.dataset \ (known.dataset \ seen.dataset)
      BY <2>4 DEF Tombstone, diff_deleted_urns
    <3>2. always.dataset \subseteq seen.dataset
      BY <2>4 DEF IInv, TablesMet, DatasetsMet
    <3>3. D!Retire
      BY <2>4, <3>1, <3>2, StillHere DEF D!Retire
    <3> QED BY <3>3 DEF D!Next
  <2>5. CASE Save /\ UNCHANGED <<db, bucket, ever, always>>
    <3>1. pc = "save" /\ pc' = "idle" /\ saved' = known /\ known' = empty
      BY <2>5 DEF Save
    <3>2. known = seen /\ always.dataset \subseteq seen.dataset /\ seen.dataset \subseteq ever.dataset
      BY <3>1 DEF IInv, Recorded, TablesMet, DatasetsMet
    <3>3. D!Save
      BY <1>1, <2>5, <3>1, <3>2, StillHere DEF D!Save
    <3> QED BY <3>3 DEF D!Next
  <2>6. CASE Fail /\ UNCHANGED <<saved, db, bucket, ever, always>>
    <3>1. D!Fail
      BY <1>1, <2>6, StillHere DEF D!Fail, Fail
    <3> QED BY <3>1 DEF D!Next
  <2>7. CASE pc # "idle" /\ pc' # "idle" /\ UNCHANGED <<saved, known, db, bucket, ever, always>>
    BY <2>7, StillHere
  <2>8. CASE Changes /\ UNCHANGED <<pc, saved, known>>
    <3>1. D!Change
      BY <1>1, <2>8 DEF D!Change, Changes
    <3> QED BY <3>1 DEF D!Next
  <2> QED BY <1>3, <2>1, <2>2, <2>3, <2>4, <2>5, <2>6, <2>7, <2>8, Steps
<1> QED BY <1>2, <1>3

\* A relation is reported only if it was there at some moment of the scrape, and one
\* that was there all the time is neither tombstoned nor left out of the cursor that
\* is saved (discover() and _tombstone() of postgres/connector.py against base.py),
\* whatever is created, renamed, swapped and dropped between two queries.
THEOREM TablesKeptAlways == Spec => TablesKept
<1>1. Init => T!Init
  <2> SUFFICES ASSUME Init PROVE T!Init
    OBVIOUS
  <2>1. TablesHere \subseteq TableUrn
    BY InitInv, TablesHereType DEF IInv, Typed, TypeOK, Slot
  <2> QED BY <2>1 DEF Init, InitConnector, empty, Here, T!Init
<1>2. IInv /\ IInv' /\ [Next]_vars => [T!Next]_T!vars
  BY TStep
<1> QED BY <1>1, <1>2, Invariant, PTL DEF Spec, TablesKept, T!Spec

\* The same for the datasets of a bucket whose objects come and go while it is
\* listed page by page (s3/connector.py), as long as a page cannot be full of markers.
THEOREM DatasetsKeptAlways == Spec => DatasetsKept
<1>1. Init => D!Init
  BY DatasetsHereType DEF Init, InitConnector, empty, Here, D!Init
<1>2. IInv /\ IInv' /\ [Next]_vars => [D!Next]_D!vars
  BY DStep
<1> QED BY <1>1, <1>2, Invariant, PTL DEF Spec, DatasetsKept, D!Spec

-----------------------------------------------------------------------------
(* What an undisturbed scrape has read, and what the catalog shows of it. *)

\* The names of a relation's columns, as LIST_ATTNAMES returns them.
Names(o) == [a \in DOMAIN db[o].cols |-> IF a \in Attnums(o) THEN db[o].cols[a].name ELSE Nothing]

\* A reference before and after its target was resolved.
Pending(o, a) ==
    LET fk == db[o].cols[a].fk IN
    [local |-> db[o].cols[a].name, table |-> Target(fk).table, ref |-> fk]

Resolved(o, a) ==
    LET fk == db[o].cols[a].fk IN
    [local |-> db[o].cols[a].name, table |-> Target(fk).table, column |-> Target(fk).column]

References(o) == {a \in Attnums(o) : db[o].cols[a].fk # Nothing}

KeysRead(o) ==
    /\ p.pk = {db[o].cols[a].name : a \in {b \in Attnums(o) : db[o].cols[b].pk}}
    /\ \A f \in p.fks : \E a \in References(o) : f = Pending(o, a)
    /\ \A r \in p.refs : \E a \in References(o) : r = Resolved(o, a)
    /\ \A a \in References(o) : Pending(o, a) \in p.fks \/ Resolved(o, a) \in p.refs

RowRead(o) ==
    /\ p.row.reltuples = db[o].reltuples
    /\ pc = "constraints" => p.names = Names(o)
    /\ pc = "references" => KeysRead(o)

\* Met, and not being read any more.
Finished(o) ==
    db[o].name[1] \in Included /\ db[o].name \in seen.table /\ ~(Reading /\ p.row.name = db[o].name)

TablesRead ==
    /\ pc \in {"tables", "constraints"} => p.refs = {}
    /\ calm =>
         /\ Listing => \A r \in p.rows : r.reltuples = db[r.oid].reltuples
         /\ Reading => \A o \in Oids : p.row.oid = o => RowRead(o)
         /\ pc # "idle" => \A o \in Oids : Finished(o) => TableIsShown(o)
         /\ pc = "idle" => TablesAreShown

\* The objects ks of a prefix were counted, and the first of them are the sample.
PrefixRead(ks, count, sample) ==
    /\ count = Cardinality(ks)
    /\ sample \in Seq(ks)
    /\ Len(sample) = IF count < sample_limit THEN count ELSE sample_limit
    /\ \A i \in 1..Len(sample) : Place(ks, sample[i]) = i - 1

DatasetsRead ==
    calm =>
        /\ pc = "prefixes" /\ q.todo # <<>> =>
             /\ q.last \in Nat
             /\ PrefixRead({k \in Objects(Head(q.todo)) : k <= q.last}, q.count, q.sample)
        /\ pc = "sniff" => PrefixRead(Objects(Head(q.todo)), q.count, q.sample)
        /\ pc # "idle" => \A u \in seen.dataset : DatasetIsShown(u)
        /\ pc = "idle" => DatasetsAreShown

\* As long as nothing failed, the catalog shows what the cursor knows.
Knows(cursor) ==
    /\ \A u \in TableUrn : tables[u] # Nothing => u \in cursor.table
    /\ \A u \in ColumnUrn : columns[u] # Nothing => u \in cursor.column
    /\ \A u \in Prefix : datasets[u] # Nothing => u \in cursor.dataset

ShownIsKnown == fails = 0 => Knows(IF pc = "idle" THEN saved ELSE known)

QInv == TablesRead /\ DatasetsRead /\ ShownIsKnown

-----------------------------------------------------------------------------
(* What an undisturbed scrape of a database has read. *)

LEMMA NothingPending ==
    ASSUME IInv, IInv', TablesRead, [Next]_vars
    PROVE  pc' \in {"tables", "constraints"} => p'.refs = {}
<1> SUFFICES ASSUME pc' \in {"tables", "constraints"} PROVE p'.refs = {}
  OBVIOUS
<1>1. p = Memory(p.schemas, p.rows, p.row, p.names, p.pk, p.fks, p.refs)
  BY DEF IInv, Typed
<1>2. pc \in {"tables", "constraints"} => p.refs = {}
  BY DEF TablesRead
<1>3. CASE UNCHANGED vars
  BY <1>2, <1>3 DEF vars
<1>4. CASE kind = "s3" /\ UNCHANGED kind
  BY <1>4 DEF IInv, Kinds, Listing
<1>5. CASE NextPostgres
  <2>1. CASE ConnectPostgres
    BY <2>1 DEF ConnectPostgres, AtRest
  <2>2. CASE ListTables
    BY <1>1, <1>2, <2>2 DEF ListTables, Memory
  <2>3. CASE ListAttnames
    BY <1>1, <1>2, <2>3 DEF ListAttnames, Memory
  <2>4. CASE ListColumns
    BY <2>4 DEF ListColumns, AtRest
  <2>5. CASE ListConstraints \/ ResolveReference \/ ListedTables \/ Tombstone
    BY <2>5 DEF ListConstraints, ResolveReference, ListedTables, Tombstone
  <2>7. CASE Save \/ Fail
    BY <2>7 DEF Save, Fail
  <2>6. CASE ChangeDatabase
    BY <1>2, <2>6 DEF ChangeDatabase, Drifts
  <2> QED BY <1>5, <2>1, <2>2, <2>3, <2>4, <2>5, <2>6, <2>7 DEF NextPostgres, ScrapePostgres, DiscoverTables
<1> QED BY <1>3, <1>4, <1>5 DEF Next

\* A table is shown as it was shown.
LEMMA ShownAgain ==
    ASSUME UNCHANGED db, NEW o \in Oids, TableIsShown(o),
           tables'[db[o].name] = tables[db[o].name],
           \A a \in Attnums(o) : LET u == <<db[o].name, db[o].cols[a].name>> IN columns'[u] = columns[u]
    PROVE  TableIsShown(o)'
<1>1. Attnums(o)' = Attnums(o)
  BY DEF Attnums, Oids
<1>2. \A a : ColumnHere(o, a)' = ColumnHere(o, a)
  BY DEF ColumnHere, Target
<1> QED BY <1>1, <1>2 DEF TableIsShown

\* What holds of the steps of a scrape that has met no trouble.
Undisturbing == calm /\ calm' /\ UNCHANGED <<kind, db, bucket, fails, ever, always>>

LEMMA ConnectPostgresReads ==
    ASSUME IInv, ConnectPostgres, UNCHANGED bucket
    PROVE  /\ calm' => /\ ~Reading' /\ p'.rows = {} /\ pc' = "tables" /\ seen'.table = {}
BY DEF ConnectPostgres, Connect, AtRest, Reading, IInv, Recorded, empty

LEMMA ListTablesReads ==
    ASSUME IInv, TablesRead, ListTables, Undisturbing, p'.refs = {}
    PROVE  TablesRead'
<1> DEFINE s == CHOOSE s \in p.schemas : TRUE
           rows == {[oid |-> o, name |-> db[o].name, reltuples |-> db[o].reltuples] : o \in Relations(s)}
<1>1. pc = "tables" /\ pc' = "tables" /\ UNCHANGED <<seen, tables, columns, db>> /\ p'.rows = rows
  BY DEF ListTables, cursors, catalog, IInv, Typed, Memory
<1>2. \A r \in rows : r.reltuples = db[r.oid].reltuples
  OBVIOUS
<1> HIDE DEF rows
<1>3. ASSUME NEW o \in Oids, Finished(o)' PROVE TableIsShown(o)'
  <2>1. Finished(o)
    BY <1>1, <1>3 DEF Finished, Reading
  <2>2. TableIsShown(o)
    BY <1>1, <2>1 DEF TablesRead, Undisturbing
  <2> QED BY <1>1, <2>2, ShownAgain
<1>4. Oids' = Oids
  BY <1>1 DEF Oids
<1> QED BY <1>1, <1>2, <1>3, <1>4 DEF TablesRead, Reading

LEMMA ListAttnamesReads ==
    ASSUME IInv, TablesRead, ListAttnames, Undisturbing, p'.refs = {}
    PROVE  TablesRead'
<1>0. p.rows # {}
  BY DEF ListAttnames
<1> PICK r \in p.rows : r = CHOOSE x \in p.rows : TRUE
  BY <1>0
<1>1. /\ pc = "tables" /\ pc' = "constraints" /\ UNCHANGED <<tables, columns, db>>
      /\ p' = [p EXCEPT !.rows = @ \ {r}, !.row = r,
                        !.names = IF r.oid \in Oids THEN Names(r.oid) ELSE <<>>]
      /\ seen' = [seen EXCEPT !.table = @ \cup {r.name}]
  BY DEF ListAttnames, catalog, Names
<1>2. r.oid \in Oids /\ r.reltuples = db[r.oid].reltuples /\ r \in Row
  BY <1>1 DEF IInv, Typed, Undisturbed, Undisturbing, Stands, Listing, TablesRead
<1>4. p'.rows = p.rows \ {r} /\ p'.row = r /\ p'.names = Names(r.oid)
  BY <1>1, <1>2 DEF IInv, Typed, Memory
<1>5. seen'.table = seen.table \cup {r.name}
  BY <1>1 DEF IInv, Typed, TypeOK, Cursor
<1>6. Oids' = Oids /\ Names(r.oid)' = Names(r.oid)
  BY <1>1 DEF Oids, Names, Attnums
<1>7. ASSUME NEW o \in Oids, Finished(o)' PROVE TableIsShown(o)'
  <2>1. Finished(o)
    BY <1>1, <1>4, <1>5, <1>7 DEF Finished, Reading
  <2>2. TableIsShown(o)
    BY <1>1, <2>1 DEF TablesRead, Undisturbing
  <2> QED BY <1>1, <2>2, ShownAgain
<1>8. \A x \in p.rows : x.reltuples = db[x.oid].reltuples
  BY <1>1 DEF TablesRead, Undisturbing, Listing
<1>9. ASSUME NEW o \in Oids, p'.row.oid = o
      PROVE  RowRead(o)'
  BY <1>1, <1>2, <1>4, <1>6, <1>9 DEF RowRead
<1> QED BY <1>1, <1>4, <1>6, <1>7, <1>8, <1>9 DEF TablesRead

LEMMA NameIsLabel ==
    ASSUME IInv, NEW o \in Oids, NEW a \in Attnums(o)
    PROVE  /\ db[o].cols[a] \in Column /\ db[o].cols[a].name \in Label /\ db[o].cols[a].name # Nothing
           /\ db[o].cols[a].pk \in BOOLEAN /\ a \in DOMAIN db[o].cols
           /\ \A b \in Attnums(o) : db[o].cols[b].name = db[o].cols[a].name => b = a
<1>1. db \in Seq(Slot) /\ Consistent(db)
  BY DEF IInv, Typed, TypeOK, Slot
<1>2. db[o] \in Relation /\ Attnums(o) = ColumnsOf(db[o]) /\ OneOfEach(db[o])
  BY <1>1, Told
<1>3. db[o].cols[a] \in Column
  BY <1>2, ColumnType
<1>4. a \in DOMAIN db[o].cols
  BY <1>2 DEF ColumnsOf
<1> QED BY <1>2, <1>3, <1>4, PostgresAssumption DEF OneOfEach

\* What an undisturbed scrape is reading is there, and has been read so far.
LEMMA BeingRead ==
    ASSUME IInv, TablesRead, calm, Reading
    PROVE  /\ p.row.oid \in Oids /\ db[p.row.oid].name = p.row.name /\ p.row \in Row
           /\ RowRead(p.row.oid)
           /\ \A r \in p.rows : r.reltuples = db[r.oid].reltuples
<1>1. Stands(p.row) /\ p.row \in Row
  BY DEF IInv, Undisturbed, Typed
<1>2. p.row.oid \in Oids /\ db[p.row.oid].name = p.row.name
  BY <1>1 DEF Stands
<1>3. \A o \in Oids : p.row.oid = o => RowRead(o)
  BY DEF TablesRead
<1>4. Listing
  BY DEF Reading, Listing
<1>5. \A r \in p.rows : r.reltuples = db[r.oid].reltuples
  BY <1>4 DEF TablesRead
<1> QED BY <1>1, <1>2, <1>3, <1>5

\* Asking for the keys of a relation changes nothing of what is finished.
LEMMA ReadingReads ==
    ASSUME IInv, TablesRead, Undisturbing, Reading, Reading',
           UNCHANGED <<seen, tables, columns, db>>, p'.rows = p.rows, p'.row = p.row,
           NEW o \in Oids, o = p.row.oid, RowRead(o)', pc' = "constraints" => p'.refs = {}
    PROVE  TablesRead'
<1>1. ASSUME NEW r \in Oids, Finished(r)' PROVE TableIsShown(r)'
  <2>1. Finished(r)
    BY <1>1 DEF Finished
  <2>2. TableIsShown(r)
    BY <2>1 DEF TablesRead, Undisturbing, Reading
  <2> QED BY <2>2, ShownAgain
<1>2. Oids' = Oids /\ pc' \in {"constraints", "references"}
  BY DEF Oids, Reading
<1>3. \A r \in p'.rows : r.reltuples = db'[r.oid].reltuples
  BY BeingRead DEF Undisturbing
<1>4. \A r \in Oids' : p'.row.oid = r => RowRead(r)'
  <2> SUFFICES ASSUME NEW r \in Oids', p'.row.oid = r PROVE RowRead(r)'
    OBVIOUS
  <2>1. r = o
    OBVIOUS
  <2> QED BY <2>1
<1> QED BY <1>1, <1>2, <1>3, <1>4 DEF TablesRead

LEMMA ListConstraintsReads ==
    ASSUME IInv, TablesRead, ListConstraints, Undisturbing
    PROVE  TablesRead'
<1>0. pc = "constraints" /\ pc' = "references" /\ UNCHANGED <<seen, tables, columns, db>>
      /\ Reading /\ Reading' /\ calm
  BY DEF ListConstraints, cursors, catalog, Reading, Undisturbing
<1>1. p.row.oid \in Oids /\ RowRead(p.row.oid)
  BY <1>0, BeingRead
<1> PICK o \in Oids : o = p.row.oid
  BY <1>1
<1>2. p' = [p EXCEPT !.pk = primary_key(o), !.fks = foreign_keys(o)]
  BY DEF ListConstraints
<1>3. p.row.reltuples = db[o].reltuples /\ p.names = Names(o) /\ p.refs = {}
  BY <1>0, <1>1 DEF TablesRead, RowRead
<1>4. ASSUME NEW a \in Attnums(o)
      PROVE  NameOf(p.names, a) = db[o].cols[a].name /\ NameOf(p.names, a) # Nothing
  <2>1. a \in DOMAIN db[o].cols /\ db[o].cols[a].name # Nothing
    BY NameIsLabel
  <2> QED BY <1>3, <2>1 DEF NameOf, Names
<1>5. primary_key(o) = {db[o].cols[a].name : a \in {b \in Attnums(o) : db[o].cols[b].pk}}
  BY <1>4 DEF primary_key
<1>6. {a \in Attnums(o) : db[o].cols[a].fk # Nothing /\ NameOf(p.names, a) # Nothing} = References(o)
  BY <1>4 DEF References
<1>7. \A a \in References(o) : foreign_key(o, a) = Pending(o, a)
  BY <1>4 DEF Pending, References, foreign_key, Target
<1>8. /\ \A f \in foreign_keys(o) : \E a \in References(o) : f = Pending(o, a)
      /\ \A a \in References(o) : Pending(o, a) \in foreign_keys(o)
  BY <1>6, <1>7 DEF foreign_keys
<1>9. p'.rows = p.rows /\ p'.row = p.row /\ p'.pk = primary_key(o) /\ p'.fks = foreign_keys(o)
      /\ p'.refs = {}
  BY <1>2, <1>3 DEF IInv, Typed, Memory
<1>10. KeysRead(o)'
  <2>1. Attnums(o)' = Attnums(o)
    BY <1>0 DEF Attnums, Oids
  <2>2. /\ References(o)' = References(o)
        /\ \A a : Pending(o, a)' = Pending(o, a)
    BY <1>0, <2>1 DEF References, Pending, Target
  <2>3. p'.pk = {db'[o].cols[a].name : a \in {b \in Attnums(o)' : db'[o].cols[b].pk}}
    BY <1>0, <1>5, <1>9, <2>1
  <2> QED BY <1>8, <1>9, <2>2, <2>3 DEF KeysRead
<1>11. RowRead(o)'
  BY <1>0, <1>3, <1>9, <1>10 DEF RowRead
<1> QED BY <1>0, <1>9, <1>11, ReadingReads

\* A reference whose target is there is resolved to its present name.
LEMMA ResolvedPending ==
    ASSUME NEW o, NEW a,
           db[o].cols[a].fk.attnum \in Attnums(db[o].cols[a].fk.oid)
    PROVE  resolved(Pending(o, a)) = Resolved(o, a)
<1>1. /\ Pending(o, a).local = db[o].cols[a].name
      /\ Pending(o, a).table = Target(db[o].cols[a].fk).table
      /\ Pending(o, a).ref = db[o].cols[a].fk
  BY DEF Pending
<1>2. Target(db[o].cols[a].fk).column = db[db[o].cols[a].fk.oid].cols[db[o].cols[a].fk.attnum].name
  BY DEF Target
<1>3. /\ resolved(Pending(o, a)) = [local |-> resolved(Pending(o, a)).local,
                                    table |-> resolved(Pending(o, a)).table,
                                    column |-> resolved(Pending(o, a)).column]
      /\ resolved(Pending(o, a)).local = db[o].cols[a].name
      /\ resolved(Pending(o, a)).table = Target(db[o].cols[a].fk).table
  BY <1>1 DEF resolved
<1>4. resolved(Pending(o, a)).column = Target(db[o].cols[a].fk).column
  BY <1>1, <1>2 DEF resolved
<1> QED BY <1>3, <1>4 DEF Resolved

LEMMA ResolveReferenceReads ==
    ASSUME IInv, TablesRead, ResolveReference, Undisturbing
    PROVE  TablesRead'
<1>0. pc = "references" /\ pc' = "references" /\ UNCHANGED <<seen, tables, columns, db>>
      /\ Reading /\ Reading' /\ calm /\ p.fks # {}
  BY DEF ResolveReference, cursors, catalog, Reading, Undisturbing
<1>1. p.row.oid \in Oids /\ RowRead(p.row.oid)
  BY <1>0, BeingRead
<1> PICK o \in Oids : o = p.row.oid
  BY <1>1
<1> PICK f \in p.fks : f = CHOOSE x \in p.fks : TRUE
  BY <1>0
<1>2. p' = [p EXCEPT !.fks = @ \ {f}, !.refs = @ \cup {resolved(f)}]
  BY DEF ResolveReference
<1>3. p.row.reltuples = db[o].reltuples /\ KeysRead(o)
  BY <1>0, <1>1 DEF RowRead
<1>4. ASSUME NEW a \in References(o), f = Pending(o, a)
      PROVE  resolved(f) = Resolved(o, a)
  <2>1. db \in Seq(Slot) /\ Consistent(db) /\ a \in Attnums(o) /\ db[o].cols[a].fk # Nothing
    BY DEF IInv, Typed, TypeOK, Slot, References
  <2>2. db[o].cols[a].fk.oid \in Oids /\ db[o].cols[a].fk.attnum \in Attnums(db[o].cols[a].fk.oid)
    BY <2>1, Told
  <2> QED BY <1>4, <2>2, ResolvedPending
<1>5. /\ p'.rows = p.rows /\ p'.row = p.row /\ p'.pk = p.pk /\ p'.names = p.names
      /\ p'.fks = p.fks \ {f} /\ p'.refs = p.refs \cup {resolved(f)}
  BY <1>2 DEF IInv, Typed, Memory
<1>6. /\ Attnums(o)' = Attnums(o) /\ References(o)' = References(o)
      /\ \A a : Pending(o, a)' = Pending(o, a) /\ Resolved(o, a)' = Resolved(o, a)
  <2>1. Attnums(o)' = Attnums(o)
    BY <1>0 DEF Attnums, Oids
  <2> QED BY <1>0, <2>1 DEF References, Pending, Resolved, Target
<1>7. PICK e \in References(o) : f = Pending(o, e)
  BY <1>3 DEF KeysRead
<1>8. \A x \in p'.refs : \E a \in References(o) : x = Resolved(o, a)
  BY <1>3, <1>4, <1>5, <1>7 DEF KeysRead
<1>9. \A a \in References(o) : Pending(o, a) \in p'.fks \/ Resolved(o, a) \in p'.refs
  BY <1>3, <1>4, <1>5 DEF KeysRead
<1>10. KeysRead(o)'
  <2>1. p'.pk = {db'[o].cols[a].name : a \in {b \in Attnums(o)' : db'[o].cols[b].pk}}
    BY <1>0, <1>3, <1>5, <1>6 DEF KeysRead
  <2>2. \A x \in p'.fks : \E a \in References(o) : x = Pending(o, a)
    BY <1>3, <1>5 DEF KeysRead
  <2> QED BY <1>6, <1>8, <1>9, <2>1, <2>2 DEF KeysRead
<1>11. RowRead(o)'
  BY <1>0, <1>3, <1>5, <1>10 DEF RowRead
<1> QED BY <1>0, <1>5, <1>11, ReadingReads

LEMMA TargetIs ==
    ASSUME NEW fk
    PROVE  /\ Target(fk) = [table |-> Target(fk).table, column |-> Target(fk).column]
           /\ Target(fk).table = db[fk.oid].name /\ Target(fk).column = db[fk.oid].cols[fk.attnum].name
BY DEF Target

LEMMA ColumnHereIs ==
    ASSUME NEW o, NEW a
    PROVE  LET c == db[o].cols[a]
               here == ColumnHere(o, a)
           IN  /\ here.native_data_type = c.type
               /\ here.foreign_key_ref = IF c.fk = Nothing THEN Nothing ELSE Target(c.fk)
               /\ here = [ordinal_position |-> a, native_data_type |-> c.type, is_primary_key |-> c.pk,
                          foreign_key_ref |-> here.foreign_key_ref]
BY DEF ColumnHere

\* The reference of a column, or that it has none.
LEMMA ReferenceFound ==
    ASSUME IInv, NEW o \in Oids, KeysRead(o), p.fks = {}, NEW a \in Attnums(o)
    PROVE  foreign_key_ref(db[o].cols[a].name)
             = IF db[o].cols[a].fk = Nothing THEN Nothing ELSE Target(db[o].cols[a].fk)
<1> DEFINE label == db[o].cols[a].name
           found == {r \in p.refs : r.local = label}
<1>1. \A b \in References(o) : Resolved(o, b).local = db[o].cols[b].name /\ b \in Attnums(o)
  BY DEF Resolved, References
<1>2. ASSUME NEW r \in found PROVE r = Resolved(o, a) /\ a \in References(o)
  <2>1. PICK b \in References(o) : r = Resolved(o, b)
    BY DEF KeysRead
  <2>2. db[o].cols[b].name = db[o].cols[a].name
    BY <1>1, <2>1
  <2>3. b = a
    BY <1>1, <2>2, NameIsLabel
  <2> QED BY <2>1, <2>3
<1>3. CASE a \notin References(o)
  <2>1. found = {}
    BY <1>2, <1>3
  <2>2. foreign_key_ref(label) = Nothing
    BY <2>1 DEF foreign_key_ref
  <2>3. db[o].cols[a].fk = Nothing
    BY <1>3 DEF References
  <2> QED BY <2>2, <2>3
<1>4. CASE a \in References(o)
  <2>1. Resolved(o, a) \in p.refs
    BY <1>4 DEF KeysRead
  <2>2. found = {Resolved(o, a)}
    BY <1>1, <1>2, <1>4, <2>1
  <2>3. found # {} /\ (CHOOSE r \in found : TRUE) = Resolved(o, a)
    <3> HIDE DEF found
    <3> QED BY <2>2
  <2>4. foreign_key_ref(label) = [table |-> Resolved(o, a).table, column |-> Resolved(o, a).column]
    BY <2>3 DEF foreign_key_ref
  <2>5. Resolved(o, a).table = Target(db[o].cols[a].fk).table
        /\ Resolved(o, a).column = Target(db[o].cols[a].fk).column
    BY DEF Resolved
  <2>6. foreign_key_ref(label) = Target(db[o].cols[a].fk)
    <3> HIDE DEF label
    <3> QED BY <2>4, <2>5, TargetIs
  <2>7. db[o].cols[a].fk # Nothing
    BY <1>4 DEF References
  <2> QED BY <2>6, <2>7
<1> QED BY <1>3, <1>4

LEMMA Normalized ==
    ASSUME IInv, NEW o \in Oids, KeysRead(o), p.fks = {}, NEW a \in Attnums(o)
    PROVE  _column_to_normalized(o, a) = ColumnHere(o, a)
<1>1. /\ db[o].cols[a].pk \in BOOLEAN
      /\ \A b \in Attnums(o) : db[o].cols[b].name = db[o].cols[a].name => b = a
  BY NameIsLabel
<1>2. db[o].cols[a].name \in p.pk <=> db[o].cols[a].pk = TRUE
  BY <1>1 DEF KeysRead
<1>3. (db[o].cols[a].name \in p.pk) = db[o].cols[a].pk
  BY <1>1, <1>2
<1>4. foreign_key_ref(db[o].cols[a].name) = ColumnHere(o, a).foreign_key_ref
  BY ReferenceFound, ColumnHereIs
<1> QED BY <1>3, <1>4, ColumnHereIs DEF _column_to_normalized

LEMMA Acceptable ==
    ASSUME IInv, NEW o \in Oids, NEW a \in Attnums(o),
           normalize_type(db[o].cols[a].type) \in ColumnTypes
    PROVE  ColumnAccepted(ColumnHere(o, a))
<1> DEFINE here == ColumnHere(o, a)
<1>1. here.native_data_type = db[o].cols[a].type
      /\ here.foreign_key_ref = IF db[o].cols[a].fk = Nothing THEN Nothing ELSE Target(db[o].cols[a].fk)
  BY ColumnHereIs
<1>2. ASSUME db[o].cols[a].fk # Nothing PROVE here.foreign_key_ref.column # Nothing
  <2>1. db \in Seq(Slot) /\ Consistent(db)
    BY DEF IInv, Typed, TypeOK, Slot
  <2>2. db[o].cols[a].fk.oid \in Oids /\ db[o].cols[a].fk.attnum \in Attnums(db[o].cols[a].fk.oid)
    BY <1>2, <2>1, Told
  <2>3. Target(db[o].cols[a].fk).column # Nothing
    <3>1. \A r \in Oids : \A b \in Attnums(r) : db[r].cols[b].name # Nothing
      BY NameIsLabel
    <3> QED BY <2>2, <3>1, TargetIs
  <2> HIDE DEF here
  <2> QED BY <1>1, <1>2, <2>3
<1> HIDE DEF here
<1>3. ColumnAccepted(here)
  BY <1>1, <1>2 DEF ColumnAccepted
<1> QED BY <1>3 DEF here

LEMMA ListColumnsReads ==
    ASSUME IInv, TablesRead, ListColumns, Undisturbing
    PROVE  TablesRead'
<1>0. pc = "references" /\ pc' = "tables" /\ UNCHANGED db /\ Reading /\ ~Reading' /\ calm /\ p.fks = {}
  BY DEF ListColumns, Reading, Undisturbing
<1>1. /\ p.row.oid \in Oids /\ db[p.row.oid].name = p.row.name /\ p.row \in Row
      /\ RowRead(p.row.oid) /\ \A r \in p.rows : r.reltuples = db[r.oid].reltuples
  BY <1>0, BeingRead
<1> PICK o \in Oids : o = p.row.oid
  BY <1>1
<1> PICK t : t = p.row.name
  OBVIOUS
<1> DEFINE as(u) == {a \in Attnums(o) :
                       _column_urn(o, a) = u /\ ColumnAccepted(_column_to_normalized(o, a))}
<1>2. /\ tables' = IF TableAccepted(_table_to_normalized)
                   THEN [tables EXCEPT ![t] = _table_to_normalized] ELSE tables
      /\ columns' = [u \in ColumnUrn |->
                       IF as(u) = {} THEN columns[u]
                       ELSE _column_to_normalized(o, CHOOSE a \in as(u) : TRUE)]
  BY DEF ListColumns
<1>3. db[o].name = t /\ t \in TableUrn /\ p.row.reltuples = db[o].reltuples /\ KeysRead(o)
      /\ DOMAIN tables = TableUrn /\ db[o].reltuples \in Rows \cup {-1, Nothing}
  BY <1>0, <1>1 DEF RowRead, Row, IInv, Typed, TypeOK
<1>4. \A a \in Attnums(o) : /\ _column_urn(o, a) = <<t, db[o].cols[a].name>>
                            /\ _column_to_normalized(o, a) = ColumnHere(o, a)
                            /\ db[o].cols[a].name \in Label
  BY <1>0, <1>3, Normalized, NameIsLabel DEF _column_urn
<1>5. seen'.table = seen.table
  <2>1. PICK found : seen' = [seen EXCEPT !.column = @ \cup found]
    BY DEF ListColumns
  <2> QED BY <2>1 DEF IInv, Typed, TypeOK, Cursor
<1>6. TableIsShown(o)'
  <2>1. db[o].reltuples # -1 => tables'[t] = [row_count_estimate |-> db[o].reltuples]
    <3>1. _table_to_normalized = [row_count_estimate |-> db[o].reltuples]
      BY <1>3 DEF _table_to_normalized
    <3>2. db[o].reltuples # -1 => TableAccepted(_table_to_normalized)
      BY <1>3, <3>1, PostgresAssumption DEF TableAccepted
    <3> QED BY <1>2, <1>3, <3>1, <3>2
  <2>2. ASSUME NEW a \in Attnums(o), normalize_type(db[o].cols[a].type) \in ColumnTypes
        PROVE  columns'[<<t, db[o].cols[a].name>>] = ColumnHere(o, a)
    <3> PICK u : u = <<t, db[o].cols[a].name>>
      OBVIOUS
    <3>1. u \in ColumnUrn
      BY <1>3, <1>4 DEF ColumnUrn
    <3>2. a \in as(u)
      BY <1>4, <2>2, Acceptable
    <3>3. \A b \in as(u) : b = a
      BY <1>4, NameIsLabel
    <3> HIDE DEF as
    <3>4. columns'[u] = _column_to_normalized(o, a)
      BY <1>2, <3>1, <3>2, <3>3
    <3> QED BY <1>4, <3>4
  <2>3. Attnums(o)' = Attnums(o) /\ \A a : ColumnHere(o, a)' = ColumnHere(o, a)
    BY <1>0 DEF Attnums, Oids, ColumnHere, Target
  <2> QED BY <1>0, <1>3, <2>1, <2>2, <2>3 DEF TableIsShown
<1>7. ASSUME NEW r \in Oids, r # o, Finished(r)' PROVE TableIsShown(r)'
  <2>1. db[r].name # t
    BY <1>3, <1>7, Told DEF NamesAreUnique, IInv, Typed, TypeOK, Slot
  <2>2. Finished(r)
    BY <1>0, <1>5, <1>7, <2>1 DEF Finished
  <2>3. TableIsShown(r)
    BY <1>0, <2>2 DEF TablesRead, Reading
  <2>4. tables'[db[r].name] = tables[db[r].name]
    BY <1>2, <2>1
  <2>5. ASSUME NEW a \in Attnums(r) 
        PROVE  LET u == <<db[r].name, db[r].cols[a].name>> IN columns'[u] = columns[u]
    <3> PICK u : u = <<db[r].name, db[r].cols[a].name>>
      OBVIOUS
    <3>1. u \in ColumnUrn
      <4>1. db[r].name \in TableUrn
        BY Told DEF IInv, Typed, TypeOK, Slot, Relation
      <4>2. db[r].cols[a].name \in Label
        BY NameIsLabel
      <4> QED BY <4>1, <4>2 DEF ColumnUrn
    <3>2. as(u) = {}
      BY <1>4, <2>1
    <3> HIDE DEF as
    <3> QED BY <1>2, <3>1, <3>2
  <2> QED BY <1>0, <2>3, <2>4, <2>5, ShownAgain
<1>8. Oids' = Oids
  BY <1>0 DEF Oids
<1>9. p'.rows = p.rows /\ p'.refs = {}
  BY DEF ListColumns, AtRest
<1>10. \A r \in p'.rows : r.reltuples = db'[r.oid].reltuples
  BY <1>0, <1>1, <1>9
<1> QED BY <1>0, <1>6, <1>7, <1>8, <1>9, <1>10 DEF TablesRead

\* What the end of a listing, the diff and the save make of it.
LEMMA ListedTablesReads ==
    ASSUME IInv, TablesRead, ListedTables, Undisturbing
    PROVE  TablesRead'
<1>1. pc = "tables" /\ pc' = "diff" /\ UNCHANGED <<seen, tables, columns, db>> /\ calm
  BY DEF ListedTables, cursors, catalog, Undisturbing
<1>2. ASSUME NEW o \in Oids, Finished(o)' PROVE TableIsShown(o)'
  <2>1. Finished(o)
    BY <1>1, <1>2 DEF Finished, Reading
  <2>2. TableIsShown(o)
    BY <1>1, <2>1 DEF TablesRead
  <2> QED BY <1>1, <2>2, ShownAgain
<1>3. Oids' = Oids
  BY <1>1 DEF Oids
<1> QED BY <1>1, <1>2, <1>3 DEF TablesRead, Listing, Reading

LEMMA TombstoneReads ==
    ASSUME IInv, TablesRead, Tombstone, Undisturbing
    PROVE  TablesRead'
<1>1. pc = "diff" /\ pc' = "save" /\ UNCHANGED <<seen, db>> /\ calm
  BY DEF Tombstone, Undisturbing
<1>2. /\ tables' = [u \in TableUrn |-> IF u \in known.table \ seen.table THEN Nothing ELSE tables[u]]
      /\ columns' = [u \in ColumnUrn |-> IF u \in known.column \ seen.column THEN Nothing ELSE columns[u]]
  BY DEF Tombstone, diff_deleted_urns
<1>3. ASSUME NEW o \in Oids, Finished(o)' PROVE TableIsShown(o)'
  <2>1. Finished(o) /\ db[o].name[1] \in Included /\ db[o].name \in seen.table
    BY <1>1, <1>3 DEF Finished, Reading
  <2>2. TableIsShown(o)
    BY <1>1, <2>1 DEF TablesRead
  <2>3. db[o].name \in TableUrn
    BY Told DEF IInv, Typed, TypeOK, Slot, Relation
  <2>4. tables'[db[o].name] = tables[db[o].name]
    BY <1>2, <2>1, <2>3
  <2>5. ASSUME NEW a \in Attnums(o)
        PROVE  LET u == <<db[o].name, db[o].cols[a].name>> IN columns'[u] = columns[u]
    <3> PICK u : u = <<db[o].name, db[o].cols[a].name>>
      OBVIOUS
    <3>1. u \in ColumnUrn
      BY <2>3, NameIsLabel DEF ColumnUrn
    <3>2. u \in ColumnsHere
      BY <2>1 DEF ColumnsHere
    <3>3. u \in seen.column
      BY <1>1, <2>1, <3>2 DEF IInv, Undisturbed, Reading
    <3> QED BY <1>2, <3>1, <3>3
  <2> QED BY <1>1, <2>2, <2>4, <2>5, ShownAgain
<1>4. Oids' = Oids
  BY <1>1 DEF Oids
<1> QED BY <1>1, <1>3, <1>4 DEF TablesRead, Listing, Reading

LEMMA SaveReads ==
    ASSUME IInv, TablesRead, Save, Undisturbing
    PROVE  TablesRead'
<1>1. pc = "save" /\ pc' = "idle" /\ UNCHANGED <<tables, columns, db>> /\ calm
  BY DEF Save, catalog, Undisturbing
<1>2. ASSUME NEW o \in Oids, db[o].name[1] \in Included PROVE TableIsShown(o)'
  <2>1. db[o].name \in TablesHere
    BY <1>2 DEF TablesHere
  <2>2. db[o].name \in seen.table
    BY <1>1, <2>1 DEF IInv, Window, Here, TablesMet
  <2>3. Finished(o)
    BY <1>1, <1>2, <2>2 DEF Finished, Reading
  <2>4. TableIsShown(o)
    BY <1>1, <2>3 DEF TablesRead
  <2> QED BY <1>1, <2>4, ShownAgain
<1>3. Oids' = Oids
  BY <1>1 DEF Oids
<1>4. TablesAreShown'
  BY <1>1, <1>2, <1>3 DEF TablesAreShown
<1> QED BY <1>1, <1>4 DEF TablesRead, Listing, Reading

LEMMA TablesReadStep ==
    ASSUME IInv, IInv', TablesRead, [Next]_vars
    PROVE  TablesRead'
<1>0. pc' \in {"tables", "constraints"} => p'.refs = {}
  BY NothingPending
<1> SUFFICES ASSUME calm' PROVE TablesRead'
  BY <1>0 DEF TablesRead
<1>1. CASE UNCHANGED vars
  <2>1. UNCHANGED <<pc, seen, tables, columns, db, p>> /\ calm
    BY <1>1 DEF vars, cursors, catalog, counts, history
  <2>2. /\ Oids' = Oids /\ \A o : Names(o)' = Names(o) /\ References(o)' = References(o)
        /\ \A o : Attnums(o)' = Attnums(o)
        /\ \A o, a : Pending(o, a)' = Pending(o, a) /\ Resolved(o, a)' = Resolved(o, a)
        /\ \A o, a : ColumnHere(o, a)' = ColumnHere(o, a)
    BY <2>1 DEF Names, References, Pending, Resolved, Target, ColumnHere, Oids, Attnums
  <2>3. /\ \A o : KeysRead(o)' = KeysRead(o)
        /\ \A o : TableIsShown(o)' = TableIsShown(o)
    BY <2>1, <2>2 DEF KeysRead, TableIsShown
  <2> QED BY <2>1, <2>2, <2>3 DEF TablesRead, Listing, Reading, RowRead, Finished, TablesAreShown
<1>2. CASE kind = "s3" /\ UNCHANGED kind
  <2>1. db' = <<>> /\ ~Listing'
    BY <1>2 DEF IInv, Kinds
  <2>2. Oids' = {} /\ ~Reading'
    BY <2>1 DEF Oids, Listing, Reading
  <2> QED BY <1>0, <2>1, <2>2 DEF TablesRead, TablesAreShown
<1>3. CASE UNCHANGED <<kind, bucket, q>> /\ NextPostgres
  <2>1. CASE ConnectPostgres
    <3>1. ~Reading' /\ p'.rows = {} /\ pc' = "tables" /\ seen'.table = {}
      BY <1>3, <2>1, ConnectPostgresReads
    <3> QED BY <1>0, <3>1 DEF TablesRead, Finished
  <2>2. ASSUME GoesOn, UNCHANGED db PROVE Undisturbing
    <3>1. calm /\ fails' = fails
      BY <2>2 DEF GoesOn, IInv, Typed, TypeOK
    <3> QED BY <1>3, <2>2, <3>1 DEF GoesOn, Undisturbing
  <2>3. ASSUME DiscoverTables, GoesOn PROVE UNCHANGED db
    BY <2>3 DEF DiscoverTables, ListTables, ListAttnames, ListConstraints, ResolveReference, ListColumns,
                ListedTables
  <2>4. CASE DiscoverTables /\ GoesOn
    <3>1. Undisturbing
      BY <2>2, <2>3, <2>4
    <3>2. ASSUME ListTables \/ ListAttnames PROVE p'.refs = {}
      BY <1>0, <3>2 DEF ListTables, ListAttnames
    <3> QED BY <2>4, <3>1, <3>2, ListTablesReads, ListAttnamesReads, ListConstraintsReads,
               ResolveReferenceReads, ListColumnsReads, ListedTablesReads DEF DiscoverTables
  <2>5. CASE (Tombstone \/ Save) /\ UNCHANGED <<db, p>> /\ GoesOn
    BY <2>2, <2>5, TombstoneReads, SaveReads
  <2>6. CASE Fail /\ GoesOn
    <3>1. fails \in Nat /\ fails' = fails + 1 /\ fails' = fails
      BY <2>6 DEF Fail, GoesOn, IInv, Typed, TypeOK
    <3> QED BY <3>1
  <2>7. CASE Changes
    BY <2>7 DEF Changes
  <2> QED BY <1>3, <2>1, <2>4, <2>5, <2>6, <2>7 DEF NextPostgres, ScrapePostgres
<1> QED BY <1>1, <1>2, <1>3 DEF Next

-----------------------------------------------------------------------------
(* What the catalog shows, the cursor knows. *)

LEMMA ListColumnsKnows ==
    ASSUME IInv, ListColumns, Knows(known), UNCHANGED datasets
    PROVE  Knows(known)'
<1> DEFINE o == p.row.oid
           t == p.row.name
           found == {_column_urn(o, a) : a \in Attnums(o)}
           as(u) == {a \in Attnums(o) :
                       _column_urn(o, a) = u /\ ColumnAccepted(_column_to_normalized(o, a))}
<1>1. known' = [known EXCEPT !.table = @ \cup {t}, !.column = @ \cup found]
  BY DEF ListColumns
<1>2. /\ tables' = IF TableAccepted(_table_to_normalized)
                   THEN [tables EXCEPT ![t] = _table_to_normalized] ELSE tables
      /\ columns' = [u \in ColumnUrn |->
                       IF as(u) = {} THEN columns[u]
                       ELSE _column_to_normalized(o, CHOOSE a \in as(u) : TRUE)]
  BY DEF ListColumns
<1>3. \A u : as(u) # {} => u \in found
  OBVIOUS
<1> HIDE DEF as, found, t
<1>4. /\ known'.table = known.table \cup {t} /\ known'.column = known.column \cup found
      /\ known'.dataset = known.dataset
  BY <1>1 DEF IInv, Typed, TypeOK, Cursor
<1>5. \A u \in TableUrn : tables'[u] # Nothing => tables[u] # Nothing \/ u = t
  BY <1>2
<1>6. \A u \in ColumnUrn : columns'[u] # Nothing => columns[u] # Nothing \/ u \in found
  BY <1>2, <1>3
<1> QED BY <1>4, <1>5, <1>6 DEF Knows

LEMMA DeliverKnows ==
    ASSUME IInv, NEW o, Deliver(o), Knows(known)
    PROVE  Knows(known)'
<1> DEFINE head == Head(q.todo)
<1>1. known' = [known EXCEPT !.dataset = @ \cup {head}] /\ UNCHANGED <<tables, columns>>
  BY DEF Deliver
<1>2. PICK d : datasets' = IF DatasetAccepted(head, d) THEN [datasets EXCEPT ![head] = d] ELSE datasets
  BY DEF Deliver
<1> HIDE DEF head
<1>3. /\ known'.table = known.table /\ known'.column = known.column
      /\ known'.dataset = known.dataset \cup {head}
  BY <1>1 DEF IInv, Typed, TypeOK, Cursor
<1>4. \A u \in Prefix : datasets'[u] # Nothing => datasets[u] # Nothing \/ u = head
  BY <1>2
<1> QED BY <1>1, <1>3, <1>4 DEF Knows

LEMMA TombstoneKnows ==
    ASSUME IInv, Tombstone, Knows(known)
    PROVE  Knows(known)'
<1>1. known' = [table   |-> known.table \ (known.table \ seen.table),
                column  |-> known.column \ (known.column \ seen.column),
                dataset |-> known.dataset \ (known.dataset \ seen.dataset)]
  BY DEF Tombstone, diff_deleted_urns
<1>2. /\ tables' = [u \in TableUrn |-> IF u \in known.table \ seen.table THEN Nothing ELSE tables[u]]
      /\ columns' = [u \in ColumnUrn |-> IF u \in known.column \ seen.column THEN Nothing ELSE columns[u]]
      /\ datasets' = [u \in Prefix |-> IF u \in known.dataset \ seen.dataset THEN Nothing ELSE datasets[u]]
  BY DEF Tombstone, diff_deleted_urns
<1> QED BY <1>1, <1>2 DEF Knows

LEMMA ShownIsKnownStep ==
    ASSUME IInv, ShownIsKnown, [Next]_vars
    PROVE  ShownIsKnown'
<1> SUFFICES ASSUME fails' = 0 PROVE Knows(IF pc = "idle" THEN saved ELSE known)'
  BY DEF ShownIsKnown
<1>0. fails \in Nat
  BY DEF IInv, Typed, TypeOK
<1>1. ASSUME UNCHANGED <<catalog, counts>>, pc # "idle", pc' # "idle", UNCHANGED known
      PROVE  Knows(IF pc = "idle" THEN saved ELSE known)'
  BY <1>1 DEF ShownIsKnown, Knows, catalog, counts
<1>2. ASSUME UNCHANGED <<pc, cursors, catalog>>, fails' = fails
      PROVE  Knows(IF pc = "idle" THEN saved ELSE known)'
  BY <1>2 DEF ShownIsKnown, Knows, catalog, cursors
<1>3. CASE \E first \in {"tables", "prefixes"} : Connect(first)
  BY <1>3 DEF ShownIsKnown, Knows, Connect, catalog, counts
<1>4. CASE ListTables \/ ListAttnames \/ ListConstraints \/ ResolveReference \/ ListedTables
  <2>1. UNCHANGED <<known, catalog, counts>> /\ pc # "idle" /\ pc' # "idle"
    BY <1>4 DEF ListTables, ListAttnames, ListConstraints, ResolveReference, ListedTables, cursors
  <2> QED BY <1>1, <2>1
<1>5. CASE list_prefix \/ ListedPrefixes
  <2>1. UNCHANGED <<known, catalog, counts>> /\ pc # "idle" /\ pc' # "idle"
    BY <1>5 DEF list_prefix, ListedPrefixes, cursors
  <2> QED BY <1>1, <2>1
<1>6. CASE ListColumns
  <2>1. pc # "idle" /\ pc' # "idle" /\ fails' = fails /\ UNCHANGED datasets
    BY <1>6 DEF ListColumns, counts
  <2> QED BY <1>6, <2>1, ListColumnsKnows DEF ShownIsKnown, Knows
<1>7. CASE sniff_object_bytes
  <2>1. PICK o : Deliver(o) /\ pc = "sniff" /\ (fails' = fails \/ fails' = fails + 1)
    BY <1>7 DEF sniff_object_bytes
  <2>2. pc # "idle" /\ pc' # "idle" /\ fails = 0
    BY <1>0, <2>1 DEF Deliver
  <2> QED BY <2>1, <2>2, DeliverKnows DEF ShownIsKnown, Knows
<1>8. CASE Tombstone
  <2>1. pc # "idle" /\ pc' # "idle" /\ fails' = fails
    BY <1>8 DEF Tombstone, counts
  <2> QED BY <1>8, <2>1, TombstoneKnows DEF ShownIsKnown, Knows
<1>9. CASE Save
  BY <1>9 DEF Save, ShownIsKnown, Knows, catalog, counts
<1>10. CASE Fail
  BY <1>0, <1>10 DEF Fail
<1>11. CASE ChangeDatabase \/ ChangeBucket
  <2>1. Drifts
    BY <1>11 DEF ChangeDatabase, ChangeBucket
  <2> QED BY <1>2, <2>1 DEF Drifts
<1>12. CASE UNCHANGED vars
  <2>1. UNCHANGED <<pc, cursors, catalog>> /\ fails' = fails
    BY <1>12 DEF vars, counts
  <2> QED BY <1>2, <2>1
<1> QED BY <1>3, <1>4, <1>5, <1>6, <1>7, <1>8, <1>9, <1>10, <1>11, <1>12
        DEF Next, NextPostgres, ScrapePostgres, DiscoverTables, NextS3, ScrapeS3, DiscoverDatasets,
            ConnectPostgres, ConnectS3

-----------------------------------------------------------------------------
(* The partitions of a sample. *)

\* Sequences of names, each of them once.
Distinct == {s \in Seq(STRING) : IsInjective(s)}

LEMMA AddIs ==
    ASSUME NEW names \in Distinct, NEW name \in STRING
    PROVE  Add(names, name) \in Distinct /\ ToSet(Add(names, name)) = ToSet(names) \cup {name}
<1>1. names \in Seq(STRING) /\ IsInjective(names) /\ Len(names) \in Nat /\ DOMAIN names = 1..Len(names)
  BY LenProperties DEF Distinct
<1>2. CASE Contains(names, name)
  BY <1>1, <1>2 DEF Add, Contains, ToSet
<1>3. CASE ~Contains(names, name)
  <2> DEFINE more == Append(names, name)
  <2>1. Add(names, name) = more
    BY <1>3 DEF Add
  <2>2. /\ more \in Seq(STRING) /\ Len(more) = Len(names) + 1 /\ DOMAIN more = 1..Len(names) + 1
        /\ \A i \in 1..Len(names) : more[i] = names[i]
        /\ more[Len(names) + 1] = name
    BY <1>1, AppendProperties, LenProperties
  <2>3. \A i \in 1..Len(names) : names[i] # name
    BY <1>3 DEF Contains
  <2> HIDE DEF more
  <2>4. IsInjective(more)
    <3> SUFFICES ASSUME NEW i \in DOMAIN more, NEW j \in DOMAIN more, more[i] = more[j] PROVE i = j
      BY DEF IsInjective
    <3>1. CASE i \in 1..Len(names) /\ j \in 1..Len(names)
      BY <1>1, <2>2, <3>1 DEF IsInjective
    <3>2. \A k \in DOMAIN more : k \in 1..Len(names) \/ k = Len(names) + 1
      BY <1>1, <2>2
    <3>3. \A k \in 1..Len(names) : more[k] # more[Len(names) + 1]
      BY <2>2, <2>3
    <3> QED BY <3>1, <3>2, <3>3
  <2>5. ToSet(more) = ToSet(names) \cup {name}
    <3>1. \A i \in 1..Len(names) : i \in 1..Len(names) + 1
      BY <1>1
    <3>2. Len(names) + 1 \in 1..Len(names) + 1
      BY <1>1
    <3>3. \A i \in 1..Len(names) + 1 : i \in 1..Len(names) \/ i = Len(names) + 1
      BY <1>1
    <3>4. ASSUME NEW x \in ToSet(names) \cup {name} PROVE x \in ToSet(more)
      BY <1>1, <2>2, <3>1, <3>2, <3>4 DEF ToSet
    <3>5. ASSUME NEW x \in ToSet(more) PROVE x \in ToSet(names) \cup {name}
      BY <1>1, <2>2, <3>3, <3>5 DEF ToSet
    <3> QED BY <3>4, <3>5
  <2> QED BY <2>1, <2>2, <2>4, <2>5 DEF Distinct
<1> QED BY <1>2, <1>3

\* The fold of a sequence takes its last element last.
FoldsUp(E, base, step, it) ==
    it = [s \in SUBSET E |-> IF s = {} THEN base ELSE step[<<it[s \ {Max(s)}], Max(s)>>]]

\* A fold each of whose steps adds some names collects them all.
Collecting(E, adds, it) ==
    \A s \in SUBSET E : s # {} /\ it[s \ {Max(s)}] \in Distinct =>
        /\ it[s] \in Distinct
        /\ ToSet(it[s]) = ToSet(it[s \ {Max(s)}]) \cup adds[Max(s)]

LEMMA Collects ==
    ASSUME NEW n \in Nat, NEW base \in Distinct, NEW adds, NEW it, it[{}] = base,
           Collecting(1..n, adds, it)
    PROVE  it[1..n] \in Distinct /\ ToSet(it[1..n]) = ToSet(base) \cup UNION {adds[i] : i \in 1..n}
<1> DEFINE E == 1..n
           Good(s) == it[s] \in Distinct /\ ToSet(it[s]) = ToSet(base) \cup UNION {adds[i] : i \in s}
           F == {s \in SUBSET E : ~Good(s)}
<1>0. IsFiniteSet(E) /\ E \in SUBSET Nat
  BY FS_Interval
<1>1. ASSUME F # {} PROVE FALSE
  <2>1. PICK s \in F : \A r \in F : Cardinality(s) <= Cardinality(r)
    <3>1. \A r \in F : IsFiniteSet(r)
      BY <1>0, FS_Subset
    <3> HIDE DEF F
    <3> QED BY <1>1, <3>1, LeastFiniteSet
  <2>2. CASE s = {}
    BY <2>1, <2>2
  <2>3. CASE s # {}
    <3>1. IsFiniteSet(s) /\ s \in SUBSET Nat
      BY <1>0, <2>1, FS_Subset
    <3>2. PICK m : m = Max(s)
      OBVIOUS
    <3>3. m \in s
      BY <2>3, <3>1, <3>2, MaxIsGreatest
    <3>4. IsFiniteSet(s \ {m}) /\ Cardinality(s \ {m}) = Cardinality(s) - 1
      BY <3>1, <3>3, FS_RemoveElement
    <3>5. Cardinality(s) \in Nat /\ Cardinality(s \ {m}) \in Nat
      BY <3>1, <3>4, FS_CardinalityType
    <3>6. s \ {m} \notin F
      <4> HIDE DEF F
      <4> QED BY <2>1, <3>4, <3>5
    <3>7. Good(s \ {m})
      BY <2>1, <3>6
    <3>8. it[s] \in Distinct /\ ToSet(it[s]) = ToSet(it[s \ {m}]) \cup adds[m]
      BY <2>1, <2>3, <3>2, <3>7 DEF Collecting
    <3>9. UNION {adds[i] : i \in s} = (UNION {adds[i] : i \in s \ {m}}) \cup adds[m]
      <4>1. s = (s \ {m}) \cup {m}
        BY <3>3
      <4> QED BY <4>1
    <3>10. Good(s)
      BY <3>7, <3>8, <3>9
    <3> QED BY <2>1, <3>10
  <2> QED BY <2>2, <2>3
<1>2. Good(E)
  BY <1>1
<1> QED BY <1>2

\* The picks and the typed steps of a fold of a sequence of length n.
LEMMA FoldsUpExists ==
    ASSUME NEW n \in Nat, NEW base \in Distinct, NEW step \in [Distinct \X (1..n) -> Distinct]
    PROVE  \E it : FoldsUp(1..n, base, step, it) /\ it \in [SUBSET (1..n) -> Distinct]
<1> DEFINE E == 1..n
           pick == [s \in (SUBSET E) \ {{}} |-> Max(s)]
<1>0. IsFiniteSet(E) /\ E \in SUBSET Nat
  BY FS_Interval
<1>1. pick \in Picks(E)
  <2>1. ASSUME NEW s \in SUBSET E, s # {} PROVE Max(s) \in s
    <3>1. IsFiniteSet(s) /\ s \in SUBSET Nat
      BY <1>0, FS_Subset
    <3> HIDE DEF E
    <3> QED BY <2>1, <3>1, MaxIsGreatest
  <2> HIDE DEF E
  <2> QED BY <2>1 DEF Picks
<1>2. step \in StepsIn(Distinct, E)
  BY DEF StepsIn
<1> HIDE DEF E
<1>3. PICK it : IsFold(E, pick, base, step, it)
  <2> HIDE DEF pick
  <2> QED BY <1>0, <1>1, FoldExists
<1>4. it \in [SUBSET E -> Distinct]
  <2> HIDE DEF pick
  <2> QED BY <1>0, <1>1, <1>2, <1>3, FoldIsTyped
<1>5. FoldsUp(E, base, step, it)
  <2>1. \A s \in SUBSET E : s # {} => pick[s] = Max(s)
    OBVIOUS
  <2> HIDE DEF pick
  <2> QED BY <1>3, <2>1 DEF IsFold, FoldsUp
<1> QED BY <1>4, <1>5 DEF E

LEMMA AddedIs ==
    ASSUME NEW names \in Distinct, NEW folders \in Seq(STRING)
    PROVE  /\ Added(names, folders) \in Distinct
           /\ ToSet(Added(names, folders)) = ToSet(names) \cup ToSet(folders)
<1> DEFINE n == Len(folders)
           E == 1..n
           Folded(it) == [s \in SUBSET E |->
                            IF s = {} THEN names ELSE Add(it[s \ {Max(s)}], folders[Max(s)])]
           found == CHOOSE it : it = Folded(it)
           step == [x \in Distinct \X E |-> Add(x[1], folders[x[2]])]
<1>1. n \in Nat /\ DOMAIN folders = E /\ \A i \in E : folders[i] \in STRING
  BY LenProperties
<1>2. ASSUME NEW s \in SUBSET E, s # {} PROVE Max(s) \in E
  <2>0. IsFiniteSet(E) /\ E \in SUBSET Nat
    BY <1>1, FS_Interval
  <2>1. IsFiniteSet(s) /\ s \in SUBSET Nat
    BY <2>0, FS_Subset
  <2> HIDE DEF E
  <2> QED BY <1>2, <2>1, MaxIsGreatest
<1>3. \E it : it = Folded(it)
  <2>1. step \in [Distinct \X E -> Distinct]
    <3> HIDE DEF E
    <3> QED BY <1>1, AddIs
  <2>2. PICK it : FoldsUp(E, names, step, it) /\ it \in [SUBSET E -> Distinct]
    <3> HIDE DEF step, n
    <3> QED BY <1>1, <2>1, FoldsUpExists
  <2>3. ASSUME NEW s \in SUBSET E, s # {}
        PROVE  step[<<it[s \ {Max(s)}], Max(s)>>] = Add(it[s \ {Max(s)}], folders[Max(s)])
    <3> PICK m, x : m = Max(s) /\ x = it[s \ {m}]
      OBVIOUS
    <3>1. m \in E /\ x \in Distinct
      BY <1>2, <2>2, <2>3
    <3> HIDE DEF E
    <3>2. step[<<x, m>>] = Add(x, folders[m])
      BY <3>1
    <3> QED BY <3>2
  <2> HIDE DEF step, E
  <2>4. it = Folded(it)
    BY <2>2, <2>3 DEF FoldsUp
  <2> QED BY <2>4
<1>4. found = Folded(found)
  <2> HIDE DEF Folded
  <2> QED BY <1>3
<1>5. Added(names, folders) = found[E]
  <2>1. Added(names, folders) = (CHOOSE it : it = [s \in SUBSET DOMAIN folders |->
            IF s = {} THEN names ELSE Add(it[s \ {Max(s)}], folders[Max(s)])])[DOMAIN folders]
    BY DEF Added, FoldLeft, MapThenFoldSet
  <2> QED BY <1>1, <2>1
<1> DEFINE adds == [i \in E |-> {folders[i]}]
<1>6. found[{}] = names
  <2> HIDE DEF found, E
  <2> QED BY <1>4
<1>7. ASSUME NEW s \in SUBSET E, s # {}, found[s \ {Max(s)}] \in Distinct
      PROVE  found[s] \in Distinct /\ ToSet(found[s]) = ToSet(found[s \ {Max(s)}]) \cup adds[Max(s)]
  <2>1. found[s] = Add(found[s \ {Max(s)}], folders[Max(s)])
    <3> HIDE DEF found, E
    <3> QED BY <1>4, <1>7
  <2> PICK m, x : m = Max(s) /\ x = found[s \ {m}]
    OBVIOUS
  <2>2. m \in E /\ x \in Distinct /\ folders[m] \in STRING /\ adds[m] = {folders[m]}
    BY <1>1, <1>2, <1>7
  <2> HIDE DEF found, E, adds
  <2>3. found[s] = Add(x, folders[m])
    BY <2>1
  <2>4. Add(x, folders[m]) \in Distinct /\ ToSet(Add(x, folders[m])) = ToSet(x) \cup {folders[m]}
    BY <2>2, AddIs
  <2> QED BY <2>2, <2>3, <2>4
<1> HIDE DEF found
<1>8. found[E] \in Distinct /\ ToSet(found[E]) = ToSet(names) \cup UNION {adds[i] : i \in E}
  <2> HIDE DEF adds, n
  <2>1. Collecting(1..n, adds, found)
    BY <1>7 DEF Collecting
  <2> QED BY <1>1, <1>6, <2>1, Collects
<1>9. UNION {adds[i] : i \in E} = ToSet(folders)
  <2> HIDE DEF E
  <2> QED BY <1>1 DEF ToSet
<1> QED BY <1>5, <1>8, <1>9

\* The partitions of a sample are those of its keys' paths, each of them once.
LEMMA PartitioningIs ==
    ASSUME NEW prefix \in Prefix, NEW keys \in Seq(1..LastKey)
    PROVE  /\ infer_partitioning(keys, prefix) \in Distinct
           /\ ToSet(infer_partitioning(keys, prefix)) =
                UNION {ToSet(Folders[prefix][keys[i]]) : i \in DOMAIN keys}
<1> DEFINE n == Len(keys)
           E == 1..n
           folders(i) == Folders[prefix][keys[i]]
           Folded(it) == [s \in SUBSET E |->
                            IF s = {} THEN <<>>
                            ELSE Added(it[s \ {Max(s)}], Folders[prefix][keys[Max(s)]])]
           found == CHOOSE it : it = Folded(it)
           step == [x \in Distinct \X E |-> Added(x[1], folders(x[2]))]
<1>0. <<>> \in Distinct /\ ToSet(<<>>) = {}
  BY EmptySeq DEF Distinct, IsInjective, ToSet
<1>1. n \in Nat /\ DOMAIN keys = E /\ \A i \in E : folders(i) \in Seq(STRING)
  <2>1. Folders[prefix] \in [1..LastKey -> Seq(STRING)]
    BY S3Assumption
  <2> QED BY <2>1, LenProperties
<1>2. ASSUME NEW s \in SUBSET E, s # {} PROVE Max(s) \in E
  <2>0. IsFiniteSet(E) /\ E \in SUBSET Nat
    BY <1>1, FS_Interval
  <2>1. IsFiniteSet(s) /\ s \in SUBSET Nat
    BY <2>0, FS_Subset
  <2> HIDE DEF E
  <2> QED BY <1>2, <2>1, MaxIsGreatest
<1>3. \E it : it = Folded(it)
  <2>1. step \in [Distinct \X E -> Distinct]
    <3> HIDE DEF E
    <3> QED BY <1>1, AddedIs
  <2>2. PICK it : FoldsUp(E, <<>>, step, it) /\ it \in [SUBSET E -> Distinct]
    <3> HIDE DEF step, n
    <3> QED BY <1>0, <1>1, <2>1, FoldsUpExists
  <2>3. ASSUME NEW s \in SUBSET E, s # {}
        PROVE  step[<<it[s \ {Max(s)}], Max(s)>>] = Added(it[s \ {Max(s)}], folders(Max(s)))
    <3> PICK m, x : m = Max(s) /\ x = it[s \ {m}]
      OBVIOUS
    <3>1. m \in E /\ x \in Distinct
      BY <1>2, <2>2, <2>3
    <3> HIDE DEF E
    <3>2. step[<<x, m>>] = Added(x, folders(m))
      BY <3>1
    <3> QED BY <3>2
  <2> HIDE DEF step, E
  <2>4. it = Folded(it)
    BY <2>2, <2>3 DEF FoldsUp
  <2> QED BY <2>4
<1>4. found = Folded(found)
  <2> HIDE DEF Folded
  <2> QED BY <1>3
<1>5. infer_partitioning(keys, prefix) = found[E]
  <2>1. infer_partitioning(keys, prefix) = (CHOOSE it : it = [s \in SUBSET DOMAIN keys |->
            IF s = {} THEN <<>> ELSE Added(it[s \ {Max(s)}], Folders[prefix][keys[Max(s)]])])[DOMAIN keys]
    BY DEF infer_partitioning, FoldLeft, MapThenFoldSet
  <2> QED BY <1>1, <2>1
<1> DEFINE adds == [i \in E |-> ToSet(folders(i))]
<1>6. found[{}] = <<>>
  <2> HIDE DEF found, E
  <2> QED BY <1>4
<1>7. ASSUME NEW s \in SUBSET E, s # {}, found[s \ {Max(s)}] \in Distinct
      PROVE  found[s] \in Distinct /\ ToSet(found[s]) = ToSet(found[s \ {Max(s)}]) \cup adds[Max(s)]
  <2>1. found[s] = Added(found[s \ {Max(s)}], folders(Max(s)))
    <3> HIDE DEF found, E
    <3> QED BY <1>4, <1>7
  <2> PICK m, x : m = Max(s) /\ x = found[s \ {m}]
    OBVIOUS
  <2>2. m \in E /\ x \in Distinct /\ folders(m) \in Seq(STRING) /\ adds[m] = ToSet(folders(m))
    BY <1>1, <1>2, <1>7
  <2> HIDE DEF found, E, adds
  <2>3. found[s] = Added(x, folders(m))
    BY <2>1
  <2>4. Added(x, folders(m)) \in Distinct /\ ToSet(Added(x, folders(m))) = ToSet(x) \cup ToSet(folders(m))
    BY <2>2, AddedIs
  <2> QED BY <2>2, <2>3, <2>4
<1> HIDE DEF found
<1>8. found[E] \in Distinct /\ ToSet(found[E]) = ToSet(<<>>) \cup UNION {adds[i] : i \in E}
  <2> HIDE DEF adds, n
  <2>1. Collecting(1..n, adds, found)
    BY <1>7 DEF Collecting
  <2> QED BY <1>0, <1>1, <1>6, <2>1, Collects
<1>9. \A i \in E : adds[i] = ToSet(Folders[prefix][keys[i]])
  OBVIOUS
<1> HIDE DEF adds, E
<1> QED BY <1>0, <1>1, <1>5, <1>8, <1>9

-----------------------------------------------------------------------------
(* The pages of a listing. *)

LEMMA MinOfTwo ==
    ASSUME NEW a \in Nat, NEW b \in Nat
    PROVE  Min({a, b}) = IF a <= b THEN a ELSE b
<1>1. CASE a <= b
  <2>1. PICK x \in {a, b} : x = Min({a, b}) /\ \A y \in {a, b} : x <= y
    BY <1>1 DEF Min
  <2> QED BY <1>1, <2>1
<1>2. CASE ~(a <= b)
  <2>1. PICK x \in {a, b} : x = Min({a, b}) /\ \A y \in {a, b} : x <= y
    BY <1>2 DEF Min
  <2> QED BY <1>2, <2>1
<1> QED BY <1>1, <1>2

\* Keys come back in their order.
LEMMA KeyOrder ==
    ASSUME NEW ks \in SUBSET Nat, IsFiniteSet(ks)
    PROVE  /\ InKeyOrder(ks) \in Seq(ks) /\ Len(InKeyOrder(ks)) = Cardinality(ks)
           /\ \A i \in 1..Cardinality(ks) : Place(ks, InKeyOrder(ks)[i]) = i - 1
<1> DEFINE m == Cardinality(ks)
           keys == InKeyOrder(ks)
           At(i) == CHOOSE k \in ks : Place(ks, k) = i - 1
<1>1. m \in Nat
  BY FS_CardinalityType
<1>2. keys = [i \in 1..m |-> At(i)]
  BY DEF InKeyOrder, Place
<1> HIDE DEF keys
<1>4. ASSUME NEW i \in 1..m
      PROVE  keys[i] \in ks /\ Place(ks, keys[i]) = i - 1
  <2>1. i - 1 \in Nat /\ i - 1 < m
    BY <1>1
  <2>2. \E k \in ks : Place(ks, k) = i - 1
    <3> HIDE DEF m
    <3>1. PICK n : n = i - 1
      OBVIOUS
    <3>2. \E k \in ks : Place(ks, k) = n
      BY <2>1, <3>1, PlaceExists DEF m
    <3> QED BY <3>1, <3>2
  <2>3. At(i) \in ks /\ Place(ks, At(i)) = i - 1
    BY <2>2
  <2> HIDE DEF At, m
  <2> QED BY <1>2, <2>3
<1> HIDE DEF m, At
<1>5. keys \in [1..m -> ks]
  BY <1>2, <1>4
<1>6. keys \in Seq(ks) /\ Len(keys) = m
  BY <1>1, <1>5, FunctionIsSeq, LenProperties
<1> QED BY <1>4, <1>6 DEF keys, m

LEMMA FirstOf ==
    ASSUME NEW S, NEW s \in Seq(S), NEW n \in Nat, n <= Len(s)
    PROVE  /\ SubSeq(s, 1, n) \in Seq(S) /\ Len(SubSeq(s, 1, n)) = n
           /\ \A i \in 1..n : SubSeq(s, 1, n)[i] = s[i]
<1>1. Len(s) \in Nat /\ \A i \in 1..n : s[i] \in S
  BY LenProperties
<1>2. SubSeq(s, 1, n) = [i \in 1..n |-> s[i]]
  BY <1>1
<1> QED BY <1>1, <1>2, FunctionIsSeq

\* One more page of objects, all of them behind those before.
LEMMA PrefixExtended ==
    ASSUME NEW ks \in SUBSET Nat, NEW more \in SUBSET Nat, IsFiniteSet(ks), IsFiniteSet(more),
           \A k \in ks, m \in more : k < m, NEW count, NEW sample, PrefixRead(ks, count, sample)
    PROVE  LET keys == InKeyOrder(more)
               taken == Min({sample_limit - Len(sample), Len(keys)})
           IN  PrefixRead(ks \cup more, count + Cardinality(more), sample \o SubSeq(keys, 1, taken))
<1> DEFINE keys == InKeyOrder(more)
           taken == Min({sample_limit - Len(sample), Len(keys)})
           cut == SubSeq(keys, 1, taken)
           all == sample \o cut
           m == Cardinality(more)
<1>1. sample_limit \in Nat /\ count \in Nat /\ m \in Nat /\ count = Cardinality(ks)
  BY FS_CardinalityType, S3Assumption DEF PrefixRead
<1>2. /\ sample \in Seq(ks) /\ Len(sample) = (IF count < sample_limit THEN count ELSE sample_limit)
      /\ \A i \in 1..Len(sample) : Place(ks, sample[i]) = i - 1
  BY DEF PrefixRead
<1>3. /\ keys \in Seq(more) /\ Len(keys) = m
      /\ \A i \in 1..m : Place(more, keys[i]) = i - 1
  BY KeyOrder
<1>4. /\ Cardinality(ks \cup more) = count + m
      /\ \A k \in ks : Place(ks \cup more, k) = Place(ks, k)
      /\ \A k \in more : Place(ks \cup more, k) = count + Place(more, k)
  BY <1>1, PlaceInUnion
<1> HIDE DEF keys, m
<1>5. /\ Len(sample) \in Nat /\ sample_limit - Len(sample) \in Nat
      /\ taken = IF sample_limit - Len(sample) <= m THEN sample_limit - Len(sample) ELSE m
  <2>1. Len(sample) \in Nat /\ sample_limit - Len(sample) \in Nat
    BY <1>1, <1>2
  <2> QED BY <1>1, <1>3, <2>1, MinOfTwo
<1> HIDE DEF taken
<1>6. /\ taken \in Nat /\ taken <= m /\ taken <= sample_limit - Len(sample)
      /\ taken > 0 => Len(sample) = count
      /\ Len(sample) + taken = IF count + m < sample_limit THEN count + m ELSE sample_limit
  BY <1>1, <1>2, <1>5
<1>7. cut \in Seq(more) /\ Len(cut) = taken /\ \A i \in 1..taken : cut[i] = keys[i]
  BY <1>3, <1>6, FirstOf
<1> HIDE DEF cut
<1>8. sample \in Seq(ks \cup more) /\ cut \in Seq(ks \cup more)
  BY <1>2, <1>7, SeqMonotonic
<1>9. /\ all \in Seq(ks \cup more) /\ Len(all) = Len(sample) + taken
      /\ \A i \in 1..Len(all) : all[i] = IF i <= Len(sample) THEN sample[i] ELSE cut[i - Len(sample)]
  <2>1. /\ all \in Seq(ks \cup more) /\ Len(all) = Len(sample) + Len(cut)
        /\ \A i \in 1..Len(sample) + Len(cut) :
             all[i] = IF i <= Len(sample) THEN sample[i] ELSE cut[i - Len(sample)]
    BY <1>8, ConcatProperties
  <2> HIDE DEF all
  <2> QED BY <1>7, <2>1
<1> HIDE DEF all
<1>10. ASSUME NEW i \in 1..Len(all)
       PROVE  Place(ks \cup more, all[i]) = i - 1
  <2>1. CASE i <= Len(sample)
    <3>1. i \in 1..Len(sample) /\ all[i] = sample[i]
      BY <1>9, <2>1
    <3>2. sample[i] \in ks
      BY <1>2, <3>1, LenProperties
    <3> QED BY <1>2, <1>4, <3>1, <3>2
  <2>2. CASE ~(i <= Len(sample))
    <3> PICK j : j = i - Len(sample)
      OBVIOUS
    <3>0. i \in Nat /\ i <= Len(sample) + taken /\ all[i] = cut[j]
      BY <1>6, <1>9, <2>2
    <3>1. j \in 1..taken /\ i = Len(sample) + j
      <4>1. \A l, t, x \in Nat : x <= l + t /\ ~(x <= l) => x - l \in 1..t /\ x = l + (x - l)
        OBVIOUS
      <4>2. Len(sample) \in Nat /\ taken \in Nat
        BY <1>5, <1>6
      <4> QED BY <2>2, <3>0, <4>1, <4>2
    <3>2. Len(sample) = count /\ j \in 1..m
      BY <1>1, <1>6, <3>1
    <3>3. all[i] = keys[j] /\ i = count + j /\ count \in Nat
      <4>1. cut[j] = keys[j]
        BY <1>7, <3>1
      <4> QED BY <1>1, <3>0, <3>1, <3>2, <4>1
    <3>4. keys[j] \in more
      BY <1>3, <3>2, LenProperties
    <3>5. Place(ks \cup more, keys[j]) = count + (j - 1)
      BY <1>3, <1>4, <3>2, <3>4
    <3>6. count + (j - 1) = i - 1
      <4>1. \A c, x \in Nat : c + (x - 1) = (c + x) - 1
        OBVIOUS
      <4>2. j \in Nat
        BY <1>1, <3>2
      <4> QED BY <3>3, <4>1, <4>2
    <3> QED BY <3>3, <3>5, <3>6
  <2> QED BY <2>1, <2>2
<1>11. PrefixRead(ks \cup more, count + m, all)
  BY <1>4, <1>6, <1>9, <1>10 DEF PrefixRead
<1> QED BY <1>11 DEF keys, taken, cut, all, m

LEMMA NothingRead == PrefixRead({}, 0, <<>>)
<1>1. Cardinality({}) = 0 /\ sample_limit \in Nat \ {0}
  BY FS_EmptySet, S3Assumption
<1>2. <<>> \in Seq({}) /\ Len(<<>>) = 0
  BY EmptySeq
<1> QED BY <1>1, <1>2 DEF PrefixRead

\* The sample holds the first sample_limit objects, and begins with the first.
LEMMA SampleIs ==
    ASSUME NEW ks \in SUBSET Nat, IsFiniteSet(ks), NEW count, NEW sample, PrefixRead(ks, count, sample)
    PROVE  /\ {sample[i] : i \in DOMAIN sample} = {k \in ks : Place(ks, k) < sample_limit}
           /\ ks # {} => DOMAIN sample # {} /\ sample[1] = Min(ks) /\ Min(ks) \in ks
<1>1. /\ count = Cardinality(ks) /\ count \in Nat /\ sample_limit \in Nat \ {0}
      /\ sample \in Seq(ks) /\ Len(sample) = (IF count < sample_limit THEN count ELSE sample_limit)
      /\ \A i \in 1..Len(sample) : Place(ks, sample[i]) = i - 1
  BY FS_CardinalityType, S3Assumption DEF PrefixRead
<1>2. DOMAIN sample = 1..Len(sample) /\ Len(sample) \in Nat /\ \A i \in DOMAIN sample : sample[i] \in ks
  BY <1>1, LenProperties
<1>3. ASSUME NEW i \in DOMAIN sample
      PROVE  sample[i] \in ks /\ Place(ks, sample[i]) < sample_limit
  BY <1>1, <1>2
<1>4. ASSUME NEW k \in ks, Place(ks, k) < sample_limit
      PROVE  \E i \in DOMAIN sample : k = sample[i]
  <2>1. Place(ks, k) \in Nat /\ Place(ks, k) < count
    BY <1>1, PlaceType
  <2> PICK i : i = Place(ks, k) + 1
    OBVIOUS
  <2>2. i \in DOMAIN sample /\ i - 1 = Place(ks, k)
    <3> PICK n : n = Place(ks, k)
      OBVIOUS
    <3>1. n \in Nat /\ n < count /\ n < sample_limit /\ i = n + 1
      BY <1>4, <2>1
    <3>2. i \in 1..Len(sample) /\ i - 1 = n
      <4>1. \A c, l, x \in Nat : x < c /\ x < l => x + 1 \in 1..(IF c < l THEN c ELSE l) /\ x + 1 - 1 = x
        OBVIOUS
      <4>2. count \in Nat /\ sample_limit \in Nat
            /\ Len(sample) = (IF count < sample_limit THEN count ELSE sample_limit)
        BY <1>1
      <4> QED BY <3>1, <4>1, <4>2
    <3> QED BY <1>2, <3>2
  <2>3. sample[i] \in ks /\ Place(ks, sample[i]) = Place(ks, k)
    BY <1>1, <1>2, <2>2
  <2> QED BY <2>2, <2>3, PlaceIsUnique
<1>5. ASSUME ks # {} PROVE DOMAIN sample # {} /\ sample[1] = Min(ks) /\ Min(ks) \in ks
  <2>1. count # 0
    BY <1>1, <1>5, FS_EmptySet
  <2>2. 1 \in DOMAIN sample
    BY <1>1, <1>2, <2>1
  <2>3. sample[1] \in ks /\ Place(ks, sample[1]) = 0
    BY <1>1, <1>2, <2>2
  <2> QED BY <2>2, <2>3, PlaceOfMin
<1> QED BY <1>3, <1>4, <1>5

-----------------------------------------------------------------------------
(* What is inferred of the objects of a prefix. *)

\* Keys are numbers, and what a prefix holds is a finite set of them.
LEMMA ObjectsAreKeys ==
    ASSUME NEW prefix \in Prefix
    PROVE  /\ Objects(prefix) \in SUBSET (1..LastKey) /\ Objects(prefix) \in SUBSET Nat
           /\ IsFiniteSet(Objects(prefix))
<1>1. Under[prefix] \in SUBSET (1..LastKey) /\ LastKey \in Nat /\ IsFiniteSet(1..LastKey)
  BY S3Assumption, FS_Interval
<1>2. Objects(prefix) \in SUBSET (1..LastKey)
  BY <1>1 DEF Objects, Present
<1>3. IsFiniteSet(Objects(prefix))
  BY <1>1, <1>2, FS_Subset
<1>4. 1..LastKey \subseteq Nat
  BY <1>1
<1> QED BY <1>2, <1>3, <1>4

LEMMA FormatIsKnown ==
    ASSUME NEW parts
    PROVE  detect_format_from_key(parts) \in {"parquet", "csv", "json", "unknown"}
<1>1. \A ext \in DOMAIN Extensions : Extensions[ext] \in {"parquet", "csv", "json"}
  BY DEF Extensions
<1> QED BY <1>1 DEF detect_format_from_key

Formats(S) == {detect_format_from_key(FileName[k]) : k \in S} \ {"unknown"}

LEMMA FormatsAreFinite ==
    ASSUME NEW S
    PROVE  IsFiniteSet(Formats(S)) /\ Formats(S) \subseteq FileFormats
<1>1. Formats(S) \in SUBSET {"parquet", "csv", "json"}
  BY FormatIsKnown DEF Formats
<1>2. IsFiniteSet({"parquet", "csv", "json"})
  <2>1. IsFiniteSet({"parquet"}) /\ IsFiniteSet({"csv"}) /\ IsFiniteSet({"json"})
    BY FS_Singleton
  <2>2. IsFiniteSet({"parquet"} \cup {"csv"})
    BY <2>1, FS_Union
  <2>3. IsFiniteSet(({"parquet"} \cup {"csv"}) \cup {"json"})
    BY <2>1, <2>2, FS_Union
  <2>4. {"parquet", "csv", "json"} = ({"parquet"} \cup {"csv"}) \cup {"json"}
    OBVIOUS
  <2> QED BY <2>3, <2>4
<1>3. {"parquet", "csv", "json"} \subseteq FileFormats
  BY DEF FileFormats
<1> QED BY <1>1, <1>2, <1>3, FS_Subset

\* The format of a dataset is that of its sample.
LEMMA FormatIs ==
    ASSUME NEW sample, NEW S, {sample[i] : i \in DOMAIN sample} = S
    PROVE  /\ aggregate_format(sample) \in FileFormats
           /\ aggregate_format(sample) =
                IF Formats(S) = {} THEN "unknown"
                ELSE IF Cardinality(Formats(S)) = 1 THEN CHOOSE f \in Formats(S) : TRUE
                ELSE "mixed"
<1> DEFINE formats == {detect_format_from_key(FileName[sample[i]]) : i \in DOMAIN sample} \ {"unknown"}
<1>1. formats = Formats(S)
  BY DEF Formats
<1>2. aggregate_format(sample) =
        IF formats = {} THEN "unknown"
        ELSE IF \E f \in formats : formats = {f} THEN CHOOSE f \in formats : TRUE ELSE "mixed"
  BY DEF aggregate_format
<1>3. IsFiniteSet(formats) /\ formats \subseteq FileFormats
  BY <1>1, FormatsAreFinite
<1> HIDE DEF formats
<1>4. (\E f \in formats : formats = {f}) <=> Cardinality(formats) = 1
  <2>1. ASSUME Cardinality(formats) = 1 PROVE \E f \in formats : formats = {f}
    BY <1>3, <2>1, FS_Singleton
  <2>2. ASSUME NEW f \in formats, formats = {f} PROVE Cardinality(formats) = 1
    BY <2>2, FS_Singleton
  <2> QED BY <2>1, <2>2
<1>5. "unknown" \in FileFormats /\ "mixed" \in FileFormats
  BY DEF FileFormats
<1>6. formats # {} => (CHOOSE f \in formats : TRUE) \in formats
  OBVIOUS
<1> QED BY <1>1, <1>2, <1>3, <1>4, <1>5, <1>6

FieldTypes == ColumnTypes \cup {"other"}

\* Fields that are inferred, and that the schemas take if the object is plain.
LEMMA FieldsAre ==
    ASSUME NEW o \in Object \cup {Nothing}, NEW file_format, NEW fields,
           fields = _infer_fields(file_format, o), fields # Nothing
    PROVE  /\ o \in Object /\ fields \in Seq(Field)
           /\ Plain(o) => \A i \in DOMAIN fields : fields[i].name # NoName /\ fields[i].type \in ColumnTypes
<1>1. o \in Object /\ o # Nothing /\ (fields = infer_csv_schema(o) \/ fields = infer_parquet_schema(o))
  BY DEF _infer_fields
<1>2. /\ o.names \in Seq(STRING) /\ o.values \in Seq(STRING)
      /\ o.kind = "parquet" => Len(o.names) = Len(o.values)
  BY <1>1, S3Assumption DEF Readable
<1>3. /\ DOMAIN o.names = 1..Len(o.names) /\ Len(o.names) \in Nat /\ DOMAIN o.values = 1..Len(o.values)
      /\ \A i \in DOMAIN o.names : o.names[i] \in STRING
  BY <1>2, LenProperties
<1>4. ASSUME NEW type, fields = [i \in DOMAIN o.names |-> [name |-> o.names[i], type |-> type[i]]],
             \A i \in DOMAIN o.names : type[i] \in FieldTypes,
             Plain(o) => \A i \in DOMAIN o.names : type[i] \in ColumnTypes
      PROVE  /\ fields \in Seq(Field)
             /\ Plain(o) => \A i \in DOMAIN fields : fields[i].name # NoName /\ fields[i].type \in ColumnTypes
  <2>1. fields \in [1..Len(o.names) -> Field]
    BY <1>3, <1>4 DEF Field, FieldTypes
  <2>2. fields \in Seq(Field)
    BY <1>3, <2>1, FunctionIsSeq
  <2>3. \A i \in DOMAIN fields : fields[i].name = o.names[i] /\ fields[i].type = type[i] /\ i \in DOMAIN o.names
    BY <1>4
  <2>4. Plain(o) => \A i \in DOMAIN o.names : o.names[i] # NoName
    BY DEF Plain
  <2> QED BY <1>4, <2>2, <2>3, <2>4
<1>5. CASE fields = infer_csv_schema(o)
  <2> DEFINE type == [i \in DOMAIN o.names |->
                        IF i \in DOMAIN o.values THEN _sniff_scalar_type(o.values[i]) ELSE "string"]
  <2>1. fields = [i \in DOMAIN o.names |-> [name |-> o.names[i],
            type |-> IF i \in DOMAIN o.values THEN _sniff_scalar_type(o.values[i]) ELSE "string"]]
    BY <1>5 DEF infer_csv_schema
  <2>2. \A v : _sniff_scalar_type(v) \in {"integer", "float", "boolean", "string"}
    BY DEF _sniff_scalar_type
  <2>3. \A i \in DOMAIN o.names : type[i] \in {"integer", "float", "boolean", "string"}
    BY <2>2
  <2>4. fields = [i \in DOMAIN o.names |-> [name |-> o.names[i], type |-> type[i]]]
    BY <2>1
  <2>5. {"integer", "float", "boolean", "string"} \subseteq ColumnTypes /\ ColumnTypes \subseteq FieldTypes
    BY DEF ColumnTypes, FieldTypes
  <2> HIDE DEF type
  <2> QED BY <1>1, <1>4, <2>3, <2>4, <2>5
<1>6. CASE fields = infer_parquet_schema(o)
  <2> DEFINE of(i) == {b \in DOMAIN ParquetTypes : o.values[i] \in ParquetTypes[b]}
             type == [i \in DOMAIN o.names |-> IF of(i) = {} THEN "other" ELSE CHOOSE b \in of(i) : TRUE]
  <2>1. /\ fields = [i \in DOMAIN o.names |-> [name |-> o.names[i],
              type |-> IF of(i) = {} THEN "other" ELSE CHOOSE b \in of(i) : TRUE]]
        /\ o.kind = "parquet"
    BY <1>6 DEF infer_parquet_schema
  <2>2. DOMAIN ParquetTypes = {"integer", "float", "boolean", "string", "binary", "date", "timestamp"}
    BY DEF ParquetTypes
  <2>3. DOMAIN ParquetTypes \subseteq ColumnTypes /\ ColumnTypes \cup {"other"} \subseteq FieldTypes
    BY <2>2 DEF ColumnTypes, FieldTypes
  <2>4. \A i \in DOMAIN o.names :
          /\ type[i] \in DOMAIN ParquetTypes \cup {"other"}
          /\ of(i) # {} => type[i] \in DOMAIN ParquetTypes
    OBVIOUS
  <2>5. Plain(o) => \A i \in DOMAIN o.names : of(i) # {}
    BY <1>2, <1>3, <2>1 DEF Plain
  <2>6. fields = [i \in DOMAIN o.names |-> [name |-> o.names[i], type |-> type[i]]]
    BY <2>1
  <2> HIDE DEF type, of
  <2>7. \A i \in DOMAIN o.names : type[i] \in FieldTypes
    BY <2>3, <2>4
  <2>8. Plain(o) => \A i \in DOMAIN o.names : type[i] \in ColumnTypes
    BY <2>3, <2>4, <2>5
  <2> QED BY <1>1, <1>4, <2>6, <2>7, <2>8
<1> QED BY <1>1, <1>5, <1>6

\* What is made of a prefix that was read is what its objects are.
LEMMA DatasetIsRight ==
    ASSUME IInv, NEW prefix \in Prefix, Objects(prefix) # {},
           PrefixRead(Objects(prefix), q.count, q.sample),
           NEW d, d = _dataset_to_normalized(prefix, bucket[q.sample[1]])
    PROVE  /\ d # Nothing /\ DatasetIs(d, prefix, Objects(prefix))
           /\ prefix # WholeBucket /\ Plain(bucket[Min(Objects(prefix))]) => DatasetAccepted(prefix, d)
<1> DEFINE ks == Objects(prefix)
           o == bucket[q.sample[1]]
           sampled == {k \in ks : Place(ks, k) < sample_limit}
           file_format == aggregate_format(q.sample)
           partition_keys == infer_partitioning(q.sample, prefix)
           fields == _infer_fields(file_format, o)
<1>1. ks \in SUBSET (1..LastKey) /\ ks \in SUBSET Nat /\ IsFiniteSet(ks)
  BY ObjectsAreKeys
<1>2. q.count = Cardinality(ks) /\ q.count \in Nat /\ q.sample \in Seq(ks)
  BY <1>1, FS_CardinalityType DEF PrefixRead
<1>3. {q.sample[i] : i \in DOMAIN q.sample} = sampled /\ q.sample[1] = Min(ks) /\ Min(ks) \in ks
  <2> HIDE DEF ks
  <2> PICK count, sample : count = q.count /\ sample = q.sample
    OBVIOUS
  <2>1. ks # {} /\ PrefixRead(ks, count, sample)
    BY DEF ks
  <2>2. /\ {sample[i] : i \in DOMAIN sample} = {k \in ks : Place(ks, k) < sample_limit}
        /\ sample[1] = Min(ks) /\ Min(ks) \in ks
    BY <1>1, <2>1, SampleIs
  <2> QED BY <2>2
<1>4. d = [file_format |-> file_format, partition_keys |-> partition_keys,
           object_count_estimate |-> q.count, fields |-> fields]
  BY DEF _dataset_to_normalized
<1>5. /\ file_format \in FileFormats
      /\ file_format = IF Formats(sampled) = {} THEN "unknown"
                       ELSE IF Cardinality(Formats(sampled)) = 1
                            THEN CHOOSE f \in Formats(sampled) : TRUE
                       ELSE "mixed"
  <2> HIDE DEF sampled
  <2> QED BY <1>3, FormatIs
<1>6. /\ partition_keys \in Distinct
      /\ ToSet(partition_keys) = UNION {ToSet(Folders[prefix][k]) : k \in sampled}
  <2>1. q.sample \in Seq(1..LastKey)
    <3> HIDE DEF ks
    <3> QED BY <1>1, <1>2, SeqMonotonic
  <2>2. partition_keys \in Distinct
        /\ ToSet(partition_keys) = UNION {ToSet(Folders[prefix][q.sample[i]]) : i \in DOMAIN q.sample}
    BY <2>1, PartitioningIs
  <2>3. {ToSet(Folders[prefix][q.sample[i]]) : i \in DOMAIN q.sample}
          = {ToSet(Folders[prefix][k]) : k \in sampled}
    <3> HIDE DEF sampled
    <3> QED BY <1>3
  <2> HIDE DEF sampled, partition_keys
  <2> QED BY <2>2, <2>3
<1>7. o \in Object \cup {Nothing} /\ o = bucket[Min(ks)]
  <2>1. bucket \in [1..LastKey -> Object \cup {Nothing}]
    BY DEF IInv, Typed, TypeOK, Key
  <2> HIDE DEF ks
  <2> QED BY <1>1, <1>3, <2>1
<1>8. fields = Nothing \/ (/\ fields \in Seq(Field)
                           /\ Plain(o) => \A i \in DOMAIN fields :
                                fields[i].name # NoName /\ fields[i].type \in ColumnTypes)
  <2> HIDE DEF o, file_format
  <2> PICK fs : fs = fields
    OBVIOUS
  <2> QED BY <1>7, FieldsAre
<1> HIDE DEF fields, partition_keys, file_format, sampled, o
<1>9. d # Nothing
  <2>1. d \in Dataset
    BY <1>2, <1>4, <1>5, <1>6, <1>8 DEF Dataset, Distinct
  <2> QED BY <2>1, S3Assumption
<1>10. DatasetIs(d, prefix, ks)
  <2>1. sampled = {k \in ks : Cardinality({j \in ks : j < k}) < sample_limit}
    BY DEF sampled, Place
  <2>2. d.object_count_estimate = Cardinality(ks) /\ d.file_format = file_format
        /\ d.partition_keys = partition_keys /\ d.fields = fields
    BY <1>2, <1>4
  <2>3. IsInjective(partition_keys)
    BY <1>6 DEF Distinct
  <2>4. fields = _infer_fields(file_format, bucket[Min(ks)])
    BY <1>7 DEF fields
  <2> HIDE DEF ks
  <2> QED BY <1>5, <1>6, <2>1, <2>2, <2>3, <2>4 DEF DatasetIs, Formats
<1>11. prefix # WholeBucket /\ Plain(o) => DatasetAccepted(prefix, d)
  BY <1>4, <1>8 DEF DatasetAccepted, validate_entity
<1> QED BY <1>7, <1>9, <1>10, <1>11

-----------------------------------------------------------------------------
(* What an undisturbed scrape of a bucket has read. *)

\* A dataset is shown as it was shown.
LEMMA DatasetShownAgain ==
    ASSUME UNCHANGED bucket, NEW u, datasets'[u] = datasets[u], DatasetIsShown(u)
    PROVE  DatasetIsShown(u)'
<1>1. Objects(u)' = Objects(u)
  BY DEF Objects, Present
<1>2. \A d, ks : DatasetIs(d, u, ks)' = DatasetIs(d, u, ks)
  BY DEF DatasetIs
<1> QED BY <1>1, <1>2 DEF DatasetIsShown

LEMMA NextPrefixReads ==
    ASSUME IInv, DatasetsRead, calm, pc \in {"prefixes", "sniff"}, q.todo # <<>>, pc' = "prefixes",
           q' = Listed(Tail(q.todo), 0, <<>>, 0), UNCHANGED bucket,
           \A u \in seen'.dataset : DatasetIsShown(u)'
    PROVE  DatasetsRead'
<1>1. q'.todo = Tail(q.todo) /\ q'.last = 0 /\ q'.sample = <<>> /\ q'.count = 0
  BY DEF Listed
<1>2. ASSUME q'.todo # <<>>
      PROVE  {k \in Objects(Head(q'.todo)) : k <= 0} = {}
  <2>1. q'.todo \in Seq(Prefix)
    BY <1>1, TailElements DEF IInv, Typed
  <2>2. Head(q'.todo) \in Prefix
    BY <1>2, <2>1, HeadTailProperties
  <2>3. Objects(Head(q'.todo)) \in SUBSET (1..LastKey) /\ LastKey \in Nat
    BY <2>2, ObjectsAreKeys, S3Assumption
  <2> QED BY <2>3
<1>3. \A prefix : Objects(prefix)' = Objects(prefix)
  BY DEF Objects, Present
<1>4. q'.todo # <<>> => PrefixRead({k \in Objects(Head(q'.todo)) : k <= q'.last}, q'.count, q'.sample)
  BY <1>1, <1>2, NothingRead
<1>5. pc' = "prefixes" /\ pc' # "idle" /\ pc' # "sniff" /\ q'.last \in Nat
  BY <1>1
<1> QED BY <1>3, <1>4, <1>5 DEF DatasetsRead

\* One page takes the listing behind the greatest key of the page.
LEMMA PageExtends ==
    ASSUME IInv, q.todo # <<>>, q.last \in Nat
    PROVE  LET ks == Objects(Head(q.todo))
               read == {k \in ks : k <= q.last}
           IN  /\ read \in SUBSET Nat /\ IsFiniteSet(read)
               /\ Counted \in SUBSET Nat /\ IsFiniteSet(Counted)
               /\ \A k \in read, m \in Counted : k < m
               /\ Page = Rest => read \cup Counted = ks
               /\ Page # Rest => /\ Max(Page) \in Nat
                                 /\ read \cup Counted = {k \in ks : k <= Max(Page)}
<1> DEFINE head == Head(q.todo)
           ks == Objects(head)
           read == {k \in ks : k <= q.last}
<1>1. head \in Prefix /\ (Page # Rest => Counted # {})
  BY PageHolds
<1>2. ks \in SUBSET Nat /\ IsFiniteSet(ks)
  BY <1>1, ObjectsAreKeys
<1>3. Rest \in SUBSET Nat /\ IsFiniteSet(Rest)
  <2>1. Under[head] \in SUBSET (1..LastKey) /\ LastKey \in Nat /\ IsFiniteSet(1..LastKey)
    BY <1>1, S3Assumption, FS_Interval
  <2>2. Rest \in SUBSET (1..LastKey)
    BY <2>1 DEF Rest, Present
  <2>3. IsFiniteSet(Rest)
    BY <2>1, <2>2, FS_Subset
  <2>4. 1..LastKey \subseteq Nat
    BY <2>1
  <2> QED BY <2>2, <2>3, <2>4
<1>4. Rest \ Marker = ks \ read
  <2>1. \A k \in Rest \ Marker : k \in ks /\ ~(k <= q.last)
    BY <1>3 DEF Rest, Objects
  <2>2. \A k \in ks \ read : k \in Rest \ Marker
    BY <1>2 DEF Rest, Objects
  <2> QED BY <2>1, <2>2
<1>5. Page \in SUBSET Rest /\ Counted = Page \ Marker
  BY DEF Page, Counted
<1>6. read \in SUBSET ks /\ \A k \in read : k <= q.last
  OBVIOUS
<1>7. \A k \in Rest : k > q.last
  BY DEF Rest
<1> HIDE DEF ks, read, head
<1>8. read \in SUBSET Nat /\ IsFiniteSet(read) /\ Counted \in SUBSET Rest /\ IsFiniteSet(Counted)
  BY <1>2, <1>3, <1>5, <1>6, FS_Subset
<1>9. ASSUME NEW k \in read, NEW m \in Counted PROVE k < m
  <2>1. k \in Nat /\ k <= q.last /\ m \in Nat /\ m > q.last
    BY <1>3, <1>6, <1>7, <1>8
  <2> QED BY <2>1
<1>10. Page = Rest => read \cup Counted = ks
  BY <1>4, <1>5, <1>6
<1>11. ASSUME Page # Rest
       PROVE  Max(Page) \in Nat /\ read \cup Counted = {k \in ks : k <= Max(Page)}
  <2>1. Page # {} /\ Page \in SUBSET Nat /\ IsFiniteSet(Page)
    BY <1>1, <1>3, <1>5, <1>11, FS_Subset
  <2>2. Max(Page) \in Page /\ \A k \in Page : Max(Page) >= k
    BY <2>1, MaxIsGreatest
  <2> PICK m : m = Max(Page)
    OBVIOUS
  <2>3. m \in Page /\ m \in Rest /\ m \in Nat /\ m > q.last /\ \A k \in Page : m >= k
    BY <1>3, <1>5, <1>7, <2>2
  <2>4. ASSUME NEW k \in Rest, k <= m PROVE k \in Page
    <3>1. k \in Nat
      BY <1>3
    <3> DEFINE low == {j \in Rest : j < k}
               high == {j \in Rest : j < m}
    <3>2. low \in SUBSET high /\ high \in SUBSET Rest
      <4>1. \A j \in Rest : j < k => j < m
        BY <1>3, <2>3, <2>4, <3>1
      <4> QED BY <4>1
    <3>3. Cardinality(high) < PageSize
      BY <2>3 DEF Page
    <3> HIDE DEF low, high
    <3>4. IsFiniteSet(high)
      BY <1>3, <3>2, FS_Subset
    <3>5. Cardinality(low) <= Cardinality(high) /\ Cardinality(low) \in Nat /\ Cardinality(high) \in Nat
      BY <3>2, <3>4, FS_Subset, FS_CardinalityType
    <3>6. Cardinality(low) < PageSize
      BY <3>3, <3>5, S3Assumption
    <3> QED BY <3>6 DEF low, Page
  <2>5. ASSUME NEW k \in ks, k <= m PROVE k \in read \cup Counted
    BY <1>4, <1>5, <2>4, <2>5
  <2>6. ASSUME NEW k \in read PROVE k \in ks /\ k <= m
    <3>1. k \in ks /\ k \in Nat /\ k <= q.last
      BY <1>6, <1>8
    <3> QED BY <2>3, <3>1
  <2>7. ASSUME NEW k \in Counted PROVE k \in ks /\ k <= m
    <3>1. k \in ks /\ k \in Page /\ k \in Nat
      BY <1>3, <1>4, <1>5
    <3> QED BY <2>3, <3>1
  <2> QED BY <2>3, <2>5, <2>6, <2>7
<1> QED BY <1>3, <1>8, <1>9, <1>10, <1>11 DEF ks, read, head

LEMMA ListPrefixReads ==
    ASSUME IInv, DatasetsRead, list_prefix, Undisturbing
    PROVE  DatasetsRead'
<1> DEFINE ks == Objects(Head(q.todo))
           read == {k \in ks : k <= q.last}
           keys == InKeyOrder(Counted)
           taken == Min({sample_limit - Len(q.sample), Len(keys)})
           count == q.count + Cardinality(Counted)
           sample == q.sample \o SubSeq(keys, 1, taken)
<1>1. /\ pc = "prefixes" /\ q.todo # <<>> /\ calm
      /\ UNCHANGED <<seen, datasets, bucket>>
  BY DEF list_prefix, cursors, catalog, Undisturbing
<1>2. \/ Page # Rest /\ pc' = "prefixes"
         /\ q' = [q EXCEPT !.last = Max(Page), !.count = count, !.sample = sample]
      \/ Page = Rest /\ count = 0 /\ pc' = "prefixes" /\ q' = [Unlisted EXCEPT !.todo = Tail(q.todo)]
      \/ Page = Rest /\ count # 0 /\ pc' = "sniff"
         /\ q' = [q EXCEPT !.last = 0, !.count = count, !.sample = sample]
  BY <1>1 DEF list_prefix
<1>3. q.last \in Nat /\ PrefixRead(read, q.count, q.sample)
  BY <1>1 DEF DatasetsRead
<1>4. /\ read \in SUBSET Nat /\ IsFiniteSet(read)
      /\ Counted \in SUBSET Nat /\ IsFiniteSet(Counted)
      /\ \A k \in read, m \in Counted : k < m
      /\ Page = Rest => read \cup Counted = ks
      /\ Page # Rest => Max(Page) \in Nat /\ read \cup Counted = {k \in ks : k <= Max(Page)}
  BY <1>1, <1>3, PageExtends
<1>5. PrefixRead(read \cup Counted, count, sample)
  <2> HIDE DEF read
  <2> QED BY <1>3, <1>4, PrefixExtended
<1>6. q = Listed(q.todo, q.last, q.sample, q.count)
  BY DEF IInv, Typed
<1>7. ASSUME NEW u \in seen'.dataset PROVE DatasetIsShown(u)'
  <2>1. DatasetIsShown(u)
    BY <1>1, <1>7 DEF DatasetsRead
  <2> QED BY <1>1, <2>1, DatasetShownAgain
<1>8. \A prefix : Objects(prefix)' = Objects(prefix)
  BY <1>1 DEF Objects, Present
<1> HIDE DEF count, sample, read
<1>9. CASE Page # Rest /\ pc' = "prefixes"
           /\ q' = [q EXCEPT !.last = Max(Page), !.count = count, !.sample = sample]
  <2>1. q'.todo = q.todo /\ q'.last = Max(Page) /\ q'.count = count /\ q'.sample = sample
    BY <1>6, <1>9 DEF Listed
  <2> PICK m : m = Max(Page)
    OBVIOUS
  <2>2. PrefixRead({k \in ks : k <= m}, count, sample) /\ m \in Nat
    BY <1>4, <1>5, <1>9
  <2> QED BY <1>7, <1>8, <1>9, <2>1, <2>2 DEF DatasetsRead
<1>10. CASE Page = Rest /\ count = 0 /\ pc' = "prefixes" /\ q' = [Unlisted EXCEPT !.todo = Tail(q.todo)]
  <2>1. q' = Listed(Tail(q.todo), 0, <<>>, 0)
    BY <1>10 DEF Unlisted, Listed
  <2> QED BY <1>1, <1>7, <1>10, <2>1, NextPrefixReads
<1>11. CASE Page = Rest /\ count # 0 /\ pc' = "sniff"
            /\ q' = [q EXCEPT !.last = 0, !.count = count, !.sample = sample]
  <2>1. q'.todo = q.todo /\ q'.count = count /\ q'.sample = sample
    BY <1>6, <1>11 DEF Listed
  <2>2. PrefixRead(ks, count, sample)
    BY <1>4, <1>5, <1>11
  <2> QED BY <1>7, <1>8, <1>11, <2>1, <2>2 DEF DatasetsRead
<1> QED BY <1>2, <1>9, <1>10, <1>11

\* The dataset that was made of a prefix is shown.
LEMMA DatasetShownNow ==
    ASSUME UNCHANGED bucket, NEW u \in Prefix, DOMAIN datasets = Prefix, NEW d, d # Nothing,
           DatasetIs(d, u, Objects(u)),
           u # WholeBucket /\ Plain(bucket[Min(Objects(u))]) => DatasetAccepted(u, d),
           datasets' = IF DatasetAccepted(u, d) THEN [datasets EXCEPT ![u] = d] ELSE datasets
    PROVE  DatasetIsShown(u)'
<1>1. Objects(u)' = Objects(u)
  BY DEF Objects, Present
<1>2. \A ks : DatasetIs(d, u, ks)' = DatasetIs(d, u, ks)
  BY DEF DatasetIs
<1>3. DatasetAccepted(u, d) => datasets'[u] = d
  OBVIOUS
<1>4. ASSUME u # WholeBucket, Plain(bucket'[Min(Objects(u)')])
      PROVE  datasets'[u] = d
  BY <1>1, <1>3, <1>4
<1> QED BY <1>1, <1>2, <1>4 DEF DatasetIsShown

LEMMA SniffReads ==
    ASSUME IInv, DatasetsRead, sniff_object_bytes, Undisturbing
    PROVE  DatasetsRead'
<1> DEFINE head == Head(q.todo)
           ks == Objects(head)
           o == bucket[q.sample[1]]
           d == _dataset_to_normalized(head, o)
<1>1. pc = "sniff" /\ calm /\ Deliver(o) /\ UNCHANGED bucket
  <2>1. fails \in Nat /\ fails' = fails
    BY DEF IInv, Typed, TypeOK, Undisturbing
  <2> QED BY <2>1 DEF sniff_object_bytes, Undisturbing
<1>2. /\ seen' = [seen EXCEPT !.dataset = @ \cup {head}]
      /\ datasets' = IF DatasetAccepted(head, d) THEN [datasets EXCEPT ![head] = d] ELSE datasets
      /\ q' = Listed(Tail(q.todo), 0, <<>>, 0)
      /\ pc' = "prefixes"
  BY <1>1 DEF Deliver, Unlisted, Listed
<1>3. q.count > 0 /\ q.todo # <<>> /\ q.todo \in Seq(Prefix)
  BY <1>1 DEF IInv, DatasetsMet, Typed
<1>4. head \in Prefix
  BY <1>3, HeadTailProperties
<1>5. PrefixRead(ks, q.count, q.sample)
  BY <1>1 DEF DatasetsRead
<1>6. ks # {}
  <2>1. q.count = Cardinality(ks)
    BY <1>5 DEF PrefixRead
  <2> HIDE DEF ks
  <2> QED BY <1>3, <2>1, FS_EmptySet
<1>7. /\ d # Nothing /\ DatasetIs(d, head, ks)
      /\ head # WholeBucket /\ Plain(bucket[Min(ks)]) => DatasetAccepted(head, d)
  <2> HIDE DEF head
  <2> PICK e : e = d
    OBVIOUS
  <2> QED BY <1>4, <1>5, <1>6, DatasetIsRight
<1>8. DOMAIN datasets = Prefix /\ seen'.dataset = seen.dataset \cup {head}
  BY <1>2 DEF IInv, Typed, TypeOK, Cursor
<1> HIDE DEF d, ks
<1>9. ASSUME NEW u, u = head PROVE DatasetIsShown(u)'
  <2> PICK e : e = d
    OBVIOUS
  <2> QED BY <1>1, <1>2, <1>4, <1>7, <1>8, <1>9, DatasetShownNow DEF ks
<1>10. ASSUME NEW u \in seen'.dataset PROVE DatasetIsShown(u)'
  <2>1. CASE u = head
    BY <1>9, <2>1
  <2>2. CASE u # head
    <3>1. DatasetIsShown(u)
      BY <1>1, <1>8, <1>10, <2>2 DEF DatasetsRead
    <3>2. datasets'[u] = datasets[u]
      BY <1>2, <2>2
    <3> QED BY <1>1, <3>1, <3>2, DatasetShownAgain
  <2> QED BY <2>1, <2>2
<1> QED BY <1>1, <1>2, <1>3, <1>10, NextPrefixReads

-----------------------------------------------------------------------------
(* A scrape that nothing disturbs is exact. *)

LEMMA TombstoneDatasetsReads ==
    ASSUME IInv, DatasetsRead, Tombstone, Undisturbing
    PROVE  DatasetsRead'
<1>1. pc = "diff" /\ pc' = "save" /\ UNCHANGED <<seen, bucket>> /\ calm
  BY DEF Tombstone, Undisturbing
<1>2. datasets' = [u \in Prefix |-> IF u \in known.dataset \ seen.dataset THEN Nothing ELSE datasets[u]]
  BY DEF Tombstone, diff_deleted_urns
<1>3. ASSUME NEW u \in seen'.dataset PROVE DatasetIsShown(u)'
  <2>1. DatasetIsShown(u) /\ u \in seen.dataset
    BY <1>1, <1>3 DEF DatasetsRead
  <2>2. u \in Prefix
    BY <2>1 DEF IInv, Typed, TypeOK, Cursor
  <2>3. datasets'[u] = datasets[u]
    BY <1>2, <2>1, <2>2
  <2> QED BY <1>1, <2>1, <2>3, DatasetShownAgain
<1> QED BY <1>1, <1>3 DEF DatasetsRead

LEMMA SaveDatasetsReads ==
    ASSUME IInv, DatasetsRead, Save, Undisturbing
    PROVE  DatasetsRead'
<1>1. pc = "save" /\ pc' = "idle" /\ UNCHANGED <<datasets, bucket>> /\ calm
  BY DEF Save, catalog, Undisturbing
<1>2. ASSUME NEW n \in DOMAIN prefixes PROVE DatasetIsShown(prefixes[n])'
  <2> PICK u : u = prefixes[n]
    OBVIOUS
  <2>1. DatasetIsShown(u)
    <3>1. CASE Objects(u) = {}
      BY <3>1 DEF DatasetIsShown
    <3>2. CASE Objects(u) # {}
      <4>1. u \in DatasetsHere
        BY <3>2, DatasetHere DEF Objects
      <4>2. u \in seen.dataset
        BY <1>1, <4>1 DEF IInv, Window, Here, DatasetsMet
      <4> QED BY <1>1, <4>2 DEF DatasetsRead
    <3> QED BY <3>1, <3>2
  <2> QED BY <1>1, <2>1, DatasetShownAgain
<1>3. DatasetsAreShown'
  BY <1>2 DEF DatasetsAreShown
<1> QED BY <1>1, <1>3 DEF DatasetsRead

LEMMA DatasetsReadStep ==
    ASSUME IInv, IInv', DatasetsRead, [Next]_vars
    PROVE  DatasetsRead'
<1> SUFFICES ASSUME calm' PROVE DatasetsRead'
  BY DEF DatasetsRead
<1>1. CASE UNCHANGED vars
  <2>1. UNCHANGED <<pc, seen, datasets, bucket, q>> /\ calm
    BY <1>1 DEF vars, cursors, catalog, counts, history
  <2>2. /\ \A prefix : Objects(prefix)' = Objects(prefix)
        /\ \A d, u, ks : DatasetIs(d, u, ks)' = DatasetIs(d, u, ks)
    BY <2>1 DEF Objects, Present, DatasetIs
  <2>3. \A u : DatasetIsShown(u)' = DatasetIsShown(u)
    BY <2>1, <2>2 DEF DatasetIsShown
  <2> QED BY <2>1, <2>2, <2>3 DEF DatasetsRead, DatasetsAreShown
<1>2. CASE kind = "postgres" /\ UNCHANGED kind
  <2>1. pc' \notin {"prefixes", "sniff"} /\ bucket' = [k \in Key |-> Nothing] /\ seen'.dataset = {}
    BY <1>2 DEF IInv, Kinds
  <2>2. \A n \in DOMAIN prefixes : prefixes[n] \in Prefix
    BY S3Assumption
  <2>3. \A prefix \in Prefix : Objects(prefix)' = {}
    BY <2>1, S3Assumption DEF Objects, Present, Key
  <2>4. DatasetsAreShown'
    BY <2>2, <2>3 DEF DatasetsAreShown, DatasetIsShown
  <2> QED BY <2>1, <2>4 DEF DatasetsRead
<1>3. CASE UNCHANGED <<kind, db, p>> /\ NextS3
  <2>1. CASE ConnectS3 /\ Begins
    <3>1. /\ seen'.dataset = {} /\ pc' = "prefixes" /\ UNCHANGED bucket
          /\ q' = Listed(prefixes, 0, <<>>, 0)
      BY <2>1 DEF ConnectS3, Connect, IInv, Recorded, empty, Listed, Unlisted
    <3>2. ASSUME q'.todo # <<>>
          PROVE  {k \in Objects(Head(q'.todo)) : k <= 0} = {}
      <4>1. q'.todo = prefixes /\ prefixes \in Seq(Prefix)
        BY <3>1, S3Assumption DEF Listed
      <4>2. Head(prefixes) \in Prefix
        BY <3>2, <4>1, HeadTailProperties
      <4>3. Objects(Head(prefixes)) \in SUBSET (1..LastKey) /\ LastKey \in Nat
        BY <4>2, ObjectsAreKeys, S3Assumption
      <4> QED BY <4>1, <4>3
    <3>3. \A prefix : Objects(prefix)' = Objects(prefix)
      BY <3>1 DEF Objects, Present
    <3>4. q'.last = 0 /\ q'.count = 0 /\ q'.sample = <<>>
      BY <3>1 DEF Listed
    <3>5. q'.todo # <<>> => PrefixRead({k \in Objects(Head(q'.todo)) : k <= q'.last}, q'.count, q'.sample)
      BY <3>2, <3>4, NothingRead
    <3>6. q'.last \in Nat /\ pc' = "prefixes" /\ pc' # "idle" /\ pc' # "sniff"
      BY <3>1, <3>4
    <3> QED BY <3>1, <3>3, <3>5, <3>6 DEF DatasetsRead
  <2>2. ASSUME GoesOn, UNCHANGED bucket PROVE Undisturbing
    <3>1. calm /\ fails' = fails
      BY <2>2 DEF GoesOn, IInv, Typed, TypeOK
    <3> QED BY <1>3, <2>2, <3>1 DEF GoesOn, Undisturbing
  <2>3. CASE list_prefix /\ GoesOn
    BY <2>2, <2>3, ListPrefixReads DEF list_prefix
  <2>4. CASE sniff_object_bytes /\ GoesOn
    <3>1. UNCHANGED bucket
      BY <2>4 DEF sniff_object_bytes, Deliver
    <3> QED BY <2>2, <2>4, <3>1, SniffReads
  <2>5. CASE ListedPrefixes /\ GoesOn
    <3>1. calm /\ pc = "prefixes" /\ pc' = "diff" /\ UNCHANGED <<seen, datasets, bucket>>
      BY <2>2, <2>5 DEF ListedPrefixes, cursors, catalog, Undisturbing
    <3>2. ASSUME NEW u \in seen'.dataset PROVE DatasetIsShown(u)'
      <4>1. DatasetIsShown(u)
        BY <3>1, <3>2 DEF DatasetsRead
      <4> QED BY <3>1, <4>1, DatasetShownAgain
    <3> QED BY <3>1, <3>2 DEF DatasetsRead
  <2>6. CASE (Tombstone \/ Save) /\ UNCHANGED <<bucket, q>> /\ GoesOn
    BY <2>2, <2>6, TombstoneDatasetsReads, SaveDatasetsReads
  <2>7. CASE Fail /\ GoesOn
    <3>1. fails \in Nat /\ fails' = fails + 1 /\ fails' = fails
      BY <2>7 DEF Fail, GoesOn, IInv, Typed, TypeOK
    <3> QED BY <3>1
  <2>8. CASE Changes
    BY <2>8 DEF Changes
  <2> QED BY <1>3, <2>1, <2>3, <2>4, <2>5, <2>6, <2>7, <2>8 DEF NextS3, ScrapeS3, DiscoverDatasets
<1> QED BY <1>1, <1>2, <1>3 DEF Next

LEMMA QInvStep == IInv /\ IInv' /\ QInv /\ [Next]_vars => QInv'
BY TablesReadStep, DatasetsReadStep, ShownIsKnownStep DEF QInv

LEMMA InitQInv == Init => QInv
<1> SUFFICES ASSUME Init PROVE QInv
  OBVIOUS
<1>1. pc = "idle" /\ calm = FALSE
  BY DEF Init, InitConnector
<1>2. ShownIsKnown
  BY DEF Init, InitConnector, ShownIsKnown, Knows
<1> QED BY <1>1, <1>2 DEF QInv, TablesRead, DatasetsRead

LEMMA QuietFollows == IInv /\ QInv => QuietScrapeIsExact
<1> SUFFICES ASSUME IInv, QInv, Quiet
             PROVE  TablesAreShown /\ DatasetsAreShown /\ (fails = 0 => NothingElseIsShown)
  BY DEF QuietScrapeIsExact
<1>1. pc = "idle" /\ calm
  BY DEF Quiet
<1>2. saved = [table |-> TablesHere, column |-> ColumnsHere, dataset |-> DatasetsHere]
  BY <1>1 DEF IInv, Undisturbed, QuietCursorIsExact
<1>3. saved.table = TablesHere /\ saved.column = ColumnsHere /\ saved.dataset = DatasetsHere
  BY <1>2
<1>4. fails = 0 => Knows(saved)
  BY <1>1 DEF QInv, ShownIsKnown
<1> QED BY <1>1, <1>3, <1>4 DEF QInv, TablesRead, DatasetsRead, Knows, NothingElseIsShown

\* A scrape that nothing disturbs puts the catalog right, whatever the scrapes before it
\* have left: every table and column that the schemas accept is shown as it is, keys and
\* references included, though a constraint and what it refers to are read by separate
\* queries; every prefix with objects is a dataset of their number, of the format and the
\* partitions of the first sample_limit and of the fields of the first, however many pages
\* it was listed in; and unless a scrape failed, nothing else is shown.
THEOREM QuietScrapeIsExactAlways == Spec => []QuietScrapeIsExact
<1>1. Spec => [](IInv /\ QInv)
  BY InitInv, NextInv, InitQInv, QInvStep, PTL DEF Spec
<1> QED BY <1>1, QuietFollows, PTL
=============================================================================
