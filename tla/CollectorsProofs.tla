--------------------------- MODULE CollectorsProofs ---------------------------
(***************************************************************************)
(* What holds of collectors for every number of clients, collectors,       *)
(* devices and restarts: the type invariant, and that the scheduler and    *)
(* the invocations follow the table.  One inductive invariant says, for    *)
(* each step of a request, what the scheduler holds of its collector.      *)
(***************************************************************************)
EXTENDS Collectors, TLAPS, FiniteSetTheorems

(* No two rows bear the same uuid. *)
UniqueIds == \A r, s \in rows : r.id = s.id => r = s

(* Whatever bears a uuid was given it. *)
OnlyUsed ==
  /\ \A r \in rows : r.id \in used
  /\ \A c \in Clients : IdsOf(req[c]) \subseteq used
  /\ \A c \in Clients : At(c, "invoke") => req[c].row.id \in used
  /\ \A r \in Rows : sched[r] > 0 \/ once[r] > 0 => r.id \in used

(* The requests that may have been given a uuid. *)
Given == {c \in Clients : req[c].pc \notin {"new", "insert"}}

(* There is a uuid left for every request that may ask for one. *)
EnoughIds == Cardinality(used) <= 1 + Cardinality(Given)

(* What the scheduler holds of collector i: what the table says, nothing,   *)
(* or at most one periodic job.                                             *)
Settled(i) ==
  \A r \in Rows : r.id = i => sched[r] = IF r \in rows /\ Startable(r) THEN 1 ELSE 0

Cleared(i) == \A r \in Rows : r.id = i => sched[r] = 0

Single(i) ==
  \A r, s \in Rows :
    r.id = i /\ s.id = i /\ sched[r] > 0 /\ sched[s] > 0 => r = s /\ sched[r] = 1

(* What a request q on collector i has found, and has done. *)
Progress(q, i) ==
  /\ q.pc \in {"save", "delete"} => Settled(i)
  /\ q.pc \in {"rereadCreated", "start"} => Cleared(i)
  /\ q.pc \in {"rereadUpdated", "cancelStart", "cancel"} => Single(i)
  /\ q.pc \in {"rereadCreated", "rereadUpdated"} => HasRow(i)
  /\ q.pc \in {"start", "cancelStart"} => q.row \in rows
  /\ q.pc = "cancel" => ~HasRow(i)

(* A collector that is not disturbed has at most one request at a time, and *)
(* the scheduler is where that request has left it.                         *)
Alone ==
  \A i \in Ids \ disturbed : \A c, d \in Clients :
    i \in IdsOf(req[c]) /\ i \in IdsOf(req[d]) => c = d

Followed ==
  \A i \in Ids \ disturbed :
    /\ \A c \in Clients : i \in IdsOf(req[c]) => Progress(req[c], i)
    /\ ~Busy(i) => Settled(i)

Intact == Ids \ (disturbed \cup overtaken)

(* Requests that have changed the table and not yet cancelled. *)
Changed(i) ==
  \E c \in Clients : req[c].pc \in {"rereadUpdated", "cancelStart", "cancel"} /\ i \in IdsOf(req[c])

(* An invocation that is not overtaken is alone and has the current row. *)
InvokedAlone ==
  \A c \in Clients :
    At(c, "invoke") /\ req[c].row.id \in Intact => ~Busy(req[c].row.id) /\ req[c].row \in rows

OnceCurrent ==
  \A r \in Rows : once[r] > 0 /\ r.id \in Intact => r \in rows \/ Changed(r.id)

Inv ==
  /\ TypeOK
  /\ UniqueIds
  /\ OnlyUsed
  /\ EnoughIds
  /\ Alone
  /\ Followed
  /\ InvokedAlone
  /\ OnceCurrent

-----------------------------------------------------------------------------
(* Requests *)

(* The fields of a request, by where it is. *)
LEMMA RequestFields ==
  ASSUME NEW q \in Requests
  PROVE  /\ q.pc \in {"deleteDevice", "insert"} => q.sn \in Devices
         /\ q.pc = "insert" => q.config \in Configs
         /\ q.pc \in {"save", "cancelStart", "start", "invoke"} => q.row \in Rows
         /\ q.pc \in {"rereadCreated", "rereadUpdated", "delete", "cancel"} => q.id \in Ids
  BY DEF Requests, Fresh, Done

(* The uuids of a request's collector. *)
LEMMA RequestIds ==
  ASSUME NEW q \in Requests
  PROVE  /\ IdsOf(q) \subseteq Ids
         /\ q.pc \in {"new", "done", "deleteDevice", "insert", "invoke"} => IdsOf(q) = {}
         /\ q.pc \in {"save", "cancelStart", "start"} => IdsOf(q) = {q.row.id}
         /\ q.pc \in {"rereadCreated", "rereadUpdated", "delete", "cancel"} => IdsOf(q) = {q.id}
  BY RequestFields DEF IdsOf, Rows

(* The row of a collector that has one. *)
LEMMA RowWithIs ==
  ASSUME NEW i, HasRow(i)
  PROVE  RowWith(i) \in rows /\ RowWith(i).id = i
  BY DEF HasRow, RowWith

(* A request makes its next step, to q. *)
LEMMA GotoType ==
  ASSUME req \in [Clients -> Requests], NEW c \in Clients, NEW q \in Requests, Goto(c, q)
  PROVE  /\ req' \in [Clients -> Requests]
         /\ req'[c] = q
         /\ \A d \in Clients \ {c} : req'[d] = req[d]
  BY DEF Goto

-----------------------------------------------------------------------------
(* Types and uuids *)

(* A uuid is left for a request that inserts a row. *)
LEMMA NewIdIsNew ==
  ASSUME TypeOK, EnoughIds, NEW c \in Clients, At(c, "insert")
  PROVE  NewId \in Ids /\ NewId \notin used
<1>1. IsFiniteSet(used) /\ Cardinality(used) \in Nat
  BY CollectorsAssumption, FS_Subset, FS_CardinalityType DEF TypeOK
<1>2. Given \subseteq Clients \ {c}
  BY DEF Given, At
<1>3. IsFiniteSet(Clients \ {c}) /\ Cardinality(Clients \ {c}) = Cardinality(Clients) - 1
  BY CollectorsAssumption, FS_RemoveElement
<1>4. Cardinality(Given) <= Cardinality(Clients) - 1 /\ Cardinality(Given) \in Nat
  BY <1>2, <1>3, FS_Subset, FS_CardinalityType
<1>5. Cardinality(Clients) \in Nat /\ Cardinality(Ids) \in Nat
  BY CollectorsAssumption, FS_CardinalityType
<1>6. Cardinality(used) < Cardinality(Ids)
  BY <1>1, <1>4, <1>5, CollectorsAssumption DEF EnoughIds
<1>7. \E i \in Ids : i \notin used
  <2> SUFFICES ASSUME Ids \subseteq used PROVE FALSE
    OBVIOUS
  <2>1. used = Ids
    BY DEF TypeOK
  <2> QED
    BY <1>5, <1>6, <2>1
<1> QED
  BY <1>7 DEF NewId

LEMMA TypeStart ==
  ASSUME TypeOK, NEW c \in Clients, RequestStarts(c)
  PROVE  TypeOK'
<1> USE DEF TypeOK, tables, jobs
<1>1. ASSUME NEW d \in Devices, NEW g \in Configs, Create(c, d, g) PROVE TypeOK'
  <2>1. [pc |-> "insert", sn |-> d, config |-> g] \in Requests
    BY DEF Requests
  <2> QED
    BY <1>1, <2>1, GotoType DEF Create
<1>2. ASSUME NEW i \in Ids, NEW d \in Devices, NEW g \in Configs, Update(c, i, d, g) PROVE TypeOK'
  <2>1. [pc |-> "save", row |-> Row(i, d, g)] \in Requests
    BY DEF Requests, Row, Rows
  <2>2. req' \in [Clients -> Requests]
    BY <1>2, <2>1, GotoType DEF Update
  <2> QED
    BY <1>2, <2>2 DEF Update, Meets
<1>3. ASSUME NEW i \in Ids, Delete(c, i) PROVE TypeOK'
  <2>1. [pc |-> "delete", id |-> i] \in Requests
    BY DEF Requests
  <2>2. req' \in [Clients -> Requests]
    BY <1>3, <2>1, GotoType DEF Delete
  <2> QED
    BY <1>3, <2>2 DEF Delete, Meets
<1>4. ASSUME NEW i \in Ids, Invoke(c, i) PROVE TypeOK'
  <2>1. RowWith(i) \in Rows
    BY <1>4, RowWithIs DEF Invoke
  <2>2. [pc |-> "invoke", row |-> RowWith(i)] \in Requests
    BY <2>1 DEF Requests
  <2>3. req' \in [Clients -> Requests]
    BY <1>4, <2>2, GotoType DEF Invoke
  <2> QED
    BY <1>4, <2>3 DEF Invoke
<1>5. ASSUME NEW d \in Devices, DeleteDevice(c, d) PROVE TypeOK'
  <2>1. [pc |-> "deleteDevice", sn |-> d] \in Requests
    BY DEF Requests
  <2> QED
    BY <1>5, <2>1, GotoType DEF DeleteDevice
<1> QED
  BY <1>1, <1>2, <1>3, <1>4, <1>5 DEF RequestStarts

LEMMA TypeStep ==
  ASSUME TypeOK, EnoughIds, NEW c \in Clients, RequestStep(c)
  PROVE  TypeOK'
<1> USE DEF TypeOK, tables, jobs
<1>d. Done \in Requests
  BY DEF Requests
<1>q. req[c] \in Requests
  OBVIOUS
<1>1. CASE Insert(c)
  <2>1. NewId \in Ids /\ req[c].sn \in Devices /\ req[c].config \in Configs
    BY <1>1, <1>q, NewIdIsNew, RequestFields DEF Insert, At
  <2>2. /\ [pc |-> "rereadCreated", id |-> NewId] \in Requests
        /\ Row(NewId, req[c].sn, req[c].config) \in Rows
    BY <2>1 DEF Requests, Row, Rows
  <2>3. req' \in [Clients -> Requests]
    BY <1>1, <1>d, <2>2, GotoType DEF Insert
  <2> QED
    BY <1>1, <2>1, <2>2, <2>3 DEF Insert
<1>2. CASE RereadCreated(c)
  <2>1. HasRow(req[c].id) => [pc |-> "start", row |-> RowWith(req[c].id)] \in Requests
    BY RowWithIs DEF Requests
  <2>2. req' \in [Clients -> Requests]
    BY <1>2, <1>d, <2>1, GotoType DEF RereadCreated
  <2> QED
    BY <1>2, <2>2 DEF RereadCreated
<1>3. CASE Start(c)
  <2>1. req' \in [Clients -> Requests]
    BY <1>3, <1>d, GotoType DEF Start
  <2>2. sched' \in [Rows -> Nat]
    <3> DEFINE r == req[c].row
    <3>1. sched' = sched \/ sched' = [sched EXCEPT ![r] = @ + 1]
      BY <1>3 DEF Start
    <3>2. r \in Rows
      BY <1>3, <1>q, RequestFields DEF Start, At
    <3> HIDE DEF r
    <3> QED
      BY <3>1, <3>2
  <2> QED
    BY <1>3, <2>1, <2>2 DEF Start
<1>4. CASE Save(c)
  <2>1. req[c].row \in Rows
    BY <1>4, <1>q, RequestFields DEF Save, At
  <2>2. [pc |-> "rereadUpdated", id |-> req[c].row.id] \in Requests
    BY <2>1 DEF Requests, Rows
  <2>3. req' \in [Clients -> Requests]
    BY <1>4, <1>d, <2>2, GotoType DEF Save
  <2> QED
    BY <1>4, <2>1, <2>3 DEF Save
<1>5. CASE RereadUpdated(c)
  <2>1. HasRow(req[c].id) => [pc |-> "cancelStart", row |-> RowWith(req[c].id)] \in Requests
    BY RowWithIs DEF Requests
  <2>2. req' \in [Clients -> Requests]
    BY <1>5, <1>d, <2>1, GotoType DEF RereadUpdated
  <2> QED
    BY <1>5, <2>2 DEF RereadUpdated
<1>6. CASE CancelBeforeStart(c)
  <2>1. req[c].row \in Rows
    BY <1>6, <1>q, RequestFields DEF CancelBeforeStart, At
  <2>2. [pc |-> "start", row |-> req[c].row] \in Requests
    BY <2>1 DEF Requests
  <2>3. req' \in [Clients -> Requests]
    BY <1>6, <2>2, GotoType DEF CancelBeforeStart
  <2> QED
    BY <1>6, <2>3 DEF CancelBeforeStart, CancelByTag
<1>7. CASE DeleteRow(c)
  <2>1. req[c].id \in Ids
    BY <1>7, <1>q, RequestFields DEF DeleteRow, At
  <2>2. [pc |-> "cancel", id |-> req[c].id] \in Requests
    BY <2>1 DEF Requests
  <2>3. req' \in [Clients -> Requests]
    BY <1>7, <2>2, GotoType DEF DeleteRow
  <2> QED
    BY <1>7, <2>3 DEF DeleteRow
<1>8. CASE Cancel(c)
  <2>1. req' \in [Clients -> Requests]
    BY <1>8, <1>d, GotoType DEF Cancel
  <2> QED
    BY <1>8, <2>1 DEF Cancel, CancelByTag
<1>9. CASE EnqueueOnce(c)
  <2>1. req' \in [Clients -> Requests]
    BY <1>9, <1>d, GotoType DEF EnqueueOnce
  <2>2. once' \in [Rows -> Nat]
    <3> DEFINE r == req[c].row
    <3>1. once' = [once EXCEPT ![r] = @ + 1]
      BY <1>9 DEF EnqueueOnce
    <3>2. r \in Rows
      BY <1>9, <1>q, RequestFields DEF EnqueueOnce, At
    <3> HIDE DEF r
    <3> QED
      BY <3>1, <3>2
  <2> QED
    BY <1>9, <2>1, <2>2 DEF EnqueueOnce
<1>10. CASE DeleteDeviceRow(c)
  <2>1. req' \in [Clients -> Requests]
    BY <1>10, <1>d, GotoType DEF DeleteDeviceRow
  <2>2. disturbed' \subseteq Ids
    BY <1>10 DEF DeleteDeviceRow, Rows
  <2> QED
    BY <1>10, <2>1, <2>2 DEF DeleteDeviceRow
<1> QED
  BY <1>1, <1>2, <1>3, <1>4, <1>5, <1>6, <1>7, <1>8, <1>9, <1>10 DEF RequestStep

(* As long as no uuid is given, requests that go on leave enough of them. *)
LEMMA EnoughIfGoingOn ==
  ASSUME EnoughIds, used \subseteq Ids, UNCHANGED used, Given \subseteq Given'
  PROVE  EnoughIds'
<1>1. IsFiniteSet(used) /\ Cardinality(used) \in Nat
  BY CollectorsAssumption, FS_Subset, FS_CardinalityType
<1>2. IsFiniteSet(Given') /\ Cardinality(Given') \in Nat
  BY CollectorsAssumption, FS_Subset, FS_CardinalityType DEF Given
<1>3. Cardinality(Given) <= Cardinality(Given') /\ Cardinality(Given) \in Nat
  BY <1>2, FS_Subset, FS_CardinalityType
<1> QED
  BY <1>1, <1>2, <1>3 DEF EnoughIds

LEMMA EnoughIdsInsert ==
  ASSUME TypeOK, TypeOK', EnoughIds, NEW c \in Clients, Insert(c)
  PROVE  EnoughIds'
<1>1. CASE UNCHANGED used
  BY <1>1, EnoughIfGoingOn DEF TypeOK, Insert, At, Goto, Given, Done
<1>2. CASE used' = used \cup {NewId}
  <2>1. IsFiniteSet(used) /\ Cardinality(used) \in Nat
    BY CollectorsAssumption, FS_Subset, FS_CardinalityType DEF TypeOK
  <2>2. Cardinality(used') <= Cardinality(used) + 1 /\ Cardinality(used') \in Nat
    BY <1>2, <2>1, FS_AddElement, FS_CardinalityType
  <2>3. Given' = Given \cup {c} /\ c \notin Given
    BY DEF TypeOK, Insert, At, Goto, Given, Done
  <2>4. IsFiniteSet(Given) /\ Cardinality(Given) \in Nat
    BY CollectorsAssumption, FS_Subset, FS_CardinalityType DEF Given
  <2>5. Cardinality(Given') = Cardinality(Given) + 1
    BY <2>3, <2>4, FS_AddElement
  <2> QED
    BY <2>1, <2>2, <2>4, <2>5 DEF EnoughIds
<1> QED
  BY <1>1, <1>2 DEF Insert

LEMMA EnoughIdsNext ==
  ASSUME TypeOK, TypeOK', EnoughIds, [Next]_vars
  PROVE  EnoughIds'
<1> USE DEF TypeOK
<1>1. ASSUME NEW c \in Clients, RequestStarts(c) PROVE EnoughIds'
  <2>1. UNCHANGED used /\ Given \subseteq Given'
    BY <1>1 DEF RequestStarts, Create, Update, Delete, Invoke, DeleteDevice, Goto, Given, Fresh,
                tables
  <2> QED
    BY <2>1, EnoughIfGoingOn
<1>2. ASSUME NEW c \in Clients, RequestStep(c), ~Insert(c) PROVE EnoughIds'
  <2>1. UNCHANGED used /\ Given \subseteq Given'
    BY <1>2 DEF RequestStep, RereadCreated, Start, Save, RereadUpdated, CancelBeforeStart,
                DeleteRow, Cancel, EnqueueOnce, DeleteDeviceRow, Goto, Given, Done, tables
  <2> QED
    BY <2>1, EnoughIfGoingOn
<1>3. ASSUME NEW r \in Rows, RunOnce(r) PROVE EnoughIds'
  BY <1>3, EnoughIfGoingOn DEF RunOnce, tables, Given
<1>4. CASE Restart
  <2>1. UNCHANGED used /\ Given \subseteq Given'
    BY <1>4 DEF Restart, tables, Given, Fresh, Done
  <2> QED
    BY <2>1, EnoughIfGoingOn
<1>5. CASE UNCHANGED vars
  BY <1>5, EnoughIfGoingOn DEF vars, tables, Given
<1> QED
  BY <1>1, <1>2, <1>3, <1>4, <1>5, EnoughIdsInsert DEF Next

LEMMA TypeNext ==
  ASSUME TypeOK, EnoughIds, [Next]_vars
  PROVE  TypeOK'
<1>1. ASSUME NEW r \in Rows, RunOnce(r) PROVE TypeOK'
  BY <1>1 DEF TypeOK, RunOnce, tables
<1>2. CASE Restart
  <2>1. req' \in [Clients -> Requests]
    BY <1>2 DEF TypeOK, Restart, Requests
  <2> QED
    BY <1>2, <2>1 DEF TypeOK, Restart, tables, SchedulerOf, NoJobs
<1>3. CASE UNCHANGED vars
  BY <1>3 DEF TypeOK, vars, tables, jobs
<1> QED
  BY <1>1, <1>2, <1>3, TypeStart, TypeStep DEF Next

(* The requests of all clients. *)
LEMMA ClientIds ==
  ASSUME TypeOK, NEW c \in Clients
  PROVE  /\ IdsOf(req[c]) \subseteq Ids
         /\ req[c].pc \in {"new", "done", "deleteDevice", "insert", "invoke"} => IdsOf(req[c]) = {}
         /\ req[c].pc \in {"save", "cancelStart", "start"} => IdsOf(req[c]) = {req[c].row.id}
         /\ req[c].pc \in {"rereadCreated", "rereadUpdated", "delete", "cancel"}
              => IdsOf(req[c]) = {req[c].id}
         /\ req[c].pc \in {"save", "cancelStart", "start", "invoke"} => req[c].row \in Rows
  BY RequestIds, RequestFields DEF TypeOK

LEMMA UniqueIdsNext ==
  ASSUME TypeOK, EnoughIds, UniqueIds, OnlyUsed, [Next]_vars
  PROVE  UniqueIds'
<1> USE DEF UniqueIds
<1>1. ASSUME NEW c \in Clients, RequestStarts(c) PROVE UniqueIds'
  BY <1>1 DEF RequestStarts, Create, Update, Delete, Invoke, DeleteDevice, tables
<1>2. ASSUME NEW c \in Clients, Insert(c) PROVE UniqueIds'
  <2>1. NewId \notin used
    BY <1>2, NewIdIsNew DEF Insert
  <2> QED
    BY <1>2, <2>1 DEF Insert, Row, OnlyUsed
<1>3. ASSUME NEW c \in Clients, Save(c) PROVE UniqueIds'
  BY <1>3 DEF Save
<1>4. ASSUME NEW c \in Clients, RequestStep(c), ~Insert(c), ~Save(c) PROVE UniqueIds'
  BY <1>4 DEF RequestStep, RereadCreated, Start, RereadUpdated, CancelBeforeStart, DeleteRow,
              Cancel, EnqueueOnce, DeleteDeviceRow, tables
<1>5. ASSUME NEW r \in Rows, RunOnce(r) PROVE UniqueIds'
  BY <1>5 DEF RunOnce, tables
<1>6. CASE Restart
  BY <1>6 DEF Restart, tables
<1>7. CASE UNCHANGED vars
  BY <1>7 DEF vars, tables
<1> QED
  BY <1>1, <1>2, <1>3, <1>4, <1>5, <1>6, <1>7 DEF Next

LEMMA OnlyUsedNext ==
  ASSUME TypeOK, OnlyUsed, [Next]_vars
  PROVE  OnlyUsed'
<1> USE DEF OnlyUsed
<1>1. ASSUME NEW c \in Clients, RequestStarts(c) PROVE OnlyUsed'
  <2>1. UNCHANGED <<rows, used, sched, once>>
    BY <1>1 DEF RequestStarts, Create, Update, Delete, Invoke, DeleteDevice, tables, jobs
  <2>2. /\ IdsOf(req'[c]) \subseteq used
        /\ req'[c].pc = "invoke" => req'[c].row.id \in used
        /\ \A d \in Clients \ {c} : req'[d] = req[d]
    <3>1. ASSUME NEW i \in Ids, HasRow(i) PROVE i \in used /\ RowWith(i).id = i
      BY <3>1, RowWithIs DEF HasRow
    <3> QED
      BY <1>1, <3>1 DEF RequestStarts, Create, Update, Delete, Invoke, DeleteDevice, Goto, IdsOf, Row,
                        TypeOK
  <2> QED
    BY <2>1, <2>2 DEF At
<1>2. ASSUME NEW c \in Clients, RequestStep(c) PROVE OnlyUsed'
  <2>r. IdsOf(req[c]) \subseteq used /\ (req[c].pc = "invoke" => req[c].row.id \in used)
    BY DEF At
  <2>1. used \subseteq used' /\ \A r \in rows' : r.id \in used'
    BY <1>2, <2>r, ClientIds
       DEF RequestStep, Insert, RereadCreated, Start, Save, RereadUpdated, CancelBeforeStart,
           DeleteRow, Cancel, EnqueueOnce, DeleteDeviceRow, At, tables, Row
  <2>2. /\ IdsOf(req'[c]) \subseteq used'
        /\ req'[c].pc # "invoke"
        /\ \A d \in Clients \ {c} : req'[d] = req[d]
    <3> USE DEF At, Goto, IdsOf, Done, TypeOK
    <3>1. CASE Insert(c)
      BY <3>1 DEF Insert
    <3>2. CASE RereadCreated(c)
      BY <2>r, <3>2, RowWithIs DEF RereadCreated, tables
    <3>3. CASE Start(c)
      BY <3>3 DEF Start
    <3>4. CASE Save(c)
      BY <2>r, <3>4 DEF Save
    <3>5. CASE RereadUpdated(c)
      BY <2>r, <3>5, RowWithIs DEF RereadUpdated, tables
    <3>6. CASE CancelBeforeStart(c)
      BY <2>r, <3>6 DEF CancelBeforeStart, tables
    <3>7. CASE DeleteRow(c)
      BY <2>r, <3>7 DEF DeleteRow
    <3>8. CASE Cancel(c)
      BY <3>8 DEF Cancel
    <3>9. CASE EnqueueOnce(c)
      BY <3>9 DEF EnqueueOnce
    <3>10. CASE DeleteDeviceRow(c)
      BY <3>10 DEF DeleteDeviceRow
    <3> QED
      BY <1>2, <3>1, <3>2, <3>3, <3>4, <3>5, <3>6, <3>7, <3>8, <3>9, <3>10 DEF RequestStep
  <2>3. \A r \in Rows : sched'[r] > 0 \/ once'[r] > 0 => r.id \in used
    <3>1. CASE UNCHANGED jobs
      BY <3>1 DEF jobs
    <3>2. CASE Start(c)
      BY <3>2, <2>r, ClientIds DEF Start, At, TypeOK
    <3>3. CASE CancelBeforeStart(c) \/ Cancel(c)
      BY <3>3 DEF CancelBeforeStart, Cancel, CancelByTag
    <3>4. CASE EnqueueOnce(c)
      BY <3>4, <2>r, ClientIds DEF EnqueueOnce, At, TypeOK
    <3> QED
      BY <1>2, <3>1, <3>2, <3>3, <3>4
         DEF RequestStep, Insert, RereadCreated, Save, RereadUpdated, DeleteRow, DeleteDeviceRow
  <2> QED
    BY <2>1, <2>2, <2>3 DEF At
<1>3. ASSUME NEW r \in Rows, RunOnce(r) PROVE OnlyUsed'
  BY <1>3 DEF RunOnce, tables, At, TypeOK
<1>4. CASE Restart
  BY <1>4 DEF Restart, tables, At, IdsOf, Fresh, Done, SchedulerOf, NoJobs
<1>5. CASE UNCHANGED vars
  BY <1>5 DEF vars, tables, jobs, At
<1> QED
  BY <1>1, <1>2, <1>3, <1>4, <1>5 DEF Next

-----------------------------------------------------------------------------
(* Steps of a request *)

(* Of collector i, a step changes neither the row nor the schedule. *)
Untouched(i) ==
  \A r \in Rows : r.id = i => sched'[r] = sched[r] /\ (r \in rows' <=> r \in rows)

LEMMA UntouchedKeeps ==
  ASSUME TypeOK, TypeOK', NEW i, Untouched(i)
  PROVE  /\ HasRow(i)' <=> HasRow(i)
         /\ Settled(i) => Settled(i)'
         /\ \A q \in Requests : i \in IdsOf(q) /\ Progress(q, i) => Progress(q, i)'
<1>1. HasRow(i)' <=> HasRow(i)
  BY DEF Untouched, HasRow, TypeOK
<1>2. Settled(i) => Settled(i)'
  BY DEF Untouched, Settled, Startable
<1>3. Cleared(i) => Cleared(i)'
  BY DEF Untouched, Cleared
<1>4. Single(i) => Single(i)'
  BY DEF Untouched, Single
<1>5. ASSUME NEW q \in Requests, i \in IdsOf(q), q.pc \in {"start", "cancelStart"}, q.row \in rows
      PROVE  q.row \in rows'
  BY <1>5, RequestIds, RequestFields DEF Untouched
<1>6. ASSUME NEW q \in Requests, i \in IdsOf(q), Progress(q, i) PROVE Progress(q, i)'
  BY <1>1, <1>2, <1>3, <1>4, <1>5, <1>6 DEF Progress
<1> QED
  BY <1>1, <1>2, <1>6

(* A step of client c leaves the other requests where they are, and touches *)
(* no collector but its own and those it disturbs.                          *)
LEMMA StepTouchesOwn ==
  ASSUME TypeOK, TypeOK', NEW c \in Clients, RequestStarts(c) \/ RequestStep(c)
  PROVE  /\ \A d \in Clients \ {c} : req'[d] = req[d]
         /\ disturbed \subseteq disturbed' /\ overtaken \subseteq overtaken'
         /\ \A i \in Ids \ disturbed' :
              i \notin IdsOf(req[c]) /\ i \notin IdsOf(req'[c]) => Untouched(i)
<1>1. CASE RequestStarts(c)
  BY <1>1 DEF TypeOK, RequestStarts, Create, Update, Delete, Invoke, DeleteDevice, Goto, Meets, tables,
              jobs, Untouched
<1>2. ASSUME RequestStep(c)
      PROVE  /\ \A d \in Clients \ {c} : req'[d] = req[d]
             /\ disturbed \subseteq disturbed' /\ overtaken \subseteq overtaken'
  BY <1>2 DEF TypeOK, RequestStep, Insert, RereadCreated, Start, Save, RereadUpdated,
              CancelBeforeStart, DeleteRow, Cancel, EnqueueOnce, DeleteDeviceRow, Goto
<1>3. ASSUME RequestStep(c), NEW i \in Ids \ disturbed',
             i \notin IdsOf(req[c]), i \notin IdsOf(req'[c])
      PROVE  Untouched(i)
  <2>1. CASE Insert(c)
    BY <1>3, <2>1 DEF TypeOK, Insert, Goto, IdsOf, jobs, Untouched, Row
  <2>2. CASE Start(c)
    BY <1>3, <2>2, ClientIds DEF TypeOK, Start, At, tables, Untouched
  <2>3. CASE Save(c)
    BY <1>3, <2>3, ClientIds DEF Save, At, jobs, Untouched
  <2>4. CASE CancelBeforeStart(c) \/ Cancel(c)
    <3>1. PICK j : CancelByTag(j) /\ j # i /\ UNCHANGED tables
      BY <1>3, <2>4, ClientIds DEF CancelBeforeStart, Cancel, At
    <3> QED
      BY <3>1 DEF CancelByTag, tables, Untouched
  <2>5. CASE DeleteRow(c)
    BY <1>3, <2>5, ClientIds DEF DeleteRow, At, jobs, Untouched
  <2>6. CASE DeleteDeviceRow(c)
    BY <1>3, <2>6 DEF DeleteDeviceRow, jobs, Untouched
  <2>7. CASE RereadCreated(c) \/ RereadUpdated(c) \/ EnqueueOnce(c)
    BY <2>7 DEF RereadCreated, RereadUpdated, EnqueueOnce, tables, jobs, Untouched
  <2> QED
    BY <1>3, <2>1, <2>2, <2>3, <2>4, <2>5, <2>6, <2>7 DEF RequestStep
<1> QED
  BY <1>1, <1>2, <1>3

(* A collector a request turns to is new, or no request works on it, or it  *)
(* counts as disturbed; and invocations of it count as overtaken.           *)
LEMMA TurnsTo ==
  ASSUME TypeOK, EnoughIds, NEW c \in Clients, RequestStarts(c) \/ RequestStep(c),
         NEW i \in IdsOf(req'[c]), i \notin IdsOf(req[c])
  PROVE  \/ Insert(c) /\ i = NewId /\ i \notin used /\ UNCHANGED <<devices, jobs, overtaken, disturbed>>
         \/ /\ req[c] = Fresh
            /\ req'[c].pc \in {"save", "delete"}
            /\ UNCHANGED <<tables, jobs>>
            /\ Busy(i) => i \in disturbed'
            /\ Invoking(i) => i \in overtaken'
<1>1. CASE RequestStarts(c)
  <2>1. ASSUME NEW j \in Ids, NEW d \in Devices, NEW g \in Configs, Update(c, j, d, g)
        PROVE  req'[c].pc = "save" /\ i = j
    BY <2>1 DEF TypeOK, Update, Goto, IdsOf, Row
  <2>2. ASSUME NEW j \in Ids, Delete(c, j) PROVE req'[c].pc = "delete" /\ i = j
    BY <2>2 DEF TypeOK, Delete, Goto, IdsOf
  <2>3. ASSUME NEW j \in Ids, Invoke(c, j) PROVE FALSE
    BY <2>3 DEF TypeOK, Invoke, Goto, IdsOf
  <2>4. ASSUME NEW d \in Devices, NEW g \in Configs, Create(c, d, g) PROVE FALSE
    BY <2>4 DEF TypeOK, Create, Goto, IdsOf
  <2>5. ASSUME NEW d \in Devices, DeleteDevice(c, d) PROVE FALSE
    BY <2>5 DEF TypeOK, DeleteDevice, Goto, IdsOf
  <2> QED
    BY <1>1, <2>1, <2>2, <2>3, <2>4, <2>5 DEF RequestStarts, Update, Delete, Meets
<1>2. CASE Insert(c)
  BY <1>2, NewIdIsNew DEF TypeOK, Insert, Goto, IdsOf, Done
<1>3. ASSUME RequestStep(c), ~Insert(c) PROVE FALSE
  BY <1>3, RowWithIs DEF TypeOK, RequestStep, RereadCreated, Start, Save, RereadUpdated,
     CancelBeforeStart, DeleteRow, Cancel, EnqueueOnce, DeleteDeviceRow, At, Goto, IdsOf, Done
<1> QED
  BY <1>1, <1>2, <1>3

-----------------------------------------------------------------------------
(* Requests follow one another *)

LEMMA AloneStep ==
  ASSUME TypeOK, TypeOK', EnoughIds, OnlyUsed, Alone,
         NEW c \in Clients, RequestStarts(c) \/ RequestStep(c)
  PROVE  Alone'
<1> SUFFICES ASSUME NEW i \in Ids \ disturbed', NEW d \in Clients \ {c},
                    i \in IdsOf(req'[c]), i \in IdsOf(req[d])
             PROVE  FALSE
  BY StepTouchesOwn DEF Alone
<1>1. i \notin disturbed
  BY StepTouchesOwn
<1>2. CASE i \in IdsOf(req[c])
  BY <1>1, <1>2 DEF Alone
<1>3. CASE i \notin IdsOf(req[c])
  <2>1. i \in used /\ Busy(i)
    BY DEF OnlyUsed, Busy
  <2> QED
    BY <1>3, <2>1, TurnsTo
<1> QED
  BY <1>2, <1>3

(* A step of a request leaves the scheduler of its collector as the next    *)
(* step expects it, and as the table says after the last one.               *)
LEMMA OwnStart ==
  ASSUME TypeOK, TypeOK', Followed, NEW c \in Clients, RequestStarts(c),
         NEW i \in Ids \ disturbed', i \in IdsOf(req[c]) \/ i \in IdsOf(req'[c])
  PROVE  i \in IdsOf(req'[c]) /\ Progress(req[c], i)'
<1>1. req[c] = Fresh /\ i \notin IdsOf(req[c])
  <2>1. req[c] = Fresh
    BY DEF RequestStarts, Create, Update, Delete, Invoke, DeleteDevice
  <2> QED
    BY <2>1 DEF Fresh, IdsOf
<1>2. UNCHANGED jobs /\ UNCHANGED rows /\ ~Busy(i) /\ req'[c].pc \in {"save", "delete"}
  <2>1. ASSUME NEW j \in Ids, NEW d \in Devices, NEW g \in Configs, Update(c, j, d, g)
        PROVE  i = j /\ req'[c].pc = "save"
    BY <1>1, <2>1 DEF TypeOK, Update, Goto, IdsOf, Row
  <2>2. ASSUME NEW j \in Ids, Delete(c, j) PROVE i = j /\ req'[c].pc = "delete"
    BY <1>1, <2>2 DEF TypeOK, Delete, Goto, IdsOf
  <2>3. ASSUME NEW j \in Ids, Invoke(c, j) PROVE FALSE
    BY <1>1, <2>3 DEF TypeOK, Invoke, Goto, IdsOf
  <2>4. ASSUME NEW d \in Devices, NEW g \in Configs, Create(c, d, g) PROVE FALSE
    BY <1>1, <2>4 DEF TypeOK, Create, Goto, IdsOf
  <2>5. ASSUME NEW d \in Devices, DeleteDevice(c, d) PROVE FALSE
    BY <1>1, <2>5 DEF TypeOK, DeleteDevice, Goto, IdsOf
  <2> QED
    BY <2>1, <2>2, <2>3, <2>4, <2>5 DEF RequestStarts, Update, Delete, Meets, tables
<1>3. Settled(i)
  BY <1>2, StepTouchesOwn DEF Followed
<1>4. Settled(i)'
  BY <1>2, <1>3 DEF Settled, jobs, Startable
<1> QED
  BY <1>1, <1>2, <1>4 DEF Progress

LEMMA OwnStep ==
  ASSUME TypeOK, TypeOK', EnoughIds, UniqueIds, UniqueIds', OnlyUsed, Followed,
         NEW c \in Clients, RequestStep(c),
         NEW i \in Ids \ disturbed', i \in IdsOf(req[c]) \/ i \in IdsOf(req'[c])
  PROVE  IF i \in IdsOf(req'[c]) THEN Progress(req[c], i)' ELSE Settled(i)'
<1>p. i \in IdsOf(req[c]) => Progress(req[c], i)
  BY StepTouchesOwn DEF Followed
<1> USE DEF TypeOK
<1>1. CASE Insert(c)
  <2>1. i = NewId /\ i \notin used /\ req'[c] = [pc |-> "rereadCreated", id |-> i]
    BY <1>1, NewIdIsNew DEF Insert, At, Goto, IdsOf, Done
  <2>2. Cleared(i)'
    BY <1>1, <2>1 DEF Cleared, OnlyUsed, Insert, jobs
  <2>3. HasRow(i)'
    <3>1. Row(i, req[c].sn, req[c].config) \in rows'
      BY <1>1, <2>1 DEF Insert, Goto, Done
    <3> QED
      BY <3>1 DEF HasRow, Row
  <2> QED
    BY <2>1, <2>2, <2>3 DEF Progress, IdsOf
<1>2. CASE RereadCreated(c)
  <2>1. req[c].pc = "rereadCreated" /\ IdsOf(req[c]) = {req[c].id}
    BY <1>2, ClientIds DEF RereadCreated, At
  <2>2. i = req[c].id /\ Cleared(i) /\ HasRow(i)
    BY <1>2, <1>p, <2>1, RowWithIs DEF RereadCreated, Goto, IdsOf, Progress, Done
  <2>3. req'[c] = [pc |-> "start", row |-> RowWith(i)] /\ RowWith(i) \in rows' /\ RowWith(i).id = i
    BY <1>2, <2>2, RowWithIs DEF RereadCreated, Goto, tables
  <2>4. Cleared(i)'
    BY <1>2, <2>2 DEF RereadCreated, Cleared, jobs
  <2> QED
    BY <2>3, <2>4 DEF Progress, IdsOf
<1>3. CASE Start(c)
  <2> DEFINE r == req[c].row
  <2>1. r \in Rows /\ r.id = i /\ Cleared(i) /\ r \in rows /\ IdsOf(req'[c]) = {}
    BY <1>3, <1>p, ClientIds DEF Start, At, Progress, Goto, IdsOf, Done
  <2>2. \A s \in Rows : s.id = i =>
          sched'[s] = IF s = r /\ Startable(r) THEN 1 ELSE 0
    <3>1. sched[r] = 0 /\ \A s \in Rows : s.id = i => sched[s] = 0
      BY <2>1 DEF Cleared
    <3>2. sched' = IF Startable(r) THEN [sched EXCEPT ![r] = @ + 1] ELSE sched
      BY <1>3 DEF Start
    <3> HIDE DEF r
    <3> QED
      BY <2>1, <3>1, <3>2
  <2>3. \A s \in rows : s.id = i => s = r
    BY <2>1 DEF UniqueIds
  <2>4. rows' = rows
    BY <1>3 DEF Start, tables
  <2> HIDE DEF r
  <2>5. Settled(i)'
    BY <2>1, <2>2, <2>3, <2>4 DEF Settled, Startable
  <2> QED
    BY <2>1, <2>5
<1>4. CASE Save(c)
  <2> DEFINE r == req[c].row
  <2>1. r \in Rows /\ r.id = i /\ Settled(i)
    BY <1>4, <1>p, ClientIds DEF Save, At, Progress, Goto, IdsOf, Done
  <2>2. CASE r.sn \in devices
    <3>1. req'[c] = [pc |-> "rereadUpdated", id |-> i] /\ HasRow(i)'
      BY <1>4, <2>1, <2>2 DEF Save, Goto, HasRow
    <3>2. Single(i)'
      BY <1>4, <2>1 DEF Save, Single, Settled, UniqueIds, jobs
    <3> QED
      BY <3>1, <3>2 DEF Progress, IdsOf
  <2>3. CASE r.sn \notin devices
    BY <1>4, <2>1, <2>3 DEF Save, Goto, IdsOf, Done, Settled, Startable, jobs
  <2> QED
    BY <2>2, <2>3
<1>5. CASE RereadUpdated(c)
  <2>1. req[c].pc = "rereadUpdated" /\ IdsOf(req[c]) = {req[c].id}
    BY <1>5, ClientIds DEF RereadUpdated, At
  <2>2. i = req[c].id /\ Single(i) /\ HasRow(i)
    BY <1>5, <1>p, <2>1, RowWithIs DEF RereadUpdated, Goto, IdsOf, Progress, Done
  <2>3. /\ req'[c] = [pc |-> "cancelStart", row |-> RowWith(i)]
        /\ RowWith(i) \in rows' /\ RowWith(i).id = i
    BY <1>5, <2>2, RowWithIs DEF RereadUpdated, Goto, tables
  <2>4. Single(i)'
    BY <1>5, <2>2 DEF RereadUpdated, Single, jobs
  <2> QED
    BY <2>3, <2>4 DEF Progress, IdsOf
<1>6. CASE CancelBeforeStart(c)
  <2> DEFINE r == req[c].row
  <2>1. r \in Rows /\ r.id = i /\ r \in rows' /\ req'[c] = [pc |-> "start", row |-> r]
    BY <1>6, <1>p, ClientIds DEF CancelBeforeStart, At, Progress, Goto, IdsOf, tables
  <2>2. Cleared(i)'
    BY <1>6, <2>1 DEF CancelBeforeStart, CancelByTag, Cleared
  <2> HIDE DEF r
  <2> QED
    BY <2>1, <2>2 DEF Progress, IdsOf
<1>7. CASE DeleteRow(c)
  <2>1. i = req[c].id /\ Settled(i) /\ req'[c] = [pc |-> "cancel", id |-> i]
    BY <1>7, <1>p, ClientIds DEF DeleteRow, At, Progress, Goto, IdsOf
  <2>2. ~HasRow(i)'
    BY <1>7, <2>1 DEF DeleteRow, HasRow
  <2>3. Single(i)'
    BY <1>7, <2>1 DEF DeleteRow, Single, Settled, UniqueIds, jobs
  <2> QED
    BY <2>1, <2>2, <2>3 DEF Progress, IdsOf
<1>8. CASE Cancel(c)
  <2>1. i = req[c].id /\ ~HasRow(i) /\ IdsOf(req'[c]) = {}
    BY <1>8, <1>p, ClientIds DEF Cancel, At, Progress, Goto, IdsOf, Done
  <2>2. Settled(i)'
    BY <1>8, <2>1 DEF Cancel, CancelByTag, Settled, HasRow, tables
  <2> QED
    BY <2>1, <2>2
<1>9. CASE EnqueueOnce(c) \/ DeleteDeviceRow(c)
  BY <1>9 DEF EnqueueOnce, DeleteDeviceRow, At, Goto, IdsOf, Done
<1> QED
  BY <1>1, <1>2, <1>3, <1>4, <1>5, <1>6, <1>7, <1>8, <1>9 DEF RequestStep

LEMMA FollowedStep ==
  ASSUME TypeOK, TypeOK', EnoughIds, UniqueIds, UniqueIds', OnlyUsed, Alone, Alone', Followed,
         NEW c \in Clients, RequestStarts(c) \/ RequestStep(c)
  PROVE  Followed'
<1> SUFFICES ASSUME NEW i \in Ids \ disturbed'
             PROVE  /\ \A d \in Clients : i \in IdsOf(req'[d]) => Progress(req[d], i)'
                    /\ ~Busy(i)' => Settled(i)'
  BY DEF Followed
<1>1. i \notin disturbed
  BY StepTouchesOwn
<1>2. CASE i \notin IdsOf(req[c]) /\ i \notin IdsOf(req'[c])
  <2>1. Untouched(i)
    BY <1>2, StepTouchesOwn
  <2>2. ASSUME NEW d \in Clients, i \in IdsOf(req'[d]) PROVE Progress(req[d], i)'
    <3>1. d # c /\ req'[d] = req[d] /\ req[d] \in Requests
      BY <1>2, <2>2, StepTouchesOwn DEF TypeOK
    <3>2. Progress(req[d], i)
      BY <1>1, <2>2, <3>1 DEF Followed
    <3> QED
      BY <2>1, <2>2, <3>1, <3>2, UntouchedKeeps
  <2>3. Busy(i)' <=> Busy(i)
    BY <1>2, StepTouchesOwn DEF Busy
  <2> QED
    BY <1>1, <2>1, <2>2, <2>3, UntouchedKeeps DEF Followed
<1>3. CASE i \in IdsOf(req[c]) \/ i \in IdsOf(req'[c])
  <2>1. IF i \in IdsOf(req'[c]) THEN Progress(req[c], i)' ELSE Settled(i)'
    BY <1>3, OwnStart, OwnStep
  <2>2. ASSUME NEW d \in Clients, i \in IdsOf(req'[d]), d # c PROVE FALSE
    BY <1>1, <1>3, <2>2, StepTouchesOwn DEF Alone
  <2> QED
    BY <2>1, <2>2 DEF Busy
<1> QED
  BY <1>2, <1>3

(* Between requests, a restart starts what the table holds. *)
LEMMA FollowedNext ==
  ASSUME TypeOK, TypeOK', EnoughIds, UniqueIds, UniqueIds', OnlyUsed, Alone, Followed, [Next]_vars
  PROVE  Alone' /\ Followed'
<1>1. ASSUME NEW c \in Clients, RequestStarts(c) \/ RequestStep(c) PROVE Alone' /\ Followed'
  BY <1>1, AloneStep, FollowedStep
<1>2. ASSUME NEW r \in Rows, RunOnce(r) PROVE Alone' /\ Followed'
  <2>1. UNCHANGED <<rows, req, sched, disturbed>>
    BY <1>2 DEF RunOnce, tables
  <2> QED
    BY <2>1 DEF Alone, Followed, Progress, Settled, Cleared, Single, HasRow, Busy
<1>3. CASE Restart
  <2>1. \A c \in Clients : IdsOf(req'[c]) = {}
    BY <1>3 DEF Restart, IdsOf, Fresh, Done
  <2>2. \A i : Settled(i)'
    BY <1>3 DEF Restart, SchedulerOf, Settled, Startable, tables
  <2> QED
    BY <2>1, <2>2 DEF Alone, Followed
<1>4. CASE UNCHANGED vars
  BY <1>4 DEF vars, tables, jobs, Alone, Followed, Progress, Settled, Cleared, Single, HasRow, Busy
<1> QED
  BY <1>1, <1>2, <1>3, <1>4 DEF Next

-----------------------------------------------------------------------------
(* Invocations *)

LEMMA InvokedAloneStep ==
  ASSUME TypeOK, TypeOK', EnoughIds, OnlyUsed, InvokedAlone,
         NEW c \in Clients, RequestStarts(c) \/ RequestStep(c)
  PROVE  InvokedAlone'
<1> SUFFICES ASSUME NEW d \in Clients, NEW r \in Rows,
                    req'[d].pc = "invoke", req'[d].row = r, r.id \in Intact'
             PROVE  ~Busy(r.id)' /\ r \in rows'
  BY RequestFields DEF TypeOK, InvokedAlone, At
<1> DEFINE i == r.id
<1>r. i \in Ids \ disturbed' /\ i \notin overtaken'
  BY DEF Intact
<1>1. CASE d = c
  <2>1. PICK j \in Ids : Invoke(c, j)
    BY <1>1 DEF TypeOK, RequestStarts, Create, Update, Delete, DeleteDevice,
                RequestStep, Insert, RereadCreated, Start, Save, RereadUpdated, CancelBeforeStart,
                DeleteRow, Cancel, EnqueueOnce, DeleteDeviceRow, Goto, Done
  <2>2. i = j /\ r \in rows' /\ ~Busy(j)
    BY <1>1, <1>r, <2>1, RowWithIs DEF TypeOK, Invoke, Goto, tables
  <2>3. ~Busy(i)'
    BY <2>1, <2>2 DEF TypeOK, Invoke, Goto, Busy, IdsOf
  <2> QED
    BY <2>2, <2>3
<1>2. CASE d # c
  <2>1. r = req[d].row /\ req[d].pc = "invoke" /\ i \in used
    BY <1>2, StepTouchesOwn DEF OnlyUsed, At
  <2>2. ~Busy(i) /\ r \in rows
    BY <1>r, <2>1, StepTouchesOwn DEF InvokedAlone, Intact, At
  <2>3. i \notin IdsOf(req[c]) /\ Invoking(i)
    BY <2>1, <2>2 DEF Busy, Invoking
  <2>4. i \notin IdsOf(req'[c])
    BY <1>r, <2>1, <2>3, TurnsTo
  <2>5. ~Busy(i)'
    BY <2>2, <2>4, StepTouchesOwn DEF Busy
  <2>6. r \in rows'
    BY <1>r, <2>2, <2>3, <2>4, StepTouchesOwn DEF Untouched
  <2> QED
    BY <2>5, <2>6
<1> QED
  BY <1>1, <1>2

(* Whoever has changed the table is still on the way to the cancellation. *)
LEMMA OnceCurrentStep ==
  ASSUME TypeOK, TypeOK', Followed, InvokedAlone, OnceCurrent,
         NEW c \in Clients, RequestStarts(c) \/ RequestStep(c)
  PROVE  OnceCurrent'
<1> SUFFICES ASSUME NEW r \in Rows, once'[r] > 0, r.id \in Intact'
             PROVE  r \in rows' \/ Changed(r.id)'
  BY DEF OnceCurrent
<1> DEFINE i == r.id
<1>r. i \in Ids \ disturbed' /\ i \in Intact
  BY StepTouchesOwn DEF Intact
<1>1. CASE EnqueueOnce(c) /\ r = req[c].row
  BY <1>1, <1>r DEF EnqueueOnce, InvokedAlone, tables
<1>2. CASE CancelBeforeStart(c) /\ i = req[c].row.id
  BY <1>2 DEF CancelBeforeStart, CancelByTag
<1>3. CASE Cancel(c) /\ i = req[c].id
  BY <1>3 DEF Cancel, CancelByTag
<1>4. CASE Save(c) /\ i = req[c].row.id /\ req[c].row.sn \in devices
  <2>1. i \in IdsOf(req'[c]) /\ req'[c].pc = "rereadUpdated"
    BY <1>4 DEF TypeOK, Save, Goto, IdsOf
  <2> QED
    BY <2>1 DEF Changed
<1>5. CASE DeleteRow(c) /\ i = req[c].id
  <2>1. i \in IdsOf(req'[c]) /\ req'[c].pc = "cancel"
    BY <1>5 DEF TypeOK, DeleteRow, Goto, IdsOf
  <2> QED
    BY <2>1 DEF Changed
<1>6. CASE ~(\/ EnqueueOnce(c) /\ r = req[c].row
             \/ CancelBeforeStart(c) /\ i = req[c].row.id
             \/ Cancel(c) /\ i = req[c].id
             \/ Save(c) /\ i = req[c].row.id /\ req[c].row.sn \in devices
             \/ DeleteRow(c) /\ i = req[c].id)
  <2>1. once[r] > 0
    <3>1. CASE UNCHANGED once
      BY <3>1
    <3>2. CASE CancelBeforeStart(c) \/ Cancel(c)
      BY <1>6, <3>2 DEF CancelBeforeStart, Cancel, CancelByTag
    <3>3. CASE EnqueueOnce(c)
      BY <1>6, <3>3 DEF TypeOK, EnqueueOnce
    <3> QED
      BY <3>1, <3>2, <3>3
         DEF RequestStarts, Create, Update, Delete, Invoke, DeleteDevice, RequestStep, Insert,
             RereadCreated, Start, Save, RereadUpdated, DeleteRow, DeleteDeviceRow, jobs
  <2>2. r \in rows => r \in rows'
    BY <1>r, <1>6 DEF RequestStarts, Create, Update, Delete, Invoke, DeleteDevice, RequestStep, Insert,
             RereadCreated, Start, Save, RereadUpdated, CancelBeforeStart, DeleteRow, Cancel,
             EnqueueOnce, DeleteDeviceRow, tables
  <2>3. Changed(i) => Changed(i)'
    <3> SUFFICES ASSUME Changed(i) PROVE Changed(i)'
      OBVIOUS
    <3>1. PICK d \in Clients : /\ req[d].pc \in {"rereadUpdated", "cancelStart", "cancel"}
                               /\ i \in IdsOf(req[d])
      BY DEF Changed
    <3>2. CASE d # c
      BY <3>1, <3>2, StepTouchesOwn DEF Changed
    <3>3. CASE d = c
      <4>1. RereadUpdated(c) /\ i = req[c].id
        <5>1. ~RequestStarts(c)
          <6>1. req[c] # Fresh
            BY <3>1, <3>3 DEF Fresh
          <6> QED
            BY <6>1 DEF RequestStarts, Create, Update, Delete, Invoke, DeleteDevice
        <5>2. RereadUpdated(c) \/ CancelBeforeStart(c) \/ Cancel(c)
          BY <3>1, <3>3, <5>1
             DEF RequestStep, Insert, RereadCreated, Start, Save, DeleteRow, EnqueueOnce,
                 DeleteDeviceRow, At
        <5>3. /\ CancelBeforeStart(c) => i = req[c].row.id
              /\ RereadUpdated(c) \/ Cancel(c) => i = req[c].id
          BY <3>1, <3>3, ClientIds DEF RereadUpdated, CancelBeforeStart, Cancel, At
        <5> QED
          BY <1>6, <5>2, <5>3
      <4>2. HasRow(i)
        BY <1>r, <3>1, <3>3, <4>1, StepTouchesOwn DEF Followed, Progress, RereadUpdated, At
      <4>3. req'[c] = [pc |-> "cancelStart", row |-> RowWith(i)] /\ RowWith(i).id = i
        BY <4>1, <4>2, RowWithIs DEF TypeOK, RereadUpdated, Goto
      <4> QED
        BY <4>3 DEF Changed, IdsOf
    <3> QED
      BY <3>2, <3>3
  <2> QED
    BY <1>r, <2>1, <2>2, <2>3 DEF OnceCurrent
<1> QED
  BY <1>1, <1>2, <1>3, <1>4, <1>5, <1>6

LEMMA InvocationsNext ==
  ASSUME TypeOK, TypeOK', EnoughIds, OnlyUsed, Followed, InvokedAlone, OnceCurrent, [Next]_vars
  PROVE  InvokedAlone' /\ OnceCurrent'
<1>1. ASSUME NEW c \in Clients, RequestStarts(c) \/ RequestStep(c)
      PROVE  InvokedAlone' /\ OnceCurrent'
  BY <1>1, InvokedAloneStep, OnceCurrentStep
<1>2. ASSUME NEW r \in Rows, RunOnce(r) PROVE InvokedAlone' /\ OnceCurrent'
  <2>1. UNCHANGED <<rows, req, disturbed, overtaken>> /\ \A s \in Rows : once'[s] > 0 => once[s] > 0
    BY <1>2 DEF TypeOK, RunOnce, tables
  <2> QED
    BY <2>1 DEF InvokedAlone, OnceCurrent, Intact, Busy, Changed, At
<1>3. CASE Restart
  BY <1>3 DEF Restart, NoJobs, InvokedAlone, OnceCurrent, At, Fresh, Done
<1>4. CASE UNCHANGED vars
  BY <1>4 DEF vars, tables, jobs, InvokedAlone, OnceCurrent, Intact, Busy, Changed, At
<1> QED
  BY <1>1, <1>2, <1>3, <1>4 DEF Next

-----------------------------------------------------------------------------
(* The inductive invariant *)

LEMMA InvInit == Init => Inv
<1> SUFFICES ASSUME Init PROVE Inv
  OBVIOUS
<1>1. Ids # {} /\ (CHOOSE i \in Ids : TRUE) \in Ids
  <2>1. Cardinality(Ids) # 0
    BY CollectorsAssumption, FS_CardinalityType
  <2> QED
    BY <2>1, FS_EmptySet
<1>2. rows \subseteq Rows
  BY <1>1 DEF Init, Row, Rows
<1>3. TypeOK
  BY <1>2 DEF Init, TypeOK, Requests, SchedulerOf, NoJobs, Rows
<1>4. UniqueIds
  BY DEF Init, UniqueIds
<1>5. OnlyUsed
  BY DEF Init, OnlyUsed, IdsOf, Fresh, At, SchedulerOf, NoJobs
<1>6. EnoughIds
  <2>1. Given = {}
    BY DEF Init, Given, Fresh
  <2>2. Cardinality({}) = 0 /\ \A i : Cardinality({i}) = 1
    BY FS_EmptySet, FS_Singleton
  <2>3. used = {} \/ \E i : used = {i}
    <3>1. rows = {} \/ \E r : rows = {r}
      BY DEF Init
    <3>2. used = {r.id : r \in rows}
      BY DEF Init
    <3> QED
      BY <3>1, <3>2
  <2>4. Cardinality(used) \in {0, 1}
    BY <2>2, <2>3
  <2> QED
    BY <2>1, <2>2, <2>4 DEF EnoughIds
<1>7. Alone /\ InvokedAlone /\ OnceCurrent
  BY DEF Init, Alone, InvokedAlone, OnceCurrent, IdsOf, Fresh, At, NoJobs
<1>8. Followed
  BY DEF Init, Followed, IdsOf, Fresh, Settled, SchedulerOf, Startable
<1> QED
  BY <1>3, <1>4, <1>5, <1>6, <1>7, <1>8 DEF Inv

LEMMA InvNext == Inv /\ [Next]_vars => Inv'
<1> SUFFICES ASSUME Inv, [Next]_vars PROVE Inv'
  OBVIOUS
<1>1. TypeOK' /\ UniqueIds' /\ OnlyUsed'
  BY TypeNext, UniqueIdsNext, OnlyUsedNext DEF Inv
<1>2. EnoughIds'
  BY <1>1, EnoughIdsNext DEF Inv
<1>3. Alone' /\ Followed'
  BY <1>1, FollowedNext DEF Inv
<1>4. InvokedAlone' /\ OnceCurrent'
  BY <1>1, InvocationsNext DEF Inv
<1> QED
  BY <1>1, <1>2, <1>3, <1>4 DEF Inv

LEMMA InvHolds == Spec => []Inv
  BY InvInit, InvNext, PTL DEF Spec

(* Type correctness of the collectors' tables, requests and jobs.           *)
THEOREM TypeCorrect == Spec => []TypeOK
<1>1. Inv => TypeOK
  BY DEF Inv
<1> QED
  BY <1>1, InvHolds, PTL

(* For every number of clients, collectors, devices and crashes: between    *)
(* the requests on a collector whose requests never overlapped, the         *)
(* scheduler runs exactly the persisted row (collector.go:139-151, 196-209, *)
(* 222-226).                                                                *)
THEOREM ScheduledAsPersistedHolds == Spec => []ScheduledAsPersisted
<1>1. Inv => ScheduledAsPersisted
  BY DEF Inv, Followed, Settled, ScheduledAsPersisted, Rows
<1> QED
  BY <1>1, InvHolds, PTL

(* At no step of a request does such a collector run twice: an update       *)
(* cancels before it starts (collector.go:200-204).                         *)
THEOREM NeverTwiceHolds == Spec => []NeverTwice
<1>1. Inv => NeverTwice
  <2> SUFFICES ASSUME Inv, NEW i \in Ids \ disturbed PROVE Single(i)
    BY DEF NeverTwice, Single
  <2>1. Settled(i) => Single(i)
    BY DEF Inv, UniqueIds, Settled, Single
  <2>2. Cleared(i) => Single(i)
    BY DEF Cleared, Single
  <2>3. CASE ~Busy(i)
    BY <2>1, <2>3 DEF Inv, Followed
  <2>4. CASE Busy(i)
    <3>1. PICK c \in Clients : i \in IdsOf(req[c]) /\ Progress(req[c], i)
      BY <2>4 DEF Busy, Inv, Followed
    <3>2. req[c].pc \in {"save", "delete", "rereadCreated", "start", "rereadUpdated", "cancelStart",
                         "cancel"}
      BY <3>1 DEF IdsOf
    <3> QED
      BY <2>1, <2>2, <3>1, <3>2 DEF Progress
  <2> QED
    BY <2>3, <2>4
<1> QED
  BY <1>1, InvHolds, PTL

(* An invocation that overlapped no change runs the persisted row: every    *)
(* change cancels it with the schedule (collector.go:200, 222, 246).        *)
THEOREM InvokedAsPersistedHolds == Spec => []InvokedAsPersisted
<1>1. Inv => InvokedAsPersisted
  BY DEF Inv, OnceCurrent, Intact, Changed, Busy, InvokedAsPersisted, Rows
<1> QED
  BY <1>1, InvHolds, PTL
=============================================================================
