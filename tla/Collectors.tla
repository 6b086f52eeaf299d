------------------------------ MODULE Collectors ------------------------------
(***************************************************************************)
(* Collectors (internal/server/service/collector.go): the rows of table    *)
(* collectors, and the jobs of the scheduler (task.go) that carry a copy   *)
(* of a row and run it periodically, or once when it is invoked.  All jobs *)
(* of a collector bear the same tag, COLLECTOR-<id>, by which they are     *)
(* cancelled.                                                              *)
(*                                                                         *)
(* A request is a goroutine; each of its statements on the database and    *)
(* each of its calls to the scheduler is a step.  Each client issues one   *)
(* request.  A run of a job works on its copy of the row and shares        *)
(* nothing of this module; what it asks EcoFlow for is in History, what it *)
(* writes in Metrics.                                                      *)
(***************************************************************************)
EXTENDS Naturals, FiniteSets

CONSTANTS Clients,      \* one request each
          Ids,          \* the uuids of collectors
          Devices,      \* serial numbers
          Configs,      \* what is configured, see below
          MaxRestarts   \* bound: crashes of the process

(* "parameters": device parameters; "daily", "weekly": historical data of   *)
(* the past day or week; "never": historical data at frequency 0.           *)
ASSUME CollectorsAssumption ==
  /\ Configs \subseteq {"parameters", "daily", "weekly", "never"}
  /\ IsFiniteSet(Ids) /\ IsFiniteSet(Clients)
  /\ Cardinality(Ids) > Cardinality(Clients)
  /\ MaxRestarts \in Nat

VARIABLES
  devices,   \* table devices: serial numbers
  rows,      \* table collectors: its rows
  used,      \* uuids given out so far
  req,       \* req[c]: where the request of client c is
  sched,     \* sched[r]: periodic jobs that carry the copy r of a row
  once,      \* once[r]: one-time jobs that carry r and have not run
  restarts,  \* crashes so far
  disturbed, \* history: collectors whose requests overlapped, or whose
             \* device was deleted, since the process started
  overtaken  \* history: collectors with an invocation that overlapped
             \* another request, since the process started

tables == <<devices, rows, used>>
jobs   == <<sched, once>>
vars   == <<tables, req, jobs, restarts, disturbed, overtaken>>

-----------------------------------------------------------------------------
Rows == [id : Ids, sn : Devices, config : Configs]

Row(i, d, g) == [id |-> i, sn |-> d, config |-> g]

HasRow(i)  == \E r \in rows : r.id = i
RowWith(i) == CHOOSE r \in rows : r.id = i
NewId      == CHOOSE i \in Ids : i \notin used

Fresh == [pc |-> "new"]
Done  == [pc |-> "done"]

Requests ==
  {Fresh, Done}
    \cup [pc : {"deleteDevice"}, sn : Devices]
    \cup [pc : {"insert"}, sn : Devices, config : Configs]
    \cup [pc : {"save"}, row : Rows]
    \cup [pc : {"rereadCreated", "rereadUpdated", "delete", "cancel"}, id : Ids]
    \cup [pc : {"cancelStart", "start", "invoke"}, row : Rows]

TypeOK ==
  /\ devices \subseteq Devices
  /\ rows \subseteq Rows
  /\ used \subseteq Ids
  /\ req \in [Clients -> Requests]
  /\ sched \in [Rows -> Nat]
  /\ once \in [Rows -> Nat]
  /\ restarts \in Nat
  /\ disturbed \subseteq Ids
  /\ overtaken \subseteq Ids

(* start() refuses a frequency of 0: gocron has no job without interval.    *)
Startable(r) == r.config # "never"

(* Init(): one periodic job for each row that can be started. *)
SchedulerOf(R) == [r \in Rows |-> IF r \in R /\ Startable(r) THEN 1 ELSE 0]

NoJobs == [r \in Rows |-> 0]

(* The process starts on tables an earlier run left behind. *)
Init ==
  /\ devices = Devices
  /\ rows \in {{}} \cup {{Row(CHOOSE i \in Ids : TRUE, d, g)} : d \in devices, g \in Configs}
  /\ used = {r.id : r \in rows}
  /\ req = [c \in Clients |-> Fresh]
  /\ sched = SchedulerOf(rows)
  /\ once = NoJobs
  /\ restarts = 0
  /\ disturbed = {}
  /\ overtaken = {}

-----------------------------------------------------------------------------
(* The requests that work on collector i, from their first to their last    *)
(* step.                                                                    *)
IdsOf(q) == IF q.pc \in {"rereadCreated", "rereadUpdated", "delete", "cancel"} THEN {q.id}
            ELSE IF q.pc \in {"save", "cancelStart", "start"} THEN {q.row.id}
            ELSE {}

Busy(i) == \E c \in Clients : i \in IdsOf(req[c])

At(c, pc)  == req[c].pc = pc
Goto(c, q) == req' = [req EXCEPT ![c] = q]

Invoking(i) == \E c \in Clients : req[c].pc = "invoke" /\ req[c].row.id = i

(* A request that changes collector i begins, next to others or not. *)
Meets(i) ==
  /\ disturbed' = IF Busy(i) THEN disturbed \cup {i} ELSE disturbed
  /\ overtaken' = IF Invoking(i) THEN overtaken \cup {i} ELSE overtaken

(* Faulty variant of CancelByTag: invocations go on. *)
CancelPeriodic(i) ==
  /\ sched' = [r \in Rows |-> IF r.id = i THEN 0 ELSE sched[r]]
  /\ UNCHANGED once

(* CancelByTag: every job of the collector leaves the scheduler, the        *)
(* one-time jobs of Invoke included.                                        *)
CancelByTag(i) ==
  /\ sched' = [r \in Rows |-> IF r.id = i THEN 0 ELSE sched[r]]
  /\ once'  = [r \in Rows |-> IF r.id = i THEN 0 ELSE once[r]]

-----------------------------------------------------------------------------
(* Create: the payload is validated, the row is inserted (its device must   *)
(* exist), read again, and started.                                         *)
Create(c, d, g) ==
  /\ req[c] = Fresh
  /\ Goto(c, [pc |-> "insert", sn |-> d, config |-> g])
  /\ UNCHANGED <<tables, jobs, restarts, disturbed, overtaken>>

Insert(c) ==
  LET d == req[c].sn IN
  /\ At(c, "insert")
  /\ IF d \in devices
       THEN /\ rows' = rows \cup {Row(NewId, d, req[c].config)}
            /\ used' = used \cup {NewId}
            /\ Goto(c, [pc |-> "rereadCreated", id |-> NewId])
       ELSE /\ UNCHANGED <<rows, used>>
            /\ Goto(c, Done)
  /\ UNCHANGED <<devices, jobs, restarts, disturbed, overtaken>>

RereadCreated(c) ==
  LET i == req[c].id IN
  /\ At(c, "rereadCreated")
  /\ Goto(c, IF HasRow(i) THEN [pc |-> "start", row |-> RowWith(i)] ELSE Done)
  /\ UNCHANGED <<tables, jobs, restarts, disturbed, overtaken>>

(* start(): a failure is logged, the request succeeds all the same. *)
Start(c) ==
  LET r == req[c].row IN
  /\ At(c, "start")
  /\ sched' = IF Startable(r) THEN [sched EXCEPT ![r] = @ + 1] ELSE sched
  /\ Goto(c, Done)
  /\ UNCHANGED <<tables, once, restarts, disturbed, overtaken>>

(* Update: GetById, the payload is validated (device parameters never pass: *)
(* the JSON list is not a []string), Save (which inserts a row that is      *)
(* gone), the re-read, CancelByTag, start.                                  *)
Update(c, i, d, g) ==
  /\ req[c] = Fresh
  /\ HasRow(i)
  /\ g # "parameters"
  /\ Goto(c, [pc |-> "save", row |-> Row(i, d, g)])
  /\ Meets(i)
  /\ UNCHANGED <<tables, jobs, restarts>>

Save(c) ==
  LET r == req[c].row IN
  /\ At(c, "save")
  /\ IF r.sn \in devices
       THEN /\ rows' = {s \in rows : s.id # r.id} \cup {r}
            /\ Goto(c, [pc |-> "rereadUpdated", id |-> r.id])
       ELSE /\ UNCHANGED rows
            /\ Goto(c, Done)
  /\ UNCHANGED <<devices, used, jobs, restarts, disturbed, overtaken>>

RereadUpdated(c) ==
  LET i == req[c].id IN
  /\ At(c, "rereadUpdated")
  /\ Goto(c, IF HasRow(i) THEN [pc |-> "cancelStart", row |-> RowWith(i)] ELSE Done)
  /\ UNCHANGED <<tables, jobs, restarts, disturbed, overtaken>>

(* Faulty variant of CancelBeforeStart: the old job is not cancelled. *)
StartWithoutCancel(c) ==
  /\ At(c, "cancelStart")
  /\ Goto(c, [pc |-> "start", row |-> req[c].row])
  /\ UNCHANGED <<tables, jobs, restarts, disturbed, overtaken>>

CancelBeforeStart(c) ==
  /\ At(c, "cancelStart")
  /\ CancelByTag(req[c].row.id)
  /\ Goto(c, [pc |-> "start", row |-> req[c].row])
  /\ UNCHANGED <<tables, restarts, disturbed, overtaken>>

(* Delete: GetById, the delete, CancelByTag. *)
Delete(c, i) ==
  /\ req[c] = Fresh
  /\ HasRow(i)
  /\ Goto(c, [pc |-> "delete", id |-> i])
  /\ Meets(i)
  /\ UNCHANGED <<tables, jobs, restarts>>

DeleteRow(c) ==
  /\ At(c, "delete")
  /\ rows' = {r \in rows : r.id # req[c].id}
  /\ Goto(c, [pc |-> "cancel", id |-> req[c].id])
  /\ UNCHANGED <<devices, used, jobs, restarts, disturbed, overtaken>>

Cancel(c) ==
  /\ At(c, "cancel")
  /\ CancelByTag(req[c].id)
  /\ Goto(c, Done)
  /\ UNCHANGED <<tables, restarts, disturbed, overtaken>>

(* Invoke: GetById, then a one-time job with the row that was read. *)
Invoke(c, i) ==
  /\ req[c] = Fresh
  /\ HasRow(i)
  /\ Goto(c, [pc |-> "invoke", row |-> RowWith(i)])
  /\ overtaken' = IF Busy(i) THEN overtaken \cup {i} ELSE overtaken
  /\ UNCHANGED <<tables, jobs, restarts, disturbed>>

EnqueueOnce(c) ==
  /\ At(c, "invoke")
  /\ once' = [once EXCEPT ![req[c].row] = @ + 1]
  /\ Goto(c, Done)
  /\ UNCHANGED <<tables, sched, restarts, disturbed, overtaken>>

(* DeviceService.Delete: the rows of the device go with it (on delete       *)
(* cascade); the scheduler is not told.                                     *)
DeleteDevice(c, d) ==
  /\ req[c] = Fresh
  /\ d \in devices
  /\ Goto(c, [pc |-> "deleteDevice", sn |-> d])
  /\ UNCHANGED <<tables, jobs, restarts, disturbed, overtaken>>

DeleteDeviceRow(c) ==
  LET gone == {r \in rows : r.sn = req[c].sn} IN
  /\ At(c, "deleteDevice")
  /\ devices' = devices \ {req[c].sn}
  /\ rows' = rows \ gone
  /\ disturbed' = disturbed \cup {r.id : r \in gone}
  /\ Goto(c, Done)
  /\ UNCHANGED <<used, jobs, restarts, overtaken>>

-----------------------------------------------------------------------------
(* Faulty variant of RunOnce: a one-time job that has run runs again. *)
RunOnceAgain(r) ==
  /\ once' = [once EXCEPT ![r] = @ - 1]
  /\ UNCHANGED <<tables, req, sched, restarts, disturbed, overtaken>>

(* A one-time job leaves the scheduler when it has run, however its run     *)
(* ends.  (A run of a periodic job leaves everything here as it is.)        *)
RunOnce(r) ==
  /\ once[r] > 0
  /\ once' = [once EXCEPT ![r] = @ - 1]
  /\ UNCHANGED <<tables, req, sched, restarts, disturbed, overtaken>>

(* Faulty variant of Restart: collectors are not started again. *)
RestartIdle ==
  /\ restarts < MaxRestarts
  /\ restarts' = restarts + 1
  /\ req' = [c \in Clients |-> IF req[c] = Fresh THEN Fresh ELSE Done]
  /\ sched' = NoJobs
  /\ once' = NoJobs
  /\ disturbed' = {}
  /\ overtaken' = {}
  /\ UNCHANGED tables

(* The process crashes and starts again: requests and jobs are lost, and    *)
(* Init() starts every persisted collector.                                 *)
Restart ==
  /\ restarts < MaxRestarts
  /\ restarts' = restarts + 1
  /\ req' = [c \in Clients |-> IF req[c] = Fresh THEN Fresh ELSE Done]
  /\ sched' = SchedulerOf(rows)
  /\ once' = NoJobs
  /\ disturbed' = {}
  /\ overtaken' = {}
  /\ UNCHANGED tables

RequestStarts(c) ==
  \/ \E d \in Devices, g \in Configs : Create(c, d, g)
  \/ \E i \in Ids, d \in Devices, g \in Configs : Update(c, i, d, g)
  \/ \E i \in Ids : Delete(c, i) \/ Invoke(c, i)
  \/ \E d \in Devices : DeleteDevice(c, d)

RequestStep(c) ==
  \/ Insert(c) \/ RereadCreated(c) \/ Start(c)
  \/ Save(c) \/ RereadUpdated(c) \/ CancelBeforeStart(c)
  \/ DeleteRow(c) \/ Cancel(c)
  \/ EnqueueOnce(c)
  \/ DeleteDeviceRow(c)

Next ==
  \/ \E c \in Clients : RequestStarts(c) \/ RequestStep(c)
  \/ \E r \in Rows : RunOnce(r)
  \/ Restart

Spec == Init /\ [][Next]_vars

-----------------------------------------------------------------------------
(* Properties *)

(* Between requests, a collector whose requests never overlapped and whose  *)
(* device was not deleted is scheduled exactly as it is persisted: one      *)
(* periodic job with the row's current content when its frequency allows    *)
(* one, and none when it was deleted; a restart brings every collector back *)
(* to that state (collector.go:55-70, 139-151, 196-209, 222-226).           *)
ScheduledAsPersisted ==
  \A r \in Rows :
    r.id \notin disturbed /\ ~Busy(r.id)
      => sched[r] = IF r \in rows /\ Startable(r) THEN 1 ELSE 0

(* At no point, not even between the steps of a request, does a collector   *)
(* whose requests never overlapped run on two schedules: the old job is     *)
(* gone before the new one starts (collector.go:200-204).                   *)
NeverTwice ==
  \A i \in Ids \ disturbed :
    \A r, s \in Rows :
      r.id = i /\ s.id = i /\ sched[r] > 0 /\ sched[s] > 0 => r = s /\ sched[r] = 1

(* An invocation runs a collector as it is persisted, never the version an  *)
(* update has replaced or one that was deleted, unless the invocation       *)
(* itself overlapped that request: cancelling the schedule by its tag takes *)
(* invocations that have not run with it (collector.go:200, 222, 246).      *)
InvokedAsPersisted ==
  \A r \in Rows :
    once[r] > 0 /\ r.id \notin disturbed \cup overtaken /\ ~Busy(r.id) => r \in rows
=============================================================================
