---------------------------- MODULE Subscriptions ----------------------------
(***************************************************************************)
(* Devices and their MQTT subscriptions: the requests of the HTTP API      *)
(* (internal/server/service/device.go, mqtt_subscription_store.go), the    *)
(* two tables they work on (internal/server/repository, and the schema in  *)
(* internal/server/config/migrations_postgres), and, as Mqtt, the session  *)
(* with EcoFlow's broker that follows the tables by means of jobs.  Next to *)
(* them a periodic job exports whether the session is connected            *)
(* (task_prometheus.go).                                                   *)
(*                                                                         *)
(* A request is a goroutine.  Each of its statements on the database is a  *)
(* step (there is no transaction around them), and so is each job it       *)
(* enqueues.  Each client issues one request.  Blank arguments are refused *)
(* before anything happens and are left out, as is the label of a device.  *)
(***************************************************************************)
EXTENDS Naturals, FiniteSets

CONSTANTS Clients,   \* one request each
          Ids,       \* the uuids of subscriptions
          Operations, \* the requests clients issue
          Prometheus, \* PROMETHEUS_ENABLED
          Devices, MaxSessions, MaxRestarts, MaxCopies, LateCallbacks, Faults

ASSUME PrometheusAssumption == Prometheus \in BOOLEAN

(* Every client may insert a row, next to the row of an earlier run. *)
ASSUME EnoughIds ==
  IsFiniteSet(Ids) /\ IsFiniteSet(Clients) /\ Cardinality(Ids) > Cardinality(Clients)

VARIABLES
  devices,   \* table devices: serial numbers
  rows,      \* table mqtt_subscriptions: its rows
  used,      \* uuids given out so far
  req,       \* req[c]: where the request of client c is
  shown,     \* the gauge ecoflow_mqtt_connected
  reading,   \* what the refresh job that runs has read, if any
  conn, sessions, values, broker, connCbs, lostCbs, jobs, restarts

Mqtt == INSTANCE EcoFlowMqtt

ASSUME SessionAssumption == Mqtt!SessionAssumption

tables   == <<devices, rows, used>>
mqttVars == <<conn, sessions, values, broker, connCbs, lostCbs, jobs, restarts>>
refresh  == <<shown, reading>>
vars     == <<tables, req, refresh, mqttVars>>

Topics == Mqtt!Topics

-----------------------------------------------------------------------------
(* The tables *)

Row(i, t) == [id |-> i, topic |-> t]

(* The topics of the rows R, and the rows of one device. *)
TopicsOf(R) == {r.topic : r \in R}
OfDevice(d) == {r \in rows : r.topic.sn = d}

(* The topics the tables ask for; topics of kind status are never subscribed. *)
Wanted == TopicsOf(rows) \cap Mqtt!Quota

HasRow(i) == \E r \in rows : r.id = i
RowWith(i) == CHOOSE r \in rows : r.id = i

(* A new uuid; which one does not matter. *)
NewId == CHOOSE i \in Ids : i \notin used

(* What the schema demands of a row: its device exists (foreign key), and   *)
(* no other row has its device and kind (unique index).                     *)
Admissible(i, t) ==
  /\ t.sn \in devices
  /\ \A r \in rows : r.id # i => r.topic # t

(* Requests: what each has read, and the jobs it has yet to enqueue. *)
Fresh == [pc |-> "new"]
Done  == [pc |-> "done"]

Requests ==
  {Fresh, Done}
    \cup [pc : {"insertDevice", "findDevice", "saveDevice", "readSubscriptions"}, sn : Devices]
    \cup [pc : {"deleteDevice"}, sn : Devices, found : SUBSET Topics]
    \cup [pc : {"insertSubscription"}, topic : Topics]
    \cup [pc : {"rereadCreated"}, id : Ids]
    \cup [pc : {"saveSubscription"}, id : Ids, topic : Topics, old : Topics]
    \cup [pc : {"rereadUpdated"}, id : Ids, old : Topics]
    \cup [pc : {"deleteSubscription"}, id : Ids, topic : Topics]
    \cup [pc : {"enqueue"}, out : SUBSET Mqtt!Jobs]

TypeOK ==
  /\ devices \subseteq Devices
  /\ rows \subseteq [id : Ids, topic : Topics]
  /\ used \subseteq Ids
  /\ req \in [Clients -> Requests]
  /\ shown \in BOOLEAN /\ reading \in {{}, {TRUE}, {FALSE}}
  /\ Mqtt!TypeOK

(* The process starts on tables an earlier run left behind. *)
Init ==
  /\ devices \in SUBSET Devices
  /\ rows \in {{}} \cup {{Row(CHOOSE i \in Ids : TRUE, t)} :
                             t \in {u \in Topics : u.sn \in devices}}
  /\ used = {r.id : r \in rows}
  /\ req = [c \in Clients |-> Fresh]
  /\ shown = FALSE /\ reading = {}
  /\ Mqtt!Init

-----------------------------------------------------------------------------
(* Steps of a request *)

Starts(c, op) == req[c] = Fresh /\ op \in Operations
At(c, pc)     == req[c].pc = pc
Goto(c, r)    == req' = [req EXCEPT ![c] = r]

(* The request goes on to enqueue jobs, or is done when there are none. *)
GotoEnqueue(c, out) ==
  Goto(c, IF out = {} THEN Done ELSE [pc |-> "enqueue", out |-> out])

Enqueue(c) ==
  /\ At(c, "enqueue")
  /\ \E j \in req[c].out :
       /\ Mqtt!Submit(j)
       /\ GotoEnqueue(c, req[c].out \ {j})
  /\ UNCHANGED tables

(* DeviceService.Create: FindBySN, then the insert, which the primary key   *)
(* refuses when another request was faster.                                 *)
CreateDevice(c, d) ==
  /\ Starts(c, "createDevice")
  /\ Goto(c, IF d \in devices THEN Done ELSE [pc |-> "insertDevice", sn |-> d])
  /\ UNCHANGED <<tables, mqttVars>>

InsertDevice(c) ==
  /\ At(c, "insertDevice")
  /\ devices' = devices \cup {req[c].sn}
  /\ Goto(c, Done)
  /\ UNCHANGED <<rows, used, mqttVars>>

(* DeviceService.Update: Get, the repository's FindBySN, then Save, which   *)
(* inserts the row when it is gone.                                         *)
UpdateDevice(c, d) ==
  /\ Starts(c, "updateDevice")
  /\ Goto(c, IF d \in devices THEN [pc |-> "findDevice", sn |-> d] ELSE Done)
  /\ UNCHANGED <<tables, mqttVars>>

FindDevice(c) ==
  /\ At(c, "findDevice")
  /\ Goto(c, IF req[c].sn \in devices THEN [pc |-> "saveDevice", sn |-> req[c].sn]
                                      ELSE Done)
  /\ UNCHANGED <<tables, mqttVars>>

SaveDevice(c) ==
  /\ At(c, "saveDevice")
  /\ devices' = devices \cup {req[c].sn}
  /\ Goto(c, Done)
  /\ UNCHANGED <<rows, used, mqttVars>>

(* DeviceService.Delete: Get, read its subscriptions, delete the device     *)
(* with everything that refers to it, then Subscribe for each of them.      *)
DeleteDevice(c, d) ==
  /\ Starts(c, "deleteDevice")
  /\ Goto(c, IF d \in devices THEN [pc |-> "readSubscriptions", sn |-> d] ELSE Done)
  /\ UNCHANGED <<tables, mqttVars>>

ReadSubscriptions(c) ==
  LET d == req[c].sn IN
  /\ At(c, "readSubscriptions")
  /\ Goto(c, [pc |-> "deleteDevice", sn |-> d, found |-> TopicsOf(OfDevice(d))])
  /\ UNCHANGED <<tables, mqttVars>>

DeleteDeviceRow(c) ==
  LET d == req[c].sn IN
  /\ At(c, "deleteDevice")
  /\ devices' = devices \ {d}
  /\ rows' = rows \ OfDevice(d)
  /\ GotoEnqueue(c, UNION {Mqtt!Subscribing({t}) : t \in req[c].found})
  /\ UNCHANGED <<used, mqttVars>>

-----------------------------------------------------------------------------
(* MqttSubscriptionWriteService.Create: the existence test, the insert      *)
(* (refused by the schema's constraints), the re-read, and the job.         *)
CreateSubscription(c, t) ==
  /\ Starts(c, "createSubscription")
  /\ Goto(c, IF t \in TopicsOf(rows) THEN Done
             ELSE [pc |-> "insertSubscription", topic |-> t])
  /\ UNCHANGED <<tables, mqttVars>>

InsertSubscription(c) ==
  LET t == req[c].topic IN
  /\ At(c, "insertSubscription")
  /\ IF Admissible(NewId, t)
       THEN /\ rows' = rows \cup {Row(NewId, t)}
            /\ used' = used \cup {NewId}
            /\ Goto(c, [pc |-> "rereadCreated", id |-> NewId])
       ELSE /\ UNCHANGED <<rows, used>>
            /\ Goto(c, Done)
  /\ UNCHANGED <<devices, mqttVars>>

(* Faulty variant of RereadCreated: the job is forgotten. *)
RereadCreatedNoJob(c) ==
  /\ At(c, "rereadCreated")
  /\ Goto(c, Done)
  /\ UNCHANGED <<tables, mqttVars>>

RereadCreated(c) ==
  LET i == req[c].id IN
  /\ At(c, "rereadCreated")
  /\ GotoEnqueue(c, IF HasRow(i) THEN Mqtt!Subscribing({RowWith(i).topic}) ELSE {})
  /\ UNCHANGED <<tables, mqttVars>>

(* MqttSubscriptionWriteService.Update: GetById (the repository reads the   *)
(* row once more, to the same effect), Save, which inserts the row when it  *)
(* is gone, the re-read, and two independent jobs.                          *)
UpdateSubscription(c, i, t) ==
  /\ Starts(c, "updateSubscription")
  /\ Goto(c, IF HasRow(i)
             THEN [pc |-> "saveSubscription", id |-> i, topic |-> t, old |-> RowWith(i).topic]
             ELSE Done)
  /\ UNCHANGED <<tables, mqttVars>>

SaveSubscription(c) ==
  LET i == req[c].id
      t == req[c].topic
  IN
  /\ At(c, "saveSubscription")
  /\ IF Admissible(i, t)
       THEN /\ rows' = {r \in rows : r.id # i} \cup {Row(i, t)}
            /\ Goto(c, [pc |-> "rereadUpdated", id |-> i, old |-> req[c].old])
       ELSE /\ UNCHANGED rows
            /\ Goto(c, Done)
  /\ UNCHANGED <<devices, used, mqttVars>>

RereadUpdated(c) ==
  LET i == req[c].id IN
  /\ At(c, "rereadUpdated")
  /\ GotoEnqueue(c, IF HasRow(i)
                    THEN {Mqtt!UnsubscribeJob(req[c].old)}
                           \cup Mqtt!Subscribing({RowWith(i).topic})
                    ELSE {})
  /\ UNCHANGED <<tables, mqttVars>>

(* MqttSubscriptionWriteService.Delete: GetById, the delete, and a          *)
(* Subscribe of the topic (mqtt_subscription_store.go:92).                  *)
DeleteSubscription(c, i) ==
  /\ Starts(c, "deleteSubscription")
  /\ Goto(c, IF HasRow(i)
             THEN [pc |-> "deleteSubscription", id |-> i, topic |-> RowWith(i).topic]
             ELSE Done)
  /\ UNCHANGED <<tables, mqttVars>>

DeleteSubscriptionRow(c) ==
  /\ At(c, "deleteSubscription")
  /\ rows' = {r \in rows : r.id # req[c].id}
  /\ GotoEnqueue(c, Mqtt!Subscribing({req[c].topic}))
  /\ UNCHANGED <<devices, used, mqttVars>>

-----------------------------------------------------------------------------
DeviceRequest(c) ==
  \E d \in Devices : CreateDevice(c, d) \/ UpdateDevice(c, d) \/ DeleteDevice(c, d)

SubscriptionRequest(c) ==
  \/ \E t \in Topics : CreateSubscription(c, t)
  \/ \E i \in Ids, t \in Topics : UpdateSubscription(c, i, t)
  \/ \E i \in Ids : DeleteSubscription(c, i)

RequestStarts(c) == DeviceRequest(c) \/ SubscriptionRequest(c)

RequestStep(c) ==
  \/ InsertDevice(c)
  \/ FindDevice(c) \/ SaveDevice(c)
  \/ ReadSubscriptions(c) \/ DeleteDeviceRow(c)
  \/ InsertSubscription(c) \/ RereadCreated(c)
  \/ SaveSubscription(c) \/ RereadUpdated(c)
  \/ DeleteSubscriptionRow(c)
  \/ Enqueue(c)

(* Faulty variant of SyncRead: the topics read are taken for subscribed. *)
SyncReadTrusting ==
  /\ jobs[Mqtt!SyncJob] > 0
  /\ jobs' = [jobs EXCEPT ![Mqtt!SyncJob] = @ - 1]
  /\ values' = Wanted
  /\ UNCHANGED <<tables, req, conn, sessions, broker, connCbs, lostCbs, restarts>>

(* The sync job reads the table: GetAll of the read service. *)
SyncRead == Mqtt!SyncRead(TopicsOf(rows)) /\ UNCHANGED <<tables, req>>

(* Faulty variant of RefreshRead: the state is that of the start. *)
RefreshReadAtStart ==
  /\ Prometheus /\ reading = {}
  /\ reading' = {FALSE}
  /\ UNCHANGED <<tables, req, shown, mqttVars>>

(* The periodic job PROMETHEUS_REFRESH: Status, then SetGaugeNoLabels.  No  *)
(* two runs of it overlap (singleton mode, task.go:33); one that another    *)
(* instance's keeps from its lock is made up for by the next.               *)
RefreshRead ==
  /\ Prometheus /\ reading = {}
  /\ reading' = {conn = "up"}
  /\ UNCHANGED <<tables, req, shown, mqttVars>>

RefreshWrite ==
  /\ reading # {}
  /\ shown' \in reading
  /\ reading' = {}
  /\ UNCHANGED <<tables, req, mqttVars>>

(* The process crashes and starts again: requests in flight are lost. *)
Restart ==
  /\ Mqtt!Restart
  /\ req' = [c \in Clients |-> IF req[c] = Fresh THEN Fresh ELSE Done]
  /\ shown' = FALSE /\ reading' = {}
  /\ UNCHANGED tables

(* A step that leaves the refresh alone, and one of the session only. *)
Quiet(step)   == step /\ UNCHANGED refresh
Session(step) == Quiet(step /\ UNCHANGED <<tables, req>>)

Next ==
  \/ \E c \in Clients : Quiet(RequestStarts(c)) \/ Quiet(RequestStep(c))
  \/ Quiet(SyncRead)
  \/ Session(Mqtt!SessionStep)
  \/ RefreshRead \/ RefreshWrite
  \/ Restart

Spec == Init /\ [][Next]_vars

(* The scheduler starts every queued job, goroutines run, and the client    *)
(* reconnects as long as the session is lost (the broker comes back).       *)
(* Nothing makes a client issue its request or the connection fail.  The    *)
(* refresh job is periodic.                                                 *)
Fairness ==
  /\ WF_vars(Session(Mqtt!Connect))
  /\ WF_vars(Session(Mqtt!Reconnect))
  /\ WF_vars(Session(Mqtt!OnConnect))
  /\ WF_vars(Session(Mqtt!OnConnectionLost))
  /\ WF_vars(Quiet(SyncRead))
  /\ WF_vars(RefreshRead) /\ WF_vars(RefreshWrite)
  /\ \A j \in Mqtt!TopicJobs : WF_vars(Session(Mqtt!JobStep(j)))
  /\ \A c \in Clients : WF_vars(Quiet(RequestStep(c)))

FairSpec == Spec /\ Fairness

-----------------------------------------------------------------------------
(* Properties *)

(* Some job, callback or request in flight will still subscribe t. *)
Promised(t) ==
  \/ connCbs > 0
  \/ jobs[Mqtt!SyncJob] > 0
  \/ \E j \in Mqtt!TopicJobs : j.op = "subscribe" /\ t \in j.todo /\ jobs[j] > 0
  \/ \E c \in Clients :
       \/ At(c, "rereadCreated") /\ Row(req[c].id, t) \in rows
       \/ At(c, "enqueue") /\ Mqtt!SubscribeJob({t}) \in req[c].out

(* As long as no subscription is updated, no callback is late and nothing   *)
(* fails: a persisted quota subscription is delivered, or something that    *)
(* will subscribe it is under way.  It is never lost between the insert,    *)
(* the one-shot job, the connection test before the lock, a lost connection *)
(* and a crash (mqtt_subscription_store.go:42-46, ecoflow_mqtt.go:127-188). *)
WantedIsPromised ==
  conn = "up" => \A t \in Wanted : t \in broker \/ Promised(t)

(* Under the same conditions, when requests, losses of the connection and   *)
(* crashes stop, the session ends up connected and delivers every persisted *)
(* quota subscription for good.                                             *)
WantedIsServed == <>[](conn = "up" /\ Wanted \subseteq broker)

(* Whatever a refresh had read before a loss or a reconnect and writes after *)
(* it, the gauge ends up at the state of the connection, on which           *)
(* README.md:651 builds an alert (task_prometheus.go:56-63).                *)
StateIsShown == <>[](shown = (conn = "up"))

(* Nothing is left to do: no request, callback or job. *)
Settled ==
  /\ \A c \in Clients : req[c] \in {Fresh, Done}
  /\ connCbs = 0 /\ lostCbs = 0
  /\ \A j \in Mqtt!Jobs : jobs[j] = 0

(* The usage of `subs rm` (internal/terminal/commands.go:370): "Removes a   *)
(* subscription for a tracked device, remember that no MQTT messages from   *)
(* EcoFlow are retrieved anymore".                                          *)
RemovedIsSilent == Settled => broker \subseteq Wanted

(* README.md:46: "You only need to do it once! Tracked devices and          *)
(* subscriptions are persisted."  A persisted quota subscription is         *)
(* delivered once everything has settled and the session is up.             *)
SubscribedOnce == Settled /\ conn = "up" => Wanted \subseteq broker

(* Mirrored of the session, whatever the requests do. *)
Mirrored == Mqtt!Mirrored

(* The composition implements the session in an arbitrary environment.     *)
ImplementsSession == Mqtt!Spec
=============================================================================
