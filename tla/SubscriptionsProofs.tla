------------------------- MODULE SubscriptionsProofs -------------------------
(***************************************************************************)
(* What holds of devices, subscriptions and the session that follows them, *)
(* for every number of clients, devices, sessions and crashes: the types   *)
(* and the constraints of the schema, that the session is the one of       *)
(* EcoFlowMqtt (whose proofs are used as they stand), and that a wanted    *)
(* subscription is delivered or under way.                                 *)
(***************************************************************************)
EXTENDS Subscriptions, TLAPS, FiniteSetTheorems

Proofs == INSTANCE EcoFlowMqttProofs

-----------------------------------------------------------------------------
(* The inductive invariant *)

(* Requests enqueue jobs of one topic, and save rows whose uuid was given out. *)
RequestsOK ==
  /\ req \in [Clients -> Requests]
  /\ \A c \in Clients :
       /\ At(c, "enqueue") => req[c].out \subseteq Mqtt!Submittable
       /\ At(c, "saveSubscription") => req[c].id \in used

(* The primary key, the unique index, and uuids that are given out once. *)
TablesOK ==
  /\ devices \subseteq Devices
  /\ rows \subseteq [id : Ids, topic : Topics]
  /\ used \subseteq Ids
  /\ \A r, s \in rows : r.id = s.id \/ r.topic = s.topic => r = s
  /\ \A r \in rows : r.id \in used

(* The requests that may have been given a uuid, and a uuid for the others. *)
Given == {c \in Clients : req[c].pc \notin {"new", "insertSubscription"}}

IdsLeft == Cardinality(used) <= 1 + Cardinality(Given)

Inv ==
  /\ TypeOK
  /\ RequestsOK
  /\ TablesOK
  /\ IdsLeft
  /\ Proofs!Inv

-----------------------------------------------------------------------------
(* The session, here and in its own proofs *)

LEMMA SameSession ==
  /\ Mqtt!Init <=> Proofs!Init
  /\ Mqtt!Next <=> Proofs!Next
  /\ Mqtt!vars = Proofs!vars
  /\ Mqtt!TypeOK <=> Proofs!TypeOK
  /\ Mqtt!Mirrored <=> Proofs!Mirrored
BY DEF Mqtt!Init, Proofs!Init, Mqtt!Started, Proofs!Started, Mqtt!vars, Proofs!vars,
       Mqtt!TypeOK, Proofs!TypeOK, Mqtt!Mirrored, Proofs!Mirrored,
       Mqtt!Next, Proofs!Next, Mqtt!SessionStep, Proofs!SessionStep,
       Mqtt!Connect, Proofs!Connect, Mqtt!Lose, Proofs!Lose, Mqtt!Reconnect, Proofs!Reconnect,
       Mqtt!OnConnect, Proofs!OnConnect, Mqtt!OnConnectionLost, Proofs!OnConnectionLost,
       Mqtt!SyncRead, Proofs!SyncRead, Mqtt!SyncReadFails, Proofs!SyncReadFails,
       Mqtt!TestConnected, Proofs!TestConnected, Mqtt!JobStep, Proofs!JobStep,
       Mqtt!Subscribe, Proofs!Subscribe, Mqtt!SubscribeFails, Proofs!SubscribeFails,
       Mqtt!Unsubscribe, Proofs!Unsubscribe, Mqtt!UnsubscribeFails, Proofs!UnsubscribeFails,
       Mqtt!Restart, Proofs!Restart, Mqtt!Submit, Proofs!Submit,
       Mqtt!Submittable, Proofs!Submittable, Mqtt!Kinds, Proofs!Kinds,
       Mqtt!Topics, Proofs!Topics, Mqtt!Quota, Proofs!Quota, Mqtt!Job, Proofs!Job,
       Mqtt!ConnectJob, Proofs!ConnectJob, Mqtt!SyncJob, Proofs!SyncJob,
       Mqtt!SubscribeJob, Proofs!SubscribeJob, Mqtt!UnsubscribeJob, Proofs!UnsubscribeJob,
       Mqtt!TopicJobs, Proofs!TopicJobs, Mqtt!Jobs, Proofs!Jobs,
       Mqtt!Subscribing, Proofs!Subscribing, Mqtt!Without, Proofs!Without,
       Mqtt!Continue, Proofs!Continue, Mqtt!Enqueue, Proofs!Enqueue

(* The session of this module keeps the invariant of its proofs. *)
LEMMA SessionInv ==
  /\ Mqtt!Init => Proofs!Inv
  /\ Proofs!Inv /\ [Mqtt!Next]_(Mqtt!vars) => Proofs!Inv'
  /\ Proofs!Inv => Mqtt!TypeOK /\ Mqtt!Mirrored
  /\ Proofs!Inv' => (Mqtt!TypeOK)'
<1>1. Proofs!Init => Proofs!Inv
  BY SessionAssumption, Proofs!InitInv DEF Mqtt!SessionAssumption
<1>2. Proofs!Inv /\ [Proofs!Next]_(Proofs!vars) => Proofs!Inv'
  BY SessionAssumption, Proofs!NextInv DEF Mqtt!SessionAssumption
<1>3. [Mqtt!Next]_(Mqtt!vars) => [Proofs!Next]_(Proofs!vars)
  <2>1. UNCHANGED Mqtt!vars => UNCHANGED Proofs!vars
    BY DEF Mqtt!vars, Proofs!vars
  <2> QED
    BY <2>1, SameSession
<1>4. Proofs!Inv => Proofs!TypeOK /\ Proofs!Mirrored
  BY DEF Proofs!Inv
<1>5. Proofs!Inv' => (Mqtt!TypeOK)'
  <2>1. (Mqtt!TypeOK)' <=> (Proofs!TypeOK)'
    BY DEF Mqtt!TypeOK, Proofs!TypeOK, Mqtt!Quota, Proofs!Quota, Mqtt!Topics, Proofs!Topics,
           Mqtt!Kinds, Proofs!Kinds, Mqtt!Jobs, Proofs!Jobs, Mqtt!TopicJobs, Proofs!TopicJobs,
           Mqtt!ConnectJob, Proofs!ConnectJob, Mqtt!SyncJob, Proofs!SyncJob,
           Mqtt!Job, Proofs!Job
  <2> QED
    BY <2>1 DEF Proofs!Inv
<1> QED
  BY <1>1, <1>2, <1>3, <1>4, <1>5, SameSession

-----------------------------------------------------------------------------
(* Jobs and requests *)

LEMMA JobFields ==
  ASSUME NEW op, NEW S, NEW R
  PROVE  /\ Mqtt!Job(op, S, R).op = op
         /\ Mqtt!Job(op, S, R).todo = S
         /\ Mqtt!Job(op, S, R).ready = R
  BY DEF Mqtt!Job

LEMMA SubmittableAreJobs ==
  Mqtt!Submittable \subseteq Mqtt!TopicJobs
<1>1. ASSUME NEW t \in Mqtt!Quota PROVE Mqtt!SubscribeJob({t}) \in Mqtt!TopicJobs
  <2>1. {t} \in (SUBSET Mqtt!Quota) \ {{}}
    OBVIOUS
  <2> QED
    BY <2>1 DEF Mqtt!TopicJobs, Mqtt!SubscribeJob
<1>2. ASSUME NEW t \in Mqtt!Topics PROVE Mqtt!UnsubscribeJob(t) \in Mqtt!TopicJobs
  BY DEF Mqtt!TopicJobs, Mqtt!UnsubscribeJob
<1> QED
  BY <1>1, <1>2 DEF Mqtt!Submittable

(* The job of one topic, if it is of kind quota. *)
LEMMA SubscribingOne ==
  ASSUME NEW t
  PROVE  Mqtt!Subscribing({t}) = IF t \in Mqtt!Quota THEN {Mqtt!SubscribeJob({t})} ELSE {}
<1>1. CASE t \in Mqtt!Quota
  <2>1. {{t} \cap Mqtt!Quota} \ {{}} = {{t}}
    BY <1>1
  <2> QED
    BY <1>1, <2>1 DEF Mqtt!Subscribing
<1>2. CASE t \notin Mqtt!Quota
  <2>1. {{t} \cap Mqtt!Quota} \ {{}} = {}
    BY <1>2
  <2> QED
    BY <1>2, <2>1 DEF Mqtt!Subscribing
<1> QED
  BY <1>1, <1>2

LEMMA SubscribingSubmittable ==
  ASSUME NEW t PROVE Mqtt!Subscribing({t}) \subseteq Mqtt!Submittable
  BY SubscribingOne DEF Mqtt!Submittable

LEMMA RequestFields ==
  ASSUME NEW q \in Requests
  PROVE  /\ q.pc \in {"insertDevice", "findDevice", "saveDevice", "readSubscriptions",
                      "deleteDevice"} => q.sn \in Devices
         /\ q.pc = "deleteDevice" => q.found \subseteq Topics
         /\ q.pc \in {"insertSubscription", "saveSubscription", "deleteSubscription"}
              => q.topic \in Topics
         /\ q.pc \in {"rereadCreated", "saveSubscription", "rereadUpdated",
                      "deleteSubscription"} => q.id \in Ids
         /\ q.pc \in {"saveSubscription", "rereadUpdated"} => q.old \in Topics
  BY DEF Requests, Fresh, Done

LEMMA RowWithIs ==
  ASSUME rows \subseteq [id : Ids, topic : Topics], NEW i, HasRow(i)
  PROVE  RowWith(i) \in rows /\ RowWith(i).id = i /\ RowWith(i).topic \in Topics
<1>1. RowWith(i) \in rows /\ RowWith(i).id = i
  BY DEF HasRow, RowWith
<1> QED
  BY <1>1

(* A request makes its next step, to q. *)
LEMMA GotoOK ==
  ASSUME RequestsOK, NEW c \in Clients, NEW q \in Requests, Goto(c, q),
         q.pc = "enqueue" => q.out \subseteq Mqtt!Submittable,
         q.pc = "saveSubscription" => q.id \in used',
         used \subseteq used'
  PROVE  RequestsOK'
<1>1. /\ req' \in [Clients -> Requests]
      /\ req'[c] = q
      /\ \A d \in Clients \ {c} : req'[d] = req[d]
  BY DEF Goto, RequestsOK
<1>2. ASSUME NEW d \in Clients
      PROVE  /\ req'[d].pc = "enqueue" => req'[d].out \subseteq Mqtt!Submittable
             /\ req'[d].pc = "saveSubscription" => req'[d].id \in used'
  <2>1. CASE d = c
    BY <1>1, <2>1
  <2>2. CASE d # c
    BY <1>1, <2>2 DEF RequestsOK, At
  <2> QED
    BY <2>1, <2>2
<1>3. (Mqtt!Submittable)' = Mqtt!Submittable
  OBVIOUS
<1> QED
  BY <1>1, <1>2 DEF RequestsOK, At

LEMMA GotoEnqueueOK ==
  ASSUME RequestsOK, NEW c \in Clients, NEW out \in SUBSET Mqtt!Submittable,
         GotoEnqueue(c, out), used \subseteq used'
  PROVE  RequestsOK'
<1> DEFINE q == IF out = {} THEN Done ELSE [pc |-> "enqueue", out |-> out]
<1>1. q \in Requests
  BY SubmittableAreJobs DEF Requests, Mqtt!Jobs
<1>2. Goto(c, q) /\ (q.pc = "enqueue" => q.out \subseteq Mqtt!Submittable)
  BY DEF GotoEnqueue, Done
<1>3. q.pc # "saveSubscription"
  BY DEF Done
<1> HIDE DEF q
<1> QED
  BY <1>1, <1>2, <1>3, GotoOK

(* Without a new row nothing becomes ambiguous. *)
LEMMA FewerRows ==
  ASSUME TablesOK, rows' \subseteq rows, UNCHANGED used, devices' \subseteq Devices
  PROVE  TablesOK'
  BY DEF TablesOK

LEMMA NewIdIsNew ==
  ASSUME TablesOK, IdsLeft, NEW c \in Clients, At(c, "insertSubscription")
  PROVE  NewId \in Ids /\ NewId \notin used
<1>1. IsFiniteSet(used) /\ Cardinality(used) \in Nat
  BY EnoughIds, FS_Subset, FS_CardinalityType DEF TablesOK
<1>2. Given \subseteq Clients \ {c}
  BY DEF Given, At
<1>3. IsFiniteSet(Clients \ {c}) /\ Cardinality(Clients \ {c}) = Cardinality(Clients) - 1
  BY EnoughIds, FS_RemoveElement
<1>4. Cardinality(Given) <= Cardinality(Clients) - 1 /\ Cardinality(Given) \in Nat
  BY <1>2, <1>3, FS_Subset, FS_CardinalityType
<1>5. Cardinality(Clients) \in Nat /\ Cardinality(Ids) \in Nat
  BY EnoughIds, FS_CardinalityType
<1>6. Cardinality(used) < Cardinality(Ids)
  BY <1>1, <1>4, <1>5, EnoughIds DEF IdsLeft
<1>7. \E i \in Ids : i \notin used
  <2> SUFFICES ASSUME Ids \subseteq used PROVE FALSE
    OBVIOUS
  <2>1. used = Ids
    BY DEF TablesOK
  <2> QED
    BY <1>5, <1>6, <2>1
<1> QED
  BY <1>7 DEF NewId

-----------------------------------------------------------------------------
(* The requests *)

LEMMA RequestStartsOK ==
  ASSUME RequestsOK, TablesOK, NEW c \in Clients, RequestStarts(c)
  PROVE  RequestsOK' /\ UNCHANGED <<tables, mqttVars>>
<1> USE DEF tables
<1>d. Done \in Requests /\ Done.pc = "done"
  BY DEF Requests, Done
<1>1. ASSUME NEW d \in Devices, NEW q \in Requests,
             q = Done \/ q = [pc |-> "insertDevice", sn |-> d]
                      \/ q = [pc |-> "findDevice", sn |-> d]
                      \/ q = [pc |-> "readSubscriptions", sn |-> d],
             Goto(c, q), UNCHANGED used
      PROVE  RequestsOK'
  BY <1>1, <1>d, GotoOK
<1>2. ASSUME NEW d \in Devices
      PROVE  /\ [pc |-> "insertDevice", sn |-> d] \in Requests
             /\ [pc |-> "findDevice", sn |-> d] \in Requests
             /\ [pc |-> "readSubscriptions", sn |-> d] \in Requests
  BY DEF Requests
<1>3. ASSUME NEW d \in Devices, CreateDevice(c, d) \/ UpdateDevice(c, d) \/ DeleteDevice(c, d)
      PROVE  RequestsOK' /\ UNCHANGED <<tables, mqttVars>>
  BY <1>1, <1>2, <1>3, <1>d DEF CreateDevice, UpdateDevice, DeleteDevice
<1>4. ASSUME NEW t \in Topics, CreateSubscription(c, t)
      PROVE  RequestsOK' /\ UNCHANGED <<tables, mqttVars>>
  <2>1. [pc |-> "insertSubscription", topic |-> t] \in Requests
    BY DEF Requests
  <2> QED
    BY <1>4, <1>d, <2>1, GotoOK DEF CreateSubscription
<1>5. ASSUME NEW i \in Ids, NEW t \in Topics, UpdateSubscription(c, i, t)
      PROVE  RequestsOK' /\ UNCHANGED <<tables, mqttVars>>
  <2>1. CASE HasRow(i)
    <3> DEFINE q == [pc |-> "saveSubscription", id |-> i, topic |-> t, old |-> RowWith(i).topic]
    <3>1. q \in Requests
      BY <2>1, RowWithIs DEF Requests, TablesOK
    <3>2. q.id \in used
      BY <2>1, RowWithIs DEF TablesOK
    <3>3. Goto(c, q) /\ UNCHANGED <<tables, mqttVars>>
      BY <1>5, <2>1 DEF UpdateSubscription
    <3>4. q.pc = "saveSubscription"
      OBVIOUS
    <3> HIDE DEF q
    <3> QED
      BY <3>1, <3>2, <3>3, <3>4, GotoOK
  <2>2. CASE ~HasRow(i)
    BY <1>5, <2>2, <1>d, GotoOK DEF UpdateSubscription
  <2> QED
    BY <2>1, <2>2
<1>6. ASSUME NEW i \in Ids, DeleteSubscription(c, i)
      PROVE  RequestsOK' /\ UNCHANGED <<tables, mqttVars>>
  <2>1. HasRow(i) => [pc |-> "deleteSubscription", id |-> i, topic |-> RowWith(i).topic] \in Requests
    BY RowWithIs DEF Requests, TablesOK
  <2> QED
    BY <1>6, <1>d, <2>1, GotoOK DEF DeleteSubscription
<1> QED
  BY <1>3, <1>4, <1>5, <1>6 DEF RequestStarts, DeviceRequest, SubscriptionRequest

LEMMA RequestStepOK ==
  ASSUME RequestsOK, TablesOK, IdsLeft, NEW c \in Clients, RequestStep(c)
  PROVE  RequestsOK' /\ TablesOK'
<1> USE DEF tables, At
<1>d. Done \in Requests /\ Done.pc = "done"
  BY DEF Requests, Done
<1>q. req[c] \in Requests
  BY DEF RequestsOK
<1>s. ASSUME UNCHANGED <<devices, rows, used>> PROVE TablesOK'
  BY <1>s DEF TablesOK
<1>1. CASE InsertDevice(c) \/ SaveDevice(c)
  <2>1. req[c].sn \in Devices
    BY <1>1, <1>q, RequestFields DEF InsertDevice, SaveDevice
  <2>2. devices' = devices \cup {req[c].sn} /\ UNCHANGED <<rows, used>> /\ Goto(c, Done)
    BY <1>1 DEF InsertDevice, SaveDevice
  <2>3. TablesOK'
    BY <2>1, <2>2 DEF TablesOK
  <2> QED
    BY <2>2, <2>3, <1>d, GotoOK
<1>2. CASE FindDevice(c)
  <2>1. req[c].sn \in Devices
    BY <1>2, <1>q, RequestFields DEF FindDevice
  <2>2. [pc |-> "saveDevice", sn |-> req[c].sn] \in Requests
    BY <2>1 DEF Requests
  <2> QED
    BY <1>2, <2>2, <1>d, <1>s, GotoOK DEF FindDevice
<1>3. CASE ReadSubscriptions(c)
  <2>1. req[c].sn \in Devices /\ TopicsOf(OfDevice(req[c].sn)) \subseteq Topics
    BY <1>3, <1>q, RequestFields DEF ReadSubscriptions, TopicsOf, OfDevice, TablesOK
  <2>2. [pc |-> "deleteDevice", sn |-> req[c].sn,
         found |-> TopicsOf(OfDevice(req[c].sn))] \in Requests
    BY <2>1 DEF Requests
  <2> QED
    BY <1>3, <2>2, <1>s, GotoOK DEF ReadSubscriptions
<1>4. CASE DeleteDeviceRow(c)
  <2>1. UNION {Mqtt!Subscribing({t}) : t \in req[c].found} \subseteq Mqtt!Submittable
    BY SubscribingSubmittable
  <2>2. RequestsOK'
    BY <1>4, <2>1, GotoEnqueueOK DEF DeleteDeviceRow
  <2>3. rows' \subseteq rows /\ UNCHANGED used /\ devices' \subseteq Devices
    BY <1>4 DEF DeleteDeviceRow, TablesOK
  <2> QED
    BY <2>2, <2>3, FewerRows
<1>5. CASE InsertSubscription(c)
  <2>1. NewId \in Ids /\ NewId \notin used /\ req[c].topic \in Topics
    BY <1>5, <1>q, NewIdIsNew, RequestFields DEF InsertSubscription
  <2>2. CASE Admissible(NewId, req[c].topic)
    <3>1. /\ rows' = rows \cup {Row(NewId, req[c].topic)}
          /\ used' = used \cup {NewId}
          /\ Goto(c, [pc |-> "rereadCreated", id |-> NewId])
          /\ UNCHANGED devices
      BY <1>5, <2>2 DEF InsertSubscription
    <3>2. [pc |-> "rereadCreated", id |-> NewId] \in Requests
      BY <2>1 DEF Requests
    <3>3. RequestsOK'
      BY <3>1, <3>2, GotoOK
    <3>4. \A r \in rows : r.id # NewId /\ r.topic # req[c].topic
      BY <2>1, <2>2 DEF Admissible, TablesOK
    <3>5. TablesOK'
      BY <2>1, <3>1, <3>4 DEF TablesOK, Row
    <3> QED
      BY <3>3, <3>5
  <2>3. CASE ~Admissible(NewId, req[c].topic)
    BY <1>5, <2>3, <1>d, <1>s, GotoOK DEF InsertSubscription
  <2> QED
    BY <2>2, <2>3
<1>6. CASE RereadCreated(c)
  <2>1. (IF HasRow(req[c].id) THEN Mqtt!Subscribing({RowWith(req[c].id).topic}) ELSE {})
          \subseteq Mqtt!Submittable
    BY SubscribingSubmittable
  <2> QED
    BY <1>6, <2>1, <1>s, GotoEnqueueOK DEF RereadCreated
<1>7. CASE SaveSubscription(c)
  <2>1. req[c].id \in used /\ req[c].id \in Ids /\ req[c].topic \in Topics /\ req[c].old \in Topics
    BY <1>7, <1>q, RequestFields DEF SaveSubscription, RequestsOK
  <2>2. CASE Admissible(req[c].id, req[c].topic)
    <3>1. /\ rows' = {r \in rows : r.id # req[c].id} \cup {Row(req[c].id, req[c].topic)}
          /\ Goto(c, [pc |-> "rereadUpdated", id |-> req[c].id, old |-> req[c].old])
          /\ UNCHANGED <<devices, used>>
      BY <1>7, <2>2 DEF SaveSubscription
    <3>2. [pc |-> "rereadUpdated", id |-> req[c].id, old |-> req[c].old] \in Requests
      BY <2>1 DEF Requests
    <3>3. RequestsOK'
      BY <3>1, <3>2, GotoOK
    <3>4. \A r \in rows : r.id # req[c].id => r.topic # req[c].topic
      BY <2>2 DEF Admissible
    <3>5. TablesOK'
      BY <2>1, <3>1, <3>4 DEF TablesOK, Row
    <3> QED
      BY <3>3, <3>5
  <2>3. CASE ~Admissible(req[c].id, req[c].topic)
    BY <1>7, <2>3, <1>d, <1>s, GotoOK DEF SaveSubscription
  <2> QED
    BY <2>2, <2>3
<1>8. CASE RereadUpdated(c)
  <2>1. req[c].old \in Topics
    BY <1>8, <1>q, RequestFields DEF RereadUpdated
  <2>2. (IF HasRow(req[c].id)
         THEN {Mqtt!UnsubscribeJob(req[c].old)} \cup Mqtt!Subscribing({RowWith(req[c].id).topic})
         ELSE {}) \subseteq Mqtt!Submittable
    BY <2>1, SubscribingSubmittable DEF Mqtt!Submittable, Topics
  <2> QED
    BY <1>8, <2>2, <1>s, GotoEnqueueOK DEF RereadUpdated
<1>9. CASE DeleteSubscriptionRow(c)
  <2>1. RequestsOK'
    BY <1>9, SubscribingSubmittable, GotoEnqueueOK DEF DeleteSubscriptionRow
  <2>2. rows' \subseteq rows /\ UNCHANGED used /\ devices' \subseteq Devices
    BY <1>9 DEF DeleteSubscriptionRow, TablesOK
  <2> QED
    BY <2>1, <2>2, FewerRows
<1>10. CASE Enqueue(c)
  <2>1. req[c].out \subseteq Mqtt!Submittable
    BY <1>10 DEF Enqueue, RequestsOK
  <2>2. PICK j \in req[c].out : GotoEnqueue(c, req[c].out \ {j})
    BY <1>10 DEF Enqueue
  <2>3. UNCHANGED <<devices, rows, used>>
    BY <1>10 DEF Enqueue
  <2> QED
    BY <2>1, <2>2, <2>3, <1>s, GotoEnqueueOK
<1> QED
  BY <1>1, <1>2, <1>3, <1>4, <1>5, <1>6, <1>7, <1>8, <1>9, <1>10 DEF RequestStep

(* A crash ends the requests in flight. *)
LEMMA RestartOK ==
  ASSUME RequestsOK, TablesOK, Restart
  PROVE  RequestsOK' /\ TablesOK'
<1>1. Done \in Requests /\ Done.pc = "done" /\ Fresh \in Requests /\ Fresh.pc = "new"
  BY DEF Requests, Done, Fresh
<1>2. req' = [c \in Clients |-> IF req[c] = Fresh THEN Fresh ELSE Done]
  BY DEF Restart
<1>3. \A c \in Clients : req'[c] \in {Fresh, Done}
  BY <1>2
<1>4. req' \in [Clients -> Requests]
  BY <1>1, <1>2
<1>5. RequestsOK'
  BY <1>1, <1>3, <1>4 DEF RequestsOK, At
<1>6. TablesOK'
  BY DEF Restart, tables, TablesOK
<1> QED
  BY <1>5, <1>6

-----------------------------------------------------------------------------
(* The uuids *)

LEMMA IdsLeftIfGoingOn ==
  ASSUME IdsLeft, TablesOK, UNCHANGED used, Given \subseteq Given'
  PROVE  IdsLeft'
<1>1. IsFiniteSet(used) /\ Cardinality(used) \in Nat
  BY EnoughIds, FS_Subset, FS_CardinalityType DEF TablesOK
<1>2. IsFiniteSet(Given') /\ Cardinality(Given') \in Nat
  BY EnoughIds, FS_Subset, FS_CardinalityType DEF Given
<1>3. Cardinality(Given) <= Cardinality(Given') /\ Cardinality(Given) \in Nat
  BY <1>2, FS_Subset, FS_CardinalityType
<1> QED
  BY <1>1, <1>2, <1>3 DEF IdsLeft

LEMMA IdsLeftInsert ==
  ASSUME IdsLeft, TablesOK, RequestsOK, NEW c \in Clients, InsertSubscription(c)
  PROVE  IdsLeft'
<1>1. CASE UNCHANGED used
  <2>1. Given \subseteq Given'
    BY DEF RequestsOK, InsertSubscription, At, Goto, Given, Done
  <2> QED
    BY <1>1, <2>1, IdsLeftIfGoingOn
<1>2. CASE used' = used \cup {NewId}
  <2>1. IsFiniteSet(used) /\ Cardinality(used) \in Nat
    BY EnoughIds, FS_Subset, FS_CardinalityType DEF TablesOK
  <2>2. Cardinality(used') <= Cardinality(used) + 1 /\ Cardinality(used') \in Nat
    <3>1. Cardinality(used \cup {NewId}) <= Cardinality(used) + 1
      BY <2>1, FS_AddElement
    <3>2. IsFiniteSet(used \cup {NewId})
      BY <2>1, FS_AddElement
    <3> QED
      BY <1>2, <3>1, <3>2, FS_CardinalityType
  <2>3. Given' = Given \cup {c} /\ c \notin Given
    BY DEF RequestsOK, InsertSubscription, At, Goto, Given, Done
  <2>4. IsFiniteSet(Given) /\ Cardinality(Given) \in Nat
    BY EnoughIds, FS_Subset, FS_CardinalityType DEF Given
  <2>5. Cardinality(Given') = Cardinality(Given) + 1
    BY <2>3, <2>4, FS_AddElement
  <2> QED
    BY <2>1, <2>2, <2>4, <2>5 DEF IdsLeft
<1> QED
  BY <1>1, <1>2 DEF InsertSubscription

LEMMA IdsLeftNext ==
  ASSUME IdsLeft, TablesOK, RequestsOK, [Next]_vars
  PROVE  IdsLeft'
<1>1. ASSUME NEW c \in Clients, RequestStarts(c) PROVE IdsLeft'
  <2>1. UNCHANGED used /\ (\E q : Goto(c, q)) /\ req[c] = Fresh
    BY <1>1 DEF RequestStarts, DeviceRequest, SubscriptionRequest, CreateDevice, UpdateDevice,
                DeleteDevice, CreateSubscription, UpdateSubscription, DeleteSubscription, Starts,
                tables
  <2>2. Given \subseteq Given'
    BY <2>1 DEF Goto, Given, Fresh, RequestsOK
  <2> QED
    BY <2>1, <2>2, IdsLeftIfGoingOn
<1>2. ASSUME NEW c \in Clients, RequestStep(c), ~InsertSubscription(c) PROVE IdsLeft'
  <2>1. /\ UNCHANGED used
        /\ \E q : Goto(c, q) /\ q.pc \notin {"new", "insertSubscription"}
    <3>1. ASSUME NEW out, GotoEnqueue(c, out)
          PROVE  \E q : Goto(c, q) /\ q.pc \notin {"new", "insertSubscription"}
      <4> DEFINE q == IF out = {} THEN Done ELSE [pc |-> "enqueue", out |-> out]
      <4>1. q.pc \notin {"new", "insertSubscription"}
        BY DEF Done
      <4>2. Goto(c, q)
        BY <3>1 DEF GotoEnqueue
      <4> QED
        BY <4>1, <4>2
    <3>2. CASE InsertDevice(c) \/ SaveDevice(c)
      BY <3>2 DEF InsertDevice, SaveDevice, Done
    <3>3. CASE FindDevice(c)
      BY <3>3 DEF FindDevice, Done, tables
    <3>4. CASE ReadSubscriptions(c)
      BY <3>4 DEF ReadSubscriptions, tables
    <3>5. CASE SaveSubscription(c)
      BY <3>5 DEF SaveSubscription, Done
    <3>6. CASE \/ DeleteDeviceRow(c) \/ RereadCreated(c) \/ RereadUpdated(c)
               \/ DeleteSubscriptionRow(c) \/ Enqueue(c)
      BY <3>1, <3>6 DEF DeleteDeviceRow, RereadCreated, RereadUpdated, DeleteSubscriptionRow,
                        Enqueue, tables
    <3> QED
      BY <1>2, <3>2, <3>3, <3>4, <3>5, <3>6 DEF RequestStep
  <2>2. Given \subseteq Given'
    BY <2>1 DEF Goto, Given, RequestsOK
  <2> QED
    BY <2>1, <2>2, IdsLeftIfGoingOn
<1>3. CASE Restart
  <2>1. UNCHANGED used /\ Given \subseteq Given'
    BY <1>3 DEF Restart, tables, Given, Fresh, Done
  <2> QED
    BY <2>1, IdsLeftIfGoingOn
<1>4. CASE UNCHANGED <<used, req>>
  BY <1>4, IdsLeftIfGoingOn DEF Given
<1>5. (Quiet(SyncRead) \/ Session(Mqtt!SessionStep) \/ RefreshRead \/ RefreshWrite
         \/ UNCHANGED vars) => UNCHANGED <<used, req>>
  BY DEF Quiet, Session, SyncRead, RefreshRead, RefreshWrite, vars, tables
<1> QED
  BY <1>1, <1>2, <1>3, <1>4, <1>5, IdsLeftInsert DEF Next, Quiet

-----------------------------------------------------------------------------
(* The session: every step here is one of its own or leaves it alone *)

LEMMA RequestStepSession ==
  ASSUME RequestsOK, NEW c \in Clients, RequestStep(c)
  PROVE  [Mqtt!Next]_(Mqtt!vars)
<1>1. CASE Enqueue(c)
  <2>1. PICK j \in req[c].out : Mqtt!Submit(j)
    BY <1>1 DEF Enqueue
  <2>2. j \in Mqtt!Submittable
    BY <1>1 DEF Enqueue, RequestsOK
  <2> QED
    BY <2>1, <2>2 DEF Mqtt!Next
<1>2. CASE ~Enqueue(c)
  <2>1. UNCHANGED mqttVars
    BY <1>2 DEF RequestStep, InsertDevice, FindDevice, SaveDevice, ReadSubscriptions,
                DeleteDeviceRow, InsertSubscription, RereadCreated, SaveSubscription,
                RereadUpdated, DeleteSubscriptionRow
  <2> QED
    BY <2>1 DEF mqttVars, Mqtt!vars
<1> QED
  BY <1>1, <1>2

LEMMA SessionStep ==
  ASSUME RequestsOK, TablesOK, [Next]_vars
  PROVE  [Mqtt!Next]_(Mqtt!vars)
<1>1. ASSUME NEW c \in Clients, RequestStarts(c) PROVE UNCHANGED Mqtt!vars
  BY <1>1, RequestStartsOK DEF mqttVars, Mqtt!vars
<1>2. CASE SyncRead
  <2>1. TopicsOf(rows) \in SUBSET Mqtt!Topics
    BY DEF TopicsOf, TablesOK, Topics
  <2> QED
    BY <1>2, <2>1 DEF SyncRead, Mqtt!Next
<1>3. CASE Mqtt!SessionStep \/ Restart
  BY <1>3 DEF Restart, Mqtt!Next
<1>4. CASE RefreshRead \/ RefreshWrite \/ UNCHANGED vars
  BY <1>4 DEF RefreshRead, RefreshWrite, vars, mqttVars, Mqtt!vars
<1> QED
  BY <1>1, <1>2, <1>3, <1>4, RequestStepSession DEF Next, Quiet, Session

-----------------------------------------------------------------------------
(* The refresh job *)

LEMMA RefreshOK ==
  ASSUME shown \in BOOLEAN, reading \in {{}, {TRUE}, {FALSE}}, [Next]_vars
  PROVE  shown' \in BOOLEAN /\ reading' \in {{}, {TRUE}, {FALSE}}
<1>1. CASE RefreshRead
  <2>1. (conn = "up") \in BOOLEAN
    OBVIOUS
  <2>2. (conn = "up") = TRUE \/ (conn = "up") = FALSE
    OBVIOUS
  <2> QED
    BY <1>1, <2>2, Zenon DEF RefreshRead
<1>2. CASE RefreshWrite
  <2>1. shown' \in reading /\ reading' = {}
    BY <1>2 DEF RefreshWrite
  <2>2. shown' \in {} \/ shown' \in {TRUE} \/ shown' \in {FALSE}
    BY <2>1, Zenon
  <2>3. shown' = TRUE \/ shown' = FALSE
    BY <2>2, Zenon
  <2> QED
    BY <2>1, <2>3, Zenon
<1>3. CASE Restart
  BY <1>3, Zenon DEF Restart
<1>4. CASE UNCHANGED refresh
  BY <1>4, Zenon DEF refresh
<1> QED
  BY <1>1, <1>2, <1>3, <1>4, Zenon DEF Next, Quiet, Session, vars

-----------------------------------------------------------------------------
(* The invariant *)

LEMMA InitInv == Init => Inv
<1> SUFFICES ASSUME Init PROVE Inv
  OBVIOUS
<1>1. Proofs!Inv /\ Mqtt!TypeOK
  BY SessionInv DEF Init
<1>2. RequestsOK
  BY DEF Init, RequestsOK, At, Fresh, Requests
<1>3. \E i \in Ids : TRUE
  <2>1. Ids # {}
    BY EnoughIds, FS_EmptySet, FS_CardinalityType
  <2> QED
    BY <2>1
<1>4. (CHOOSE i \in Ids : TRUE) \in Ids
  BY <1>3
<1>5. ASSUME rows = {} PROVE TablesOK /\ used = {}
  BY <1>5 DEF Init, TablesOK
<1>6. ASSUME NEW i \in Ids, NEW t \in Topics, rows = {Row(i, t)} PROVE TablesOK /\ used = {i}
  BY <1>6 DEF Init, TablesOK, Row
<1>7. TablesOK /\ (used = {} \/ \E i \in Ids : used = {i})
  BY <1>4, <1>5, <1>6 DEF Init, TablesOK
<1>8. IdsLeft
  <2>1. Cardinality(used) <= 1 /\ Cardinality(used) \in Nat
    BY <1>7, FS_EmptySet, FS_Singleton
  <2>2. IsFiniteSet(Given)
    BY EnoughIds, FS_Subset DEF Given
  <2>3. Cardinality(Given) \in Nat
    BY <2>2, FS_CardinalityType
  <2> QED
    BY <2>1, <2>3 DEF IdsLeft
<1>9. shown \in BOOLEAN /\ reading \in {{}, {TRUE}, {FALSE}}
  BY DEF Init
<1> QED
  BY <1>1, <1>2, <1>7, <1>8, <1>9 DEF Inv, TypeOK, RequestsOK, TablesOK

LEMMA NextInv == Inv /\ [Next]_vars => Inv'
<1> SUFFICES ASSUME Inv, [Next]_vars PROVE Inv'
  OBVIOUS
<1> USE DEF Inv
<1>1. RequestsOK' /\ TablesOK'
  <2>1. CASE UNCHANGED <<tables, req>>
    BY <2>1 DEF tables, RequestsOK, TablesOK, At
  <2>2. ASSUME NEW c \in Clients, RequestStarts(c) PROVE RequestsOK' /\ TablesOK'
    BY <2>2, RequestStartsOK DEF tables, TablesOK
  <2>3. ASSUME NEW c \in Clients, RequestStep(c) PROVE RequestsOK' /\ TablesOK'
    BY <2>3, RequestStepOK
  <2>4. CASE Restart
    BY <2>4, RestartOK
  <2> QED
    BY <2>1, <2>2, <2>3, <2>4 DEF Next, Quiet, Session, SyncRead, RefreshRead, RefreshWrite, vars
<1>2. IdsLeft'
  BY IdsLeftNext
<1>3. Proofs!Inv'
  BY SessionStep, SessionInv
<1>4. (Mqtt!TypeOK)'
  BY <1>3, SessionInv
<1>5. shown' \in BOOLEAN /\ reading' \in {{}, {TRUE}, {FALSE}}
  BY RefreshOK DEF TypeOK
<1> QED
  BY <1>1, <1>2, <1>3, <1>4, <1>5 DEF TypeOK, RequestsOK, TablesOK

LEMMA InvHolds == Spec => []Inv
  BY InitInv, NextInv, PTL DEF Spec

-----------------------------------------------------------------------------
(* The theorems *)

(* Requests, tables, refresh job and session keep their types; in particular *)
(* a request that inserts a row finds a new uuid, and every job belongs to a *)
(* state the session has.                                                    *)
THEOREM TypeCorrect == Spec => []TypeOK
<1>1. Inv => TypeOK
  BY DEF Inv
<1> QED
  BY <1>1, InvHolds, PTL

(* Whatever requests, crashes and losses of the connection do together, what *)
(* they do to the session is what EcoFlowMqtt allows: a request only enqueues *)
(* jobs of one topic, and only jobs and callbacks touch the connection, the  *)
(* broker and subscriptions.values.                                          *)
THEOREM ImplementsSessionHolds == Spec => ImplementsSession
<1>1. Init => Mqtt!Init
  BY DEF Init
<1>2. Inv /\ [Next]_vars => [Mqtt!Next]_(Mqtt!vars)
  BY SessionStep DEF Inv
<1> QED
  BY <1>1, <1>2, InvHolds, PTL DEF Spec, ImplementsSession, Mqtt!Spec

(* When a lost session's callback runs before the reconnect, the set of      *)
(* subscriptions is exactly what the broker delivers while the session is up. *)
THEOREM MirroredHolds == Spec => []Mirrored
<1>1. Inv => Mirrored
  BY SessionInv DEF Inv, Mirrored
<1> QED
  BY <1>1, InvHolds, PTL

-----------------------------------------------------------------------------
(* What is wanted is promised *)

(* The job of one quota topic, the only kind a request enqueues unless it    *)
(* updates a subscription. *)
Singles == {Mqtt!SubscribeJob({t}) : t \in Mqtt!Quota}

(* While nothing updates a subscription, nothing unsubscribes. *)
NoUpdate ==
  \A c \in Clients :
    /\ ~At(c, "saveSubscription") /\ ~At(c, "rereadUpdated")
    /\ At(c, "enqueue") => req[c].out \subseteq Singles

NoUnsubscribe ==
  \A j \in Mqtt!TopicJobs : j.op = "unsubscribe" => jobs[j] = 0

(* The two halves of Promised. *)
SessionPromises(t) ==
  \/ connCbs > 0
  \/ jobs[Mqtt!SyncJob] > 0
  \/ \E j \in Mqtt!TopicJobs : j.op = "subscribe" /\ t \in j.todo /\ jobs[j] > 0

RequestPromises(t) ==
  \E c \in Clients :
    \/ At(c, "rereadCreated") /\ Row(req[c].id, t) \in rows
    \/ At(c, "enqueue") /\ Mqtt!SubscribeJob({t}) \in req[c].out

Delivered == NoUpdate /\ NoUnsubscribe /\ WantedIsPromised

(* The jobs of topics, by operation, and the others. *)
LEMMA TopicJobFields ==
  ASSUME NEW j \in Mqtt!TopicJobs
  PROVE  /\ j.op \in {"subscribe", "unsubscribe"}
         /\ j.op = "subscribe" => j.todo \subseteq Mqtt!Quota
         /\ j # Mqtt!SyncJob /\ j # Mqtt!ConnectJob
         /\ j \in Mqtt!Jobs
<1>1. ASSUME \E S \in (SUBSET Mqtt!Quota) \ {{}} : j = Mqtt!Job("subscribe", S, {})
      PROVE  j.op = "subscribe" /\ j.todo \subseteq Mqtt!Quota
  BY <1>1, JobFields
<1>2. ASSUME \E S \in SUBSET Mqtt!Quota : \E t \in S : j = Mqtt!Job("subscribe", S, {t})
      PROVE  j.op = "subscribe" /\ j.todo \subseteq Mqtt!Quota
  BY <1>2, JobFields
<1>3. ASSUME \E t \in Mqtt!Topics, R \in {{}} \cup {{u} : u \in Mqtt!Topics} :
               j = Mqtt!Job("unsubscribe", {t}, R)
      PROVE  j.op = "unsubscribe"
  BY <1>3, JobFields
<1>4. \/ j.op = "subscribe" /\ j.todo \subseteq Mqtt!Quota
      \/ j.op = "unsubscribe"
  BY <1>1, <1>2, <1>3 DEF Mqtt!TopicJobs
<1>5. Mqtt!SyncJob.op = "sync" /\ Mqtt!ConnectJob.op = "connect"
  BY JobFields DEF Mqtt!SyncJob, Mqtt!ConnectJob
<1> QED
  BY <1>4, <1>5 DEF Mqtt!Jobs

(* Jobs that subscribe quota topics are jobs of the session. *)
LEMMA SubscribeJobs ==
  ASSUME NEW S \in SUBSET Mqtt!Quota
  PROVE  /\ S # {} => Mqtt!Job("subscribe", S, {}) \in Mqtt!TopicJobs
         /\ \A t \in S : Mqtt!Job("subscribe", S, {t}) \in Mqtt!TopicJobs
<1>1. ASSUME S # {} PROVE Mqtt!Job("subscribe", S, {}) \in Mqtt!TopicJobs
  <2>1. S \in (SUBSET Mqtt!Quota) \ {{}}
    BY <1>1
  <2> QED
    BY <2>1 DEF Mqtt!TopicJobs
<1>2. ASSUME NEW t \in S PROVE Mqtt!Job("subscribe", S, {t}) \in Mqtt!TopicJobs
  <2>1. Mqtt!Job("subscribe", S, {t}) \in {Mqtt!Job("subscribe", S, {u}) : u \in S}
    OBVIOUS
  <2>2. Mqtt!Job("subscribe", S, {t})
          \in UNION {{Mqtt!Job("subscribe", Q, {u}) : u \in Q} : Q \in SUBSET Mqtt!Quota}
    BY <2>1
  <2> QED
    BY <2>2 DEF Mqtt!TopicJobs
<1> QED
  BY <1>1, <1>2

(* A job that makes a step: the others stay, and what it becomes is queued. *)
LEMMA ContinueCounts ==
  ASSUME jobs \in [Mqtt!Jobs -> Nat], NEW j \in Mqtt!Jobs, NEW next, Mqtt!Continue(j, next),
         NEW k \in Mqtt!Jobs
  PROVE  /\ jobs[j] > 0
         /\ k # j => jobs'[k] >= jobs[k]
         /\ k \in next => jobs'[k] > 0
         /\ k \notin next /\ jobs[k] = 0 => jobs'[k] = 0
<1>1. jobs[j] \in Nat /\ jobs[k] \in Nat /\ jobs[j] > 0
  BY DEF Mqtt!Continue
<1>2. jobs'[k] = (IF k = j THEN jobs[k] - 1 ELSE jobs[k]) + (IF k \in next THEN 1 ELSE 0)
  BY DEF Mqtt!Continue
<1> QED
  BY <1>1, <1>2

LEMMA EnqueueCounts ==
  ASSUME jobs \in [Mqtt!Jobs -> Nat], NEW j \in Mqtt!Jobs, Mqtt!Enqueue(j),
         NEW k \in Mqtt!Jobs
  PROVE  /\ jobs'[j] > 0
         /\ jobs'[k] >= jobs[k]
         /\ k # j => jobs'[k] = jobs[k]
<1>1. jobs' = [m \in Mqtt!Jobs |-> IF m = j THEN jobs[m] + 1 ELSE jobs[m]]
  BY DEF Mqtt!Enqueue
<1>2. jobs[j] \in Nat /\ jobs[k] \in Nat
  OBVIOUS
<1> QED
  BY <1>1, <1>2

-----------------------------------------------------------------------------
(* A job that subscribes keeps its promises: a topic it is done with is     *)
(* delivered.                                                               *)
LEMMA JobKeepsPromise ==
  ASSUME TypeOK, NoUnsubscribe, Mirrored, LateCallbacks = FALSE, Faults = FALSE,
         NEW j \in Mqtt!TopicJobs, Mqtt!JobStep(j),
         conn = "up", NEW u, u \in broker \/ SessionPromises(u)
  PROVE  u \in broker' \/ SessionPromises(u)'
<1>j. jobs \in [Mqtt!Jobs -> Nat] /\ j \in Mqtt!Jobs
  BY TopicJobFields DEF TypeOK, Mqtt!TypeOK
<1>m. values = broker
  BY DEF Mirrored, Mqtt!Mirrored
<1>1. PICK t \in j.todo :
        \/ Mqtt!TestConnected(j, t)
        \/ Mqtt!Subscribe(j, t) \/ Mqtt!SubscribeFails(j, t)
        \/ Mqtt!Unsubscribe(j, t) \/ Mqtt!UnsubscribeFails(j, t)
  BY DEF Mqtt!JobStep
<1>2. PICK next : Mqtt!Continue(j, next)
  BY <1>1 DEF Mqtt!TestConnected, Mqtt!Subscribe, Mqtt!SubscribeFails, Mqtt!Unsubscribe,
              Mqtt!UnsubscribeFails
<1>3. j.op = "subscribe" /\ j.todo \subseteq Mqtt!Quota
  <2>1. jobs[j] > 0
    BY <1>j, <1>2, ContinueCounts
  <2> QED
    BY <2>1, TopicJobFields DEF NoUnsubscribe
<1>4. UNCHANGED connCbs /\ broker \subseteq broker'
  BY <1>1, <1>3 DEF Mqtt!TestConnected, Mqtt!Subscribe, Mqtt!SubscribeFails, Mqtt!Unsubscribe,
              Mqtt!UnsubscribeFails
<1>5. ASSUME NEW k \in Mqtt!TopicJobs, k # j, k.op = "subscribe", u \in k.todo, jobs[k] > 0
      PROVE  SessionPromises(u)'
  <2>1. jobs'[k] >= jobs[k] /\ jobs'[k] \in Nat /\ jobs[k] \in Nat
    BY <1>j, <1>2, <1>5, ContinueCounts, TopicJobFields DEF Mqtt!Continue
  <2> QED
    BY <1>5, <2>1 DEF SessionPromises
<1>6. ASSUME jobs[Mqtt!SyncJob] > 0 PROVE SessionPromises(u)'
  <2>1. Mqtt!SyncJob \in Mqtt!Jobs /\ Mqtt!SyncJob # j
    BY TopicJobFields DEF Mqtt!Jobs
  <2>2. jobs'[Mqtt!SyncJob] >= jobs[Mqtt!SyncJob] /\ jobs[Mqtt!SyncJob] \in Nat
        /\ jobs'[Mqtt!SyncJob] \in Nat
    BY <1>j, <1>2, <2>1, ContinueCounts DEF Mqtt!Continue
  <2> QED
    BY <1>6, <2>2 DEF SessionPromises
<1>7. ASSUME u \in j.todo PROVE u \in broker' \/ SessionPromises(u)'
  <2>1. CASE Mqtt!TestConnected(j, t)
    <3> DEFINE k == Mqtt!Job("subscribe", j.todo, {t})
    <3>1. k \in Mqtt!TopicJobs /\ k.op = "subscribe" /\ k.todo = j.todo /\ k \in Mqtt!Jobs
      <4>1. k \in Mqtt!TopicJobs
        BY <1>3, SubscribeJobs
      <4>2. k.op = "subscribe" /\ k.todo = j.todo
        BY JobFields
      <4> HIDE DEF k
      <4> QED
        BY <4>1, <4>2, TopicJobFields
    <3>2. Mqtt!Continue(j, {k})
      BY <2>1, <1>3 DEF Mqtt!TestConnected
    <3> HIDE DEF k
    <3>3. jobs'[k] > 0
      BY <1>j, <3>1, <3>2, ContinueCounts
    <3> QED
      BY <1>7, <3>1, <3>3 DEF SessionPromises
  <2>2. CASE Mqtt!Subscribe(j, t) \/ Mqtt!SubscribeFails(j, t)
    <3>1. t \in broker' /\ Mqtt!Continue(j, Mqtt!Without(j, t))
      BY <2>2, <1>m DEF Mqtt!Subscribe, Mqtt!SubscribeFails
    <3>2. CASE u = t
      BY <3>1, <3>2
    <3>3. CASE u # t
      <4> DEFINE k == Mqtt!Job("subscribe", j.todo \ {t}, {})
      <4>1. u \in j.todo \ {t}
        BY <1>7, <3>3
      <4>2. k \in Mqtt!TopicJobs /\ k.op = "subscribe" /\ u \in k.todo /\ k \in Mqtt!Jobs
        BY <1>3, <4>1, SubscribeJobs, JobFields, TopicJobFields
      <4>3. k \in Mqtt!Without(j, t)
        BY <1>3, <4>1 DEF Mqtt!Without
      <4> HIDE DEF k
      <4>4. jobs'[k] > 0
        BY <1>j, <3>1, <4>2, <4>3, ContinueCounts
      <4> QED
        BY <4>2, <4>4 DEF SessionPromises
    <3> QED
      BY <3>2, <3>3
  <2>3. CASE Mqtt!Unsubscribe(j, t) \/ Mqtt!UnsubscribeFails(j, t)
    BY <2>3, <1>3 DEF Mqtt!Unsubscribe, Mqtt!UnsubscribeFails
  <2> QED
    BY <1>1, <2>1, <2>2, <2>3
<1>8. CASE connCbs > 0
  BY <1>4, <1>8 DEF SessionPromises
<1> QED
  BY <1>4, <1>5, <1>6, <1>7, <1>8 DEF SessionPromises

-----------------------------------------------------------------------------
(* Nothing unsubscribes *)

LEMMA SubscribingSingles ==
  ASSUME NEW t PROVE Mqtt!Subscribing({t}) \subseteq Singles
  BY SubscribingOne DEF Singles

LEMMA GotoNoUpdate ==
  ASSUME RequestsOK, NoUpdate, NEW c \in Clients, NEW q, Goto(c, q),
         q.pc \notin {"saveSubscription", "rereadUpdated"},
         q.pc = "enqueue" => q.out \subseteq Singles
  PROVE  NoUpdate'
<1>1. \A d \in Clients : req'[d] = IF d = c THEN q ELSE req[d]
  BY DEF Goto, RequestsOK
<1>2. Singles' = Singles
  OBVIOUS
<1> QED
  BY <1>1 DEF NoUpdate, At

LEMMA GotoEnqueueNoUpdate ==
  ASSUME RequestsOK, NoUpdate, NEW c \in Clients, NEW out \in SUBSET Singles, GotoEnqueue(c, out)
  PROVE  NoUpdate'
<1> DEFINE q == IF out = {} THEN Done ELSE [pc |-> "enqueue", out |-> out]
<1>1. /\ q.pc \notin {"saveSubscription", "rereadUpdated"}
      /\ q.pc = "enqueue" => q.out \subseteq Singles
  BY DEF Done
<1>2. Goto(c, q)
  BY DEF GotoEnqueue
<1> HIDE DEF q
<1> QED
  BY <1>1, <1>2, GotoNoUpdate

LEMMA NoUpdateNext ==
  ASSUME RequestsOK, NoUpdate, "updateSubscription" \notin Operations, [Next]_vars
  PROVE  NoUpdate'
<1>1. ASSUME NEW c \in Clients, RequestStarts(c) PROVE NoUpdate'
  <2>1. \E q : Goto(c, q) /\ q.pc \notin {"saveSubscription", "rereadUpdated", "enqueue"}
    <3>1. CASE DeviceRequest(c)
      BY <3>1 DEF DeviceRequest, CreateDevice, UpdateDevice, DeleteDevice, Done
    <3>2. ASSUME NEW t \in Topics, CreateSubscription(c, t)
          PROVE  \E q : Goto(c, q) /\ q.pc \notin {"saveSubscription", "rereadUpdated", "enqueue"}
      BY <3>2 DEF CreateSubscription, Done
    <3>3. ASSUME NEW i \in Ids, NEW t \in Topics, UpdateSubscription(c, i, t) PROVE FALSE
      BY <3>3 DEF UpdateSubscription, Starts
    <3>4. ASSUME NEW i \in Ids, DeleteSubscription(c, i)
          PROVE  \E q : Goto(c, q) /\ q.pc \notin {"saveSubscription", "rereadUpdated", "enqueue"}
      BY <3>4 DEF DeleteSubscription, Done
    <3> QED
      BY <1>1, <3>1, <3>2, <3>3, <3>4 DEF RequestStarts, SubscriptionRequest
  <2> QED
    BY <2>1, GotoNoUpdate
<1>2. ASSUME NEW c \in Clients, RequestStep(c) PROVE NoUpdate'
  <2>1. CASE InsertDevice(c) \/ SaveDevice(c)
    BY <2>1, GotoNoUpdate DEF InsertDevice, SaveDevice, Done
  <2>2. CASE FindDevice(c)
    BY <2>2, GotoNoUpdate DEF FindDevice, Done
  <2>3. CASE ReadSubscriptions(c)
    BY <2>3, GotoNoUpdate DEF ReadSubscriptions
  <2>4. CASE DeleteDeviceRow(c)
    <3>1. UNION {Mqtt!Subscribing({t}) : t \in req[c].found} \subseteq Singles
      BY SubscribingSingles
    <3> QED
      BY <2>4, <3>1, GotoEnqueueNoUpdate DEF DeleteDeviceRow
  <2>5. CASE InsertSubscription(c)
    BY <2>5, GotoNoUpdate DEF InsertSubscription, Done
  <2>6. CASE RereadCreated(c)
    <3>1. (IF HasRow(req[c].id) THEN Mqtt!Subscribing({RowWith(req[c].id).topic}) ELSE {})
            \subseteq Singles
      BY SubscribingSingles
    <3> QED
      BY <2>6, <3>1, GotoEnqueueNoUpdate DEF RereadCreated
  <2>7. CASE SaveSubscription(c) \/ RereadUpdated(c)
    BY <2>7 DEF SaveSubscription, RereadUpdated, NoUpdate
  <2>8. CASE DeleteSubscriptionRow(c)
    BY <2>8, SubscribingSingles, GotoEnqueueNoUpdate DEF DeleteSubscriptionRow
  <2>9. CASE Enqueue(c)
    <3>1. PICK j \in req[c].out : GotoEnqueue(c, req[c].out \ {j})
      BY <2>9 DEF Enqueue
    <3>2. req[c].out \ {j} \subseteq Singles
      BY <2>9 DEF Enqueue, NoUpdate
    <3> QED
      BY <3>1, <3>2, GotoEnqueueNoUpdate
  <2> QED
    BY <1>2, <2>1, <2>2, <2>3, <2>4, <2>5, <2>6, <2>7, <2>8, <2>9 DEF RequestStep
<1>3. CASE Restart
  <2>1. \A c \in Clients : req'[c] \in {Fresh, Done}
    BY <1>3 DEF Restart
  <2> QED
    BY <2>1 DEF NoUpdate, At, Fresh, Done
<1>4. CASE UNCHANGED req
  BY <1>4 DEF NoUpdate, At
<1> QED
  BY <1>1, <1>2, <1>3, <1>4
  DEF Next, Quiet, Session, SyncRead, RefreshRead, RefreshWrite, vars

(* A job becomes jobs of its own operation only. *)
LEMMA ContinueNoUnsubscribe ==
  ASSUME jobs \in [Mqtt!Jobs -> Nat], NoUnsubscribe,
         NEW j \in Mqtt!Jobs, NEW next, Mqtt!Continue(j, next),
         \A k \in next : k.op # "unsubscribe"
  PROVE  NoUnsubscribe'
<1>1. ASSUME NEW k \in Mqtt!TopicJobs, k.op = "unsubscribe" PROVE jobs'[k] = 0
  <2>1. k \in Mqtt!Jobs /\ k \notin next /\ jobs[k] = 0
    BY <1>1, TopicJobFields DEF NoUnsubscribe
  <2> QED
    BY <2>1, ContinueCounts
<1> QED
  BY <1>1 DEF NoUnsubscribe

LEMMA JobStepNoUnsubscribe ==
  ASSUME jobs \in [Mqtt!Jobs -> Nat], NoUnsubscribe,
         NEW j \in Mqtt!TopicJobs, Mqtt!JobStep(j)
  PROVE  NoUnsubscribe'
<1>j. j \in Mqtt!Jobs
  BY TopicJobFields
<1>1. ASSUME NEW next, Mqtt!Continue(j, next) PROVE j.op # "unsubscribe"
  <2>1. jobs[j] > 0
    BY <1>1, <1>j, ContinueCounts
  <2> QED
    BY <2>1 DEF NoUnsubscribe
<1>2. PICK t \in j.todo : \/ Mqtt!Continue(j, Mqtt!Without(j, t))
                          \/ Mqtt!Continue(j, {Mqtt!Job(j.op, j.todo, {t})})
  BY DEF Mqtt!JobStep, Mqtt!TestConnected, Mqtt!Subscribe, Mqtt!SubscribeFails,
         Mqtt!Unsubscribe, Mqtt!UnsubscribeFails
<1>3. j.op # "unsubscribe"
  BY <1>1, <1>2
<1>4. \A k \in Mqtt!Without(j, t) : k.op # "unsubscribe"
  BY <1>3, JobFields DEF Mqtt!Without
<1>5. \A k \in {Mqtt!Job(j.op, j.todo, {t})} : k.op # "unsubscribe"
  BY <1>3, JobFields
<1> QED
  BY <1>j, <1>2, <1>4, <1>5, ContinueNoUnsubscribe

LEMMA EnqueueNoUnsubscribe ==
  ASSUME jobs \in [Mqtt!Jobs -> Nat], NoUnsubscribe,
         NEW j \in Mqtt!Jobs, j.op # "unsubscribe", Mqtt!Enqueue(j)
  PROVE  NoUnsubscribe'
<1>1. ASSUME NEW k \in Mqtt!TopicJobs, k.op = "unsubscribe" PROVE jobs'[k] = 0
  <2>1. k \in Mqtt!Jobs /\ k # j /\ jobs[k] = 0
    BY <1>1, TopicJobFields DEF NoUnsubscribe
  <2> QED
    BY <2>1, EnqueueCounts
<1> QED
  BY <1>1 DEF NoUnsubscribe

LEMMA NoUnsubscribeNext ==
  ASSUME Inv, NoUpdate, NoUnsubscribe, [Next]_vars
  PROVE  NoUnsubscribe'
<1>j. /\ jobs \in [Mqtt!Jobs -> Nat]
      /\ Mqtt!SyncJob \in Mqtt!Jobs /\ Mqtt!SyncJob.op = "sync"
      /\ Mqtt!ConnectJob \in Mqtt!Jobs /\ Mqtt!ConnectJob.op = "connect"
  BY JobFields DEF Inv, TypeOK, Mqtt!TypeOK, Mqtt!Jobs, Mqtt!SyncJob, Mqtt!ConnectJob
<1>1. CASE UNCHANGED jobs
  BY <1>1 DEF NoUnsubscribe
<1>2. CASE \E c \in Clients : Enqueue(c)
  <2>1. PICK j : Mqtt!Enqueue(j) /\ \E c \in Clients : At(c, "enqueue") /\ j \in req[c].out
    BY <1>2 DEF Enqueue, Mqtt!Submit
  <2>2. j \in Singles
    BY <2>1 DEF NoUpdate
  <2>3. PICK t \in Mqtt!Quota : j = Mqtt!Job("subscribe", {t}, {})
    BY <2>2 DEF Singles, Mqtt!SubscribeJob
  <2>4. j.op = "subscribe"
    BY <2>3, JobFields
  <2>5. Mqtt!Job("subscribe", {t}, {}) \in Mqtt!TopicJobs
    BY SubscribeJobs
  <2>6. j \in Mqtt!Jobs
    BY <2>3, <2>5, TopicJobFields
  <2> QED
    BY <1>j, <2>1, <2>4, <2>6, EnqueueNoUnsubscribe
<1>3. CASE SyncRead
  <2>1. Mqtt!Continue(Mqtt!SyncJob, Mqtt!Subscribing(TopicsOf(rows)))
    BY <1>3 DEF SyncRead, Mqtt!SyncRead
  <2>2. \A k \in Mqtt!Subscribing(TopicsOf(rows)) : k.op = "subscribe"
    BY JobFields DEF Mqtt!Subscribing, Mqtt!SubscribeJob
  <2> QED
    BY <1>j, <2>1, <2>2, ContinueNoUnsubscribe
<1>4. CASE Mqtt!Connect \/ Mqtt!SyncReadFails
  BY <1>4, <1>j, ContinueNoUnsubscribe DEF Mqtt!Connect, Mqtt!SyncReadFails
<1>5. CASE Mqtt!Lose \/ Mqtt!Reconnect \/ Mqtt!OnConnectionLost
  BY <1>5, <1>1 DEF Mqtt!Lose, Mqtt!Reconnect, Mqtt!OnConnectionLost
<1>6. CASE Mqtt!OnConnect
  BY <1>6, <1>j, EnqueueNoUnsubscribe DEF Mqtt!OnConnect
<1>7. ASSUME NEW j \in Mqtt!TopicJobs, Mqtt!JobStep(j) PROVE NoUnsubscribe'
  BY <1>7, <1>j, JobStepNoUnsubscribe
<1>8. CASE Restart
  <2>1. ASSUME NEW k \in Mqtt!TopicJobs PROVE jobs'[k] = 0
    BY <1>8, TopicJobFields DEF Restart, Mqtt!Restart
  <2> QED
    BY <2>1 DEF NoUnsubscribe
<1>9. ASSUME NEW c \in Clients, RequestStarts(c) \/ RequestStep(c) PROVE NoUnsubscribe'
  <2>1. CASE Enqueue(c)
    BY <1>2, <2>1
  <2>2. CASE ~Enqueue(c)
    BY <1>1, <1>9, <2>2, RequestStartsOK
    DEF Inv, mqttVars, RequestStep, InsertDevice, FindDevice, SaveDevice, ReadSubscriptions,
        DeleteDeviceRow, InsertSubscription, RereadCreated, SaveSubscription, RereadUpdated,
        DeleteSubscriptionRow
  <2> QED
    BY <2>1, <2>2
<1>10. (RefreshRead \/ RefreshWrite \/ UNCHANGED vars) => UNCHANGED jobs
  BY DEF RefreshRead, RefreshWrite, vars, mqttVars
<1> QED
  BY <1>1, <1>3, <1>4, <1>5, <1>6, <1>7, <1>8, <1>9, <1>10
  DEF Next, Quiet, Session, Mqtt!SessionStep

-----------------------------------------------------------------------------
(* Promises are kept *)

LEMMA Promises ==
  ASSUME NEW t
  PROVE  Promised(t) <=> SessionPromises(t) \/ RequestPromises(t)
  BY DEF Promised, SessionPromises, RequestPromises

(* The row of a wanted topic is the only one with it. *)
LEMMA WantedRow ==
  ASSUME TablesOK, rows' \subseteq rows, NEW t \in Wanted', NEW i, Row(i, t) \in rows
  PROVE  Row(i, t) \in rows'
<1>1. PICK r \in rows' : r.topic = t
  BY DEF Wanted, TopicsOf
<1>2. r = Row(i, t)
  BY <1>1 DEF TablesOK, Row
<1> QED
  BY <1>1, <1>2

(* A request that promises nothing makes a step: what others promise and is *)
(* still wanted stays promised.                                             *)
LEMMA OthersKeepPromises ==
  ASSUME TablesOK, RequestsOK, NEW c \in Clients, NEW q, Goto(c, q),
         ~At(c, "rereadCreated"), ~At(c, "enqueue"), rows' \subseteq rows,
         NEW t \in Wanted', RequestPromises(t)
  PROVE  RequestPromises(t)'
<1>1. PICK d \in Clients : \/ At(d, "rereadCreated") /\ Row(req[d].id, t) \in rows
                           \/ At(d, "enqueue") /\ Mqtt!SubscribeJob({t}) \in req[d].out
  BY DEF RequestPromises
<1>2. req'[d] = req[d]
  BY <1>1 DEF Goto, RequestsOK
<1>3. Row(req[d].id, t) \in rows => Row(req[d].id, t) \in rows'
  BY WantedRow
<1> QED
  BY <1>1, <1>2, <1>3 DEF RequestPromises, At

LEMMA Undisturbed ==
  ASSUME TablesOK, RequestsOK, WantedIsPromised, NEW c \in Clients, NEW q, Goto(c, q),
         ~At(c, "rereadCreated"), ~At(c, "enqueue"), rows' \subseteq rows, UNCHANGED mqttVars
  PROVE  WantedIsPromised'
<1>1. ASSUME conn' = "up", NEW t \in Wanted' PROVE t \in broker' \/ Promised(t)'
  <2>1. conn = "up" /\ t \in Wanted
    BY <1>1 DEF mqttVars, Wanted, TopicsOf
  <2>2. CASE t \in broker
    BY <2>2 DEF mqttVars
  <2>3. CASE SessionPromises(t)
    BY <2>3 DEF SessionPromises, mqttVars, Promised
  <2>4. CASE RequestPromises(t)
    BY <2>4, OthersKeepPromises DEF RequestPromises, Promised
  <2> QED
    BY <2>1, <2>2, <2>3, <2>4, Promises DEF WantedIsPromised
<1> QED
  BY <1>1 DEF WantedIsPromised

(* The insert promises the new row's topic. *)
LEMMA InsertPromises ==
  ASSUME TablesOK, RequestsOK, WantedIsPromised, NEW c \in Clients, InsertSubscription(c)
  PROVE  WantedIsPromised'
<1>1. CASE rows' = rows
  BY <1>1, Undisturbed DEF InsertSubscription, At
<1>2. CASE /\ rows' = rows \cup {Row(NewId, req[c].topic)}
           /\ Goto(c, [pc |-> "rereadCreated", id |-> NewId])
  <2>1. /\ req'[c] = [pc |-> "rereadCreated", id |-> NewId]
        /\ \A d \in Clients \ {c} : req'[d] = req[d]
    BY <1>2 DEF Goto, RequestsOK
  <2>2. ASSUME conn' = "up", NEW t \in Wanted' PROVE t \in broker' \/ Promised(t)'
    <3>0. conn = "up"
      BY <2>2 DEF InsertSubscription, mqttVars
    <3>1. CASE t = req[c].topic
      BY <3>1, <1>2, <2>1 DEF Promised, At
    <3>2. CASE t # req[c].topic
      <4>1. t \in Wanted
        BY <1>2, <3>2 DEF Wanted, TopicsOf, Row
      <4>2. CASE t \in broker \/ SessionPromises(t)
        BY <4>2 DEF InsertSubscription, mqttVars, SessionPromises, Promised
      <4>3. CASE RequestPromises(t)
        <5>1. PICK d \in Clients : \/ At(d, "rereadCreated") /\ Row(req[d].id, t) \in rows
                                   \/ At(d, "enqueue") /\ Mqtt!SubscribeJob({t}) \in req[d].out
          BY <4>3 DEF RequestPromises
        <5>2. d # c
          BY <5>1 DEF InsertSubscription, At
        <5>3. req'[d] = req[d] /\ rows \subseteq rows'
          BY <1>2, <2>1, <5>2
        <5> QED
          BY <5>1, <5>3 DEF Promised, At
      <4> QED
        BY <3>0, <4>1, <4>2, <4>3, Promises DEF WantedIsPromised
    <3> QED
      BY <3>1, <3>2
  <2> QED
    BY <2>2 DEF WantedIsPromised
<1> QED
  BY <1>1, <1>2 DEF InsertSubscription

(* The re-read hands the promise over to the job to be enqueued. *)
LEMMA RereadPromises ==
  ASSUME TablesOK, RequestsOK, WantedIsPromised, NEW c \in Clients, RereadCreated(c)
  PROVE  WantedIsPromised'
<1>1. UNCHANGED <<tables, mqttVars>> /\ At(c, "rereadCreated")
  BY DEF RereadCreated
<1>2. \A d \in Clients \ {c} : req'[d] = req[d]
  BY DEF RereadCreated, GotoEnqueue, Goto, RequestsOK
<1>3. ASSUME NEW t \in Mqtt!Quota, Row(req[c].id, t) \in rows
      PROVE  At(c, "enqueue")' /\ Mqtt!SubscribeJob({t}) \in req'[c].out
  <2>1. HasRow(req[c].id)
    BY <1>3 DEF HasRow, Row
  <2>2. RowWith(req[c].id) = Row(req[c].id, t)
    BY <1>3, <2>1, RowWithIs DEF TablesOK, Row
  <2>3. Mqtt!Subscribing({RowWith(req[c].id).topic}) = {Mqtt!SubscribeJob({t})}
    <3>1. RowWith(req[c].id).topic = t
      BY <2>2 DEF Row
    <3>2. Mqtt!Subscribing({t}) = {Mqtt!SubscribeJob({t})}
      BY <1>3, SubscribingOne
    <3> QED
      BY <3>1, <3>2
  <2>4. GotoEnqueue(c, {Mqtt!SubscribeJob({t})})
    BY <2>1, <2>3 DEF RereadCreated
  <2>5. req'[c] = [pc |-> "enqueue", out |-> {Mqtt!SubscribeJob({t})}]
    BY <2>4 DEF GotoEnqueue, Goto, RequestsOK
  <2> QED
    BY <2>5 DEF At
<1>4. ASSUME conn' = "up", NEW t \in Wanted' PROVE t \in broker' \/ Promised(t)'
  <2>1. conn = "up" /\ t \in Wanted /\ t \in Mqtt!Quota
    BY <1>1, <1>4 DEF mqttVars, tables, Wanted
  <2>2. CASE t \in broker \/ SessionPromises(t)
    BY <1>1, <2>2 DEF mqttVars, SessionPromises, Promised
  <2>3. ASSUME NEW d \in Clients, d # c,
               \/ At(d, "rereadCreated") /\ Row(req[d].id, t) \in rows
               \/ At(d, "enqueue") /\ Mqtt!SubscribeJob({t}) \in req[d].out
        PROVE  Promised(t)'
    BY <1>1, <1>2, <2>3 DEF Promised, At, tables
  <2>4. CASE Row(req[c].id, t) \in rows
    BY <1>3, <2>1, <2>4 DEF Promised, At
  <2> QED
    BY <1>1, <2>1, <2>2, <2>3, <2>4, Promises DEF WantedIsPromised, RequestPromises, At
<1> QED
  BY <1>4 DEF WantedIsPromised

(* The job that is enqueued takes over the promise. *)
LEMMA EnqueuePromises ==
  ASSUME RequestsOK, NoUpdate, jobs \in [Mqtt!Jobs -> Nat], WantedIsPromised,
         NEW c \in Clients, Enqueue(c)
  PROVE  WantedIsPromised'
<1>1. PICK j \in req[c].out : Mqtt!Submit(j) /\ GotoEnqueue(c, req[c].out \ {j})
  BY DEF Enqueue
<1>2. j \in Singles /\ At(c, "enqueue")
  BY <1>1 DEF Enqueue, NoUpdate
<1>3. PICK u \in Mqtt!Quota : j = Mqtt!SubscribeJob({u})
  BY <1>2 DEF Singles
<1>4. j \in Mqtt!TopicJobs /\ j \in Mqtt!Jobs /\ j.op = "subscribe" /\ j.todo = {u}
  <2>1. j = Mqtt!Job("subscribe", {u}, {})
    BY <1>3 DEF Mqtt!SubscribeJob
  <2>2. Mqtt!Job("subscribe", {u}, {}) \in Mqtt!TopicJobs
    BY SubscribeJobs
  <2>3. j.op = "subscribe" /\ j.todo = {u}
    BY <2>1, JobFields
  <2> QED
    BY <2>1, <2>2, <2>3, TopicJobFields
<1>5. UNCHANGED <<tables, conn, broker, connCbs>> /\ Mqtt!Enqueue(j)
  BY <1>1 DEF Enqueue, Mqtt!Submit
<1>6. \A k \in Mqtt!Jobs : jobs'[k] >= jobs[k] /\ jobs[k] \in Nat /\ jobs'[j] > 0
  BY <1>4, <1>5, EnqueueCounts
<1>7. \A k \in Mqtt!Jobs : jobs[k] > 0 => jobs'[k] > 0
  <2>1. jobs' \in [Mqtt!Jobs -> Nat]
    <3>1. jobs' = [k \in Mqtt!Jobs |-> IF k = j THEN jobs[k] + 1 ELSE jobs[k]]
      BY <1>5 DEF Mqtt!Enqueue
    <3> QED
      BY <3>1
  <2> QED
    BY <1>6, <2>1
<1>8. \A d \in Clients \ {c} : req'[d] = req[d]
  BY <1>1 DEF GotoEnqueue, Goto, RequestsOK
<1>9. ASSUME NEW t, SessionPromises(t) PROVE SessionPromises(t)'
  BY <1>5, <1>7, <1>9, TopicJobFields DEF SessionPromises, Mqtt!Jobs
<1>10. ASSUME NEW t, RequestPromises(t) PROVE SessionPromises(t)' \/ RequestPromises(t)'
  <2>1. ASSUME NEW d \in Clients, d # c,
               \/ At(d, "rereadCreated") /\ Row(req[d].id, t) \in rows
               \/ At(d, "enqueue") /\ Mqtt!SubscribeJob({t}) \in req[d].out
        PROVE  RequestPromises(t)'
    BY <1>5, <1>8, <2>1 DEF RequestPromises, At, tables
  <2>2. ASSUME Mqtt!SubscribeJob({t}) \in req[c].out, Mqtt!SubscribeJob({t}) # j
        PROVE  RequestPromises(t)'
    <3>1. req'[c] = [pc |-> "enqueue", out |-> req[c].out \ {j}]
      BY <1>1, <2>2 DEF GotoEnqueue, Goto, RequestsOK
    <3> QED
      BY <2>2, <3>1 DEF RequestPromises, At
  <2>3. ASSUME Mqtt!SubscribeJob({t}) = j PROVE SessionPromises(t)'
    <3>1. t \in j.todo
      BY <2>3, JobFields DEF Mqtt!SubscribeJob
    <3> QED
      BY <1>4, <1>6, <3>1 DEF SessionPromises
  <2> QED
    BY <1>2, <1>10, <2>1, <2>2, <2>3 DEF RequestPromises, At
<1>11. ASSUME conn' = "up", NEW t \in Wanted' PROVE t \in broker' \/ Promised(t)'
  <2>1. conn = "up" /\ t \in Wanted
    BY <1>5, <1>11 DEF tables, Wanted
  <2>2. CASE t \in broker
    BY <1>5, <2>2
  <2>3. SessionPromises(t)' \/ RequestPromises(t)' => Promised(t)'
    BY DEF Promised, SessionPromises, RequestPromises
  <2> QED
    BY <1>9, <1>10, <2>1, <2>2, <2>3, Promises DEF WantedIsPromised
<1> QED
  BY <1>11 DEF WantedIsPromised

(* The sync job promises everything the table holds. *)
LEMMA SyncPromises ==
  ASSUME TablesOK, jobs \in [Mqtt!Jobs -> Nat], WantedIsPromised, SyncRead
  PROVE  WantedIsPromised'
<1>1. UNCHANGED tables /\ Mqtt!Continue(Mqtt!SyncJob, Mqtt!Subscribing(TopicsOf(rows)))
  BY DEF SyncRead, Mqtt!SyncRead
<1>2. ASSUME NEW t \in Wanted PROVE Promised(t)'
  <2> DEFINE k == Mqtt!Job("subscribe", Wanted, {})
  <2>1. k \in Mqtt!TopicJobs
    <3>1. Wanted \in SUBSET Mqtt!Quota /\ Wanted # {}
      BY DEF Wanted
    <3> QED
      BY <3>1, SubscribeJobs
  <2>2. k.op = "subscribe" /\ t \in k.todo
    BY JobFields
  <2>3. k \in Mqtt!Subscribing(TopicsOf(rows))
    BY DEF Mqtt!Subscribing, Mqtt!SubscribeJob, Wanted
  <2> HIDE DEF k
  <2>4. jobs'[k] > 0
    BY <1>1, <2>1, <2>3, ContinueCounts, TopicJobFields DEF Mqtt!Jobs
  <2> QED
    BY <2>1, <2>2, <2>4 DEF Promised
<1>3. Wanted' = Wanted
  BY <1>1 DEF tables, Wanted, TopicsOf
<1> QED
  BY <1>2, <1>3 DEF WantedIsPromised

LEMMA SessionPromised ==
  ASSUME Inv, NoUnsubscribe, WantedIsPromised, LateCallbacks = FALSE, Faults = FALSE,
         Mqtt!SessionStep, UNCHANGED <<tables, req>>
  PROVE  WantedIsPromised'
<1>j. /\ jobs \in [Mqtt!Jobs -> Nat] /\ connCbs \in Nat
      /\ Mqtt!SyncJob \in Mqtt!Jobs
  BY DEF Inv, TypeOK, Mqtt!TypeOK, Mqtt!Jobs
<1>1. CASE Mqtt!Connect \/ Mqtt!Reconnect
  <2>1. connCbs' > 0
    BY <1>1, <1>j DEF Mqtt!Connect, Mqtt!Reconnect
  <2> QED
    BY <2>1 DEF WantedIsPromised, Promised
<1>2. CASE Mqtt!Lose
  BY <1>2 DEF Mqtt!Lose, WantedIsPromised
<1>3. CASE Mqtt!OnConnect
  <2>1. jobs'[Mqtt!SyncJob] > 0
    BY <1>3, <1>j, EnqueueCounts DEF Mqtt!OnConnect
  <2> QED
    BY <2>1 DEF WantedIsPromised, Promised
<1>w. Wanted' = Wanted
  BY DEF tables, Wanted, TopicsOf
<1>r. ASSUME NEW t, RequestPromises(t) PROVE RequestPromises(t)'
  BY <1>r DEF RequestPromises, tables, At
<1>p. \A t : SessionPromises(t)' \/ RequestPromises(t)' => Promised(t)'
  BY DEF Promised, SessionPromises, RequestPromises
<1>4. CASE Mqtt!OnConnectionLost
  <2>1. UNCHANGED <<conn, broker, connCbs, jobs>>
    BY <1>4 DEF Mqtt!OnConnectionLost
  <2>2. ASSUME NEW t, SessionPromises(t) PROVE SessionPromises(t)'
    BY <2>1, <2>2 DEF SessionPromises
  <2> QED
    BY <1>w, <1>r, <1>p, <2>1, <2>2, Promises DEF WantedIsPromised
<1>5. CASE Mqtt!SyncReadFails
  BY <1>5 DEF Mqtt!SyncReadFails
<1>6. ASSUME NEW j \in Mqtt!TopicJobs, Mqtt!JobStep(j) PROVE WantedIsPromised'
  <2>1. conn' = conn
    BY <1>6 DEF Mqtt!JobStep, Mqtt!TestConnected, Mqtt!Subscribe, Mqtt!SubscribeFails,
                Mqtt!Unsubscribe, Mqtt!UnsubscribeFails
  <2>2. ASSUME conn = "up", NEW t \in Wanted PROVE t \in broker' \/ Promised(t)'
    <3>1. t \in broker \/ SessionPromises(t) \/ RequestPromises(t)
      BY <2>2, Promises DEF WantedIsPromised
    <3>2. TypeOK /\ Mirrored
      BY SessionInv DEF Inv, Mirrored
    <3>3. CASE t \in broker \/ SessionPromises(t)
      BY <1>6, <1>p, <2>2, <3>2, <3>3, JobKeepsPromise
    <3>4. CASE RequestPromises(t)
      BY <1>r, <1>p, <3>4
    <3> QED
      BY <3>1, <3>3, <3>4
  <2> QED
    BY <1>w, <2>1, <2>2 DEF WantedIsPromised
<1> QED
  BY <1>1, <1>2, <1>3, <1>4, <1>5, <1>6 DEF Mqtt!SessionStep

LEMMA RequestPromised ==
  ASSUME Inv, NoUpdate, WantedIsPromised, NEW c \in Clients, RequestStep(c)
  PROVE  WantedIsPromised'
<1> USE DEF Inv
<1>j. jobs \in [Mqtt!Jobs -> Nat]
  BY DEF TypeOK, Mqtt!TypeOK
<1>1. CASE InsertDevice(c) \/ SaveDevice(c)
  BY <1>1, Undisturbed DEF InsertDevice, SaveDevice, At
<1>2. CASE FindDevice(c) \/ ReadSubscriptions(c)
  BY <1>2, Undisturbed DEF FindDevice, ReadSubscriptions, tables, At
<1>3. CASE DeleteDeviceRow(c)
  <2>1. rows' \subseteq rows /\ UNCHANGED mqttVars
    BY <1>3 DEF DeleteDeviceRow
  <2>2. \E q : Goto(c, q)
    BY <1>3 DEF DeleteDeviceRow, GotoEnqueue
  <2>3. ~At(c, "rereadCreated") /\ ~At(c, "enqueue")
    BY <1>3 DEF DeleteDeviceRow, At
  <2> QED
    BY <2>1, <2>2, <2>3, Undisturbed
<1>4. CASE InsertSubscription(c)
  BY <1>4, InsertPromises
<1>5. CASE RereadCreated(c)
  BY <1>5, RereadPromises
<1>6. CASE SaveSubscription(c) \/ RereadUpdated(c)
  BY <1>6 DEF SaveSubscription, RereadUpdated, NoUpdate
<1>7. CASE DeleteSubscriptionRow(c)
  <2>1. rows' \subseteq rows /\ UNCHANGED mqttVars
    BY <1>7 DEF DeleteSubscriptionRow
  <2>2. \E q : Goto(c, q)
    BY <1>7 DEF DeleteSubscriptionRow, GotoEnqueue
  <2>3. ~At(c, "rereadCreated") /\ ~At(c, "enqueue")
    BY <1>7 DEF DeleteSubscriptionRow, At
  <2> QED
    BY <2>1, <2>2, <2>3, Undisturbed
<1>8. CASE Enqueue(c)
  BY <1>8, <1>j, EnqueuePromises
<1> QED
  BY <1>1, <1>2, <1>3, <1>4, <1>5, <1>6, <1>7, <1>8 DEF RequestStep

LEMMA PromisedNext ==
  ASSUME Inv, NoUpdate, NoUnsubscribe, WantedIsPromised,
         LateCallbacks = FALSE, Faults = FALSE, [Next]_vars
  PROVE  WantedIsPromised'
<1> USE DEF Inv
<1>1. ASSUME NEW c \in Clients, RequestStarts(c) PROVE WantedIsPromised'
  <2>1. UNCHANGED mqttVars /\ rows' = rows
    BY <1>1, RequestStartsOK DEF tables
  <2>2. (\E q : Goto(c, q)) /\ req[c] = Fresh
    BY <1>1 DEF RequestStarts, DeviceRequest, SubscriptionRequest, CreateDevice, UpdateDevice,
                DeleteDevice, CreateSubscription, UpdateSubscription, DeleteSubscription, Starts
  <2>3. ~At(c, "rereadCreated") /\ ~At(c, "enqueue")
    BY <2>2 DEF At, Fresh
  <2> QED
    BY <2>1, <2>2, <2>3, Undisturbed
<1>2. CASE SyncRead
  BY <1>2, SyncPromises DEF TypeOK, Mqtt!TypeOK
<1>3. CASE Restart
  BY <1>3 DEF Restart, Mqtt!Restart, WantedIsPromised
<1>4. CASE UNCHANGED <<tables, req, mqttVars>>
  <2>1. UNCHANGED <<rows, req, conn, broker, connCbs, jobs>>
    BY <1>4 DEF tables, mqttVars
  <2> QED
    BY <2>1 DEF WantedIsPromised, Promised, At, Wanted, TopicsOf
<1>5. (RefreshRead \/ RefreshWrite \/ UNCHANGED vars) => UNCHANGED <<tables, req, mqttVars>>
  BY DEF RefreshRead, RefreshWrite, vars
<1> QED
  BY <1>1, <1>2, <1>3, <1>4, <1>5, RequestPromised, SessionPromised DEF Next, Quiet, Session

(* While callbacks of lost sessions are in time, nothing fails and no       *)
(* subscription is updated: whenever the session is up, each persisted      *)
(* quota subscription is delivered, or a job, callback or request that will *)
(* subscribe it is under way, whatever requests, losses of the connection   *)
(* and crashes interleave (mqtt_subscription_store.go:42-46,                *)
(* ecoflow_mqtt.go:127-188).                                                *)
THEOREM WantedIsPromisedHolds ==
  ASSUME LateCallbacks = FALSE, Faults = FALSE, "updateSubscription" \notin Operations
  PROVE  Spec => []WantedIsPromised
<1>1. Init => Delivered
  <2> SUFFICES ASSUME Init PROVE Delivered
    OBVIOUS
  <2>1. \A c \in Clients : req[c].pc = "new"
    BY DEF Init, Fresh
  <2>2. NoUpdate
    BY <2>1 DEF NoUpdate, At
  <2>3. conn = "off" /\ \A j \in Mqtt!TopicJobs : jobs[j] = 0
    BY TopicJobFields DEF Init, Mqtt!Init, Mqtt!Started
  <2> QED
    BY <2>2, <2>3 DEF Delivered, NoUnsubscribe, WantedIsPromised
<1>2. Inv /\ Delivered /\ [Next]_vars => Delivered'
  <2> SUFFICES ASSUME Inv, Delivered, [Next]_vars PROVE Delivered'
    OBVIOUS
  <2>1. NoUpdate'
    BY NoUpdateNext DEF Inv, Delivered
  <2>2. NoUnsubscribe'
    BY NoUnsubscribeNext DEF Delivered
  <2>3. WantedIsPromised'
    BY PromisedNext DEF Delivered
  <2> QED
    BY <2>1, <2>2, <2>3 DEF Delivered
<1>3. Delivered => WantedIsPromised
  BY DEF Delivered
<1> QED
  BY <1>1, <1>2, <1>3, InvHolds, PTL DEF Spec
=============================================================================
