----------------------------- MODULE EcoFlowMqtt -----------------------------
(***************************************************************************)
(* The EcoFlow MQTT session (internal/server/service/ecoflow_mqtt.go) and  *)
(* the jobs that work on it (task_ecoflow_mqtt.go, and the one-shot jobs   *)
(* of task.go): the connection to EcoFlow's broker, the paho callbacks,    *)
(* the set subscriptions.values, and what the broker really delivers.      *)
(*                                                                         *)
(* The MQTT client is external.  As the code uses it: the first Connect    *)
(* succeeds or fails for good; a lost connection is re-established by the  *)
(* client; a new session starts without subscriptions (clean session); and *)
(* OnConnect and OnConnectionLost run in goroutines of their own, so that  *)
(* nothing orders the callback of a lost session before the next session.  *)
(*                                                                         *)
(* A one-shot job of the scheduler is a goroutine: queued jobs start in    *)
(* any order and interleave.  A job is the record of what it has left to   *)
(* do; jobs counts the jobs that are in the same state.                    *)
(***************************************************************************)
EXTENDS Naturals

CONSTANTS Devices,        \* serial numbers
          MaxSessions,    \* bound: sessions opened by one process
          MaxRestarts,    \* bound: crashes of the process
          MaxCopies,      \* bound: jobs of a topic in one state, for a new one
          LateCallbacks,  \* a lost session's callback may run after a reconnect
          Faults          \* the broker, the credentials or the database may fail

ASSUME SessionAssumption ==
  /\ MaxSessions \in Nat /\ MaxRestarts \in Nat /\ MaxCopies \in Nat
  /\ LateCallbacks \in BOOLEAN /\ Faults \in BOOLEAN

VARIABLES
  conn,      \* "off" (never connected), "up", or "lost" (reconnecting)
  sessions,  \* sessions opened so far
  values,    \* subscriptions.values: the topics the service believes in
  broker,    \* the topics the broker delivers in the current session
  connCbs,   \* OnConnect callbacks that have not run
  lostCbs,   \* OnConnectionLost callbacks that have not run
  jobs,      \* how many scheduler jobs are in each state
  restarts   \* crashes so far

vars == <<conn, sessions, values, broker, connCbs, lostCbs, jobs, restarts>>

-----------------------------------------------------------------------------
(* Topics and jobs *)

Kinds == {"quota", "status"}

(* topicNameFrom: one topic per device and kind. *)
Topics == [sn : Devices, kind : Kinds]

Quota == {t \in Topics : t.kind = "quota"}

Job(op, todo, ready) == [op |-> op, todo |-> todo, ready |-> ready]

ConnectJob == Job("connect", {}, {})
SyncJob    == Job("sync", {}, {})

(* A job that subscribes the topics S one after the other, and one that     *)
(* unsubscribes t.  ready holds the topic whose connection test succeeded.  *)
SubscribeJob(S) == Job("subscribe", S, {})
UnsubscribeJob(t) == Job("unsubscribe", {t}, {})

TopicJobs ==
  {Job("subscribe", S, {}) : S \in (SUBSET Quota) \ {{}}}
    \cup (UNION {{Job("subscribe", S, {t}) : t \in S} : S \in SUBSET Quota})
    \cup {Job("unsubscribe", {t}, {}) : t \in Topics}
    \cup {Job("unsubscribe", {t}, {t}) : t \in Topics}

Jobs == {ConnectJob, SyncJob} \cup TopicJobs

(* The jobs that remain of a subscription of S: topics of kind status are   *)
(* skipped (`case TopicKindStatus:` is empty), and an empty loop ends.      *)
Subscribing(S) == {SubscribeJob(Q) : Q \in {S \cap Quota} \ {{}}}

(* What is left of job j when it is done with topic t. *)
Without(j, t) == {Job(j.op, S, {}) : S \in {j.todo \ {t}} \ {{}}}

(* Faulty variant of Continue: a job that has ended makes another step. *)
ContinueEnded(j, next) ==
  jobs' = [k \in Jobs |-> (IF k = j THEN jobs[k] - 1 ELSE jobs[k])
                          + (IF k \in next THEN 1 ELSE 0)]

(* Job j makes a step and becomes the jobs in next (at most one). *)
Continue(j, next) ==
  /\ jobs[j] > 0
  /\ jobs' = [k \in Jobs |-> (IF k = j THEN jobs[k] - 1 ELSE jobs[k])
                             + (IF k \in next THEN 1 ELSE 0)]

Enqueue(j) == jobs' = [jobs EXCEPT ![j] = @ + 1]

-----------------------------------------------------------------------------
TypeOK ==
  /\ conn \in {"off", "up", "lost"}
  /\ sessions \in Nat
  /\ values \subseteq Quota
  /\ broker \subseteq Quota
  /\ connCbs \in Nat
  /\ lostCbs \in Nat
  /\ jobs \in [Jobs -> Nat]
  /\ restarts \in Nat

(* Init() ran: values is empty and the connect job is queued. *)
Started ==
  /\ conn = "off"
  /\ sessions = 0
  /\ values = {}
  /\ broker = {}
  /\ connCbs = 0
  /\ lostCbs = 0
  /\ jobs = [j \in Jobs |-> IF j = ConnectJob THEN 1 ELSE 0]

Init == Started /\ restarts = 0

-----------------------------------------------------------------------------
(* The connection and its callbacks *)

(* The connect job.  A failure is logged and never retried. *)
Connect ==
  /\ conn = "off"
  /\ Continue(ConnectJob, {})
  /\ \/ /\ conn' = "up"
        /\ sessions' = sessions + 1
        /\ connCbs' = connCbs + 1
     \/ /\ Faults
        /\ UNCHANGED <<conn, sessions, connCbs>>
  /\ UNCHANGED <<values, broker, lostCbs, restarts>>

(* The connection is lost: the broker forgets the session. *)
Lose ==
  /\ conn = "up"
  /\ sessions < MaxSessions
  /\ conn' = "lost"
  /\ broker' = {}
  /\ lostCbs' = lostCbs + 1
  /\ UNCHANGED <<sessions, values, connCbs, jobs, restarts>>

(* The client reconnects by itself. *)
Reconnect ==
  /\ conn = "lost"
  /\ LateCallbacks \/ lostCbs = 0
  /\ conn' = "up"
  /\ sessions' = sessions + 1
  /\ connCbs' = connCbs + 1
  /\ UNCHANGED <<values, broker, lostCbs, jobs, restarts>>

(* Faulty variant of OnConnect: only the first session is synchronized. *)
OnConnectFirstOnly ==
  /\ connCbs > 0
  /\ connCbs' = connCbs - 1
  /\ IF sessions = 1 THEN Enqueue(SyncJob) ELSE UNCHANGED jobs
  /\ UNCHANGED <<conn, sessions, values, broker, lostCbs, restarts>>

(* OnConnect: SyncSubscriptions enqueues the sync job. *)
OnConnect ==
  /\ connCbs > 0
  /\ connCbs' = connCbs - 1
  /\ Enqueue(SyncJob)
  /\ UNCHANGED <<conn, sessions, values, broker, lostCbs, restarts>>

(* Faulty variant of OnConnectionLost: the set is not cleared. *)
OnConnectionLostKeep ==
  /\ lostCbs > 0
  /\ lostCbs' = lostCbs - 1
  /\ UNCHANGED <<conn, sessions, values, broker, connCbs, jobs, restarts>>

(* OnConnectionLost: ClearSubscriptions. *)
OnConnectionLost ==
  /\ lostCbs > 0
  /\ lostCbs' = lostCbs - 1
  /\ values' = {}
  /\ UNCHANGED <<conn, sessions, broker, connCbs, jobs, restarts>>

-----------------------------------------------------------------------------
(* The jobs *)

(* The sync job reads the subscriptions, rows being the topics of the       *)
(* table, and starts its loop; when the read fails the job ends.            *)
SyncRead(rows) ==
  /\ Continue(SyncJob, Subscribing(rows))
  /\ UNCHANGED <<conn, sessions, values, broker, connCbs, lostCbs, restarts>>

SyncReadFails ==
  /\ Faults
  /\ Continue(SyncJob, {})
  /\ UNCHANGED <<conn, sessions, values, broker, connCbs, lostCbs, restarts>>

(* Subscribe and Unsubscribe test the connection before they take the lock; *)
(* without a connection they return nil and the job goes on.                *)
TestConnected(j, t) ==
  /\ j.ready = {} /\ t \in j.todo
  /\ Continue(j, IF conn = "up" THEN {Job(j.op, j.todo, {t})} ELSE Without(j, t))
  /\ UNCHANGED <<conn, sessions, values, broker, connCbs, lostCbs, restarts>>

(* Faulty variant of Subscribe: values is updated before the broker call,   *)
(* which may fail.                                                          *)
SubscribeEarly(j, t) ==
  /\ j.op = "subscribe" /\ j.ready = {t}
  /\ t \notin values
  /\ values' = values \cup {t}
  /\ broker' \in {broker} \cup IF conn = "up" THEN {broker \cup {t}} ELSE {}
  /\ Continue(j, Without(j, t))
  /\ UNCHANGED <<conn, sessions, connCbs, lostCbs, restarts>>

(* Subscribe under subscriptions.Lock: the broker confirms while the        *)
(* session is up, and the topic enters values.                              *)
Subscribe(j, t) ==
  /\ j.op = "subscribe" /\ j.ready = {t}
  /\ t \notin values
  /\ conn = "up"
  /\ broker' = broker \cup {t}
  /\ values' = values \cup {t}
  /\ Continue(j, Without(j, t))
  /\ UNCHANGED <<conn, sessions, connCbs, lostCbs, restarts>>

(* ErrEcoFlowAlreadySubscribed, or the broker call fails: always without a  *)
(* session, and with one when the broker refuses.                           *)
SubscribeFails(j, t) ==
  /\ j.op = "subscribe" /\ j.ready = {t}
  /\ t \in values \/ conn # "up" \/ Faults
  /\ Continue(j, Without(j, t))
  /\ UNCHANGED <<conn, sessions, values, broker, connCbs, lostCbs, restarts>>

(* Faulty variant of Unsubscribe: the topic leaves values although the      *)
(* broker refused.                                                          *)
UnsubscribeAnyway(j, t) ==
  /\ j.op = "unsubscribe" /\ j.ready = {t}
  /\ t \in values
  /\ conn = "up"
  /\ values' = values \ {t}
  /\ broker' \in {broker \ {t}} \cup IF Faults THEN {broker} ELSE {}
  /\ Continue(j, Without(j, t))
  /\ UNCHANGED <<conn, sessions, connCbs, lostCbs, restarts>>

(* Unsubscribe under subscriptions.Lock. *)
Unsubscribe(j, t) ==
  /\ j.op = "unsubscribe" /\ j.ready = {t}
  /\ t \in values
  /\ conn = "up"
  /\ values' = values \ {t}
  /\ broker' = broker \ {t}
  /\ Continue(j, Without(j, t))
  /\ UNCHANGED <<conn, sessions, connCbs, lostCbs, restarts>>

(* ErrEcoFlowNotSubscribed, or the broker call fails. *)
UnsubscribeFails(j, t) ==
  /\ j.op = "unsubscribe" /\ j.ready = {t}
  /\ t \notin values \/ conn # "up" \/ Faults
  /\ Continue(j, Without(j, t))
  /\ UNCHANGED <<conn, sessions, values, broker, connCbs, lostCbs, restarts>>

JobStep(j) ==
  \E t \in j.todo :
    \/ TestConnected(j, t)
    \/ Subscribe(j, t) \/ SubscribeFails(j, t)
    \/ Unsubscribe(j, t) \/ UnsubscribeFails(j, t)

(* The process crashes and is started again with a new client id. *)
Restart ==
  /\ restarts < MaxRestarts
  /\ restarts' = restarts + 1
  /\ conn' = "off" /\ sessions' = 0
  /\ values' = {} /\ broker' = {}
  /\ connCbs' = 0 /\ lostCbs' = 0
  /\ jobs' = [j \in Jobs |-> IF j = ConnectJob THEN 1 ELSE 0]

-----------------------------------------------------------------------------
(* Steps of the session that need nothing from outside. *)
SessionStep ==
  \/ Connect \/ Lose \/ Reconnect
  \/ OnConnect \/ OnConnectionLost
  \/ SyncReadFails
  \/ \E j \in TopicJobs : JobStep(j)

(* A request handler enqueues a job (task_ecoflow_mqtt.go). *)
Submit(j) ==
  /\ \A k \in Jobs : k.op = j.op /\ j.todo \subseteq k.todo => jobs[k] < MaxCopies
  /\ Enqueue(j)
  /\ UNCHANGED <<conn, sessions, values, broker, connCbs, lostCbs, restarts>>

Submittable ==
  {SubscribeJob({t}) : t \in Quota} \cup {UnsubscribeJob(t) : t \in Topics}

(* The session in an environment that enqueues any job and keeps any rows. *)
Next ==
  \/ SessionStep
  \/ Restart
  \/ \E rows \in SUBSET Topics : SyncRead(rows)
  \/ \E j \in Submittable : Submit(j)

Spec == Init /\ [][Next]_vars

-----------------------------------------------------------------------------
(* Properties *)

(* Whatever is lost, late or refused: once the callbacks of lost sessions   *)
(* have run, every topic in values is delivered by the broker, so that      *)
(* "already subscribed" is never said of a topic that is not.               *)
TrackedIsServed == lostCbs = 0 => values \subseteq broker

(* A topic the broker delivers disappears from values only when the         *)
(* callback of a lost session clears the set after the reconnect.  (Such a  *)
(* topic can no longer be unsubscribed: Unsubscribe says "not subscribed".) *)
ForgottenOnlyByLateClear ==
  [][ broker' \ values' \subseteq broker \ values
      \/ (conn = "up" /\ lostCbs' < lostCbs) ]_vars

(* When a lost session's callback runs before the reconnect, values is      *)
(* exactly what the broker delivers while the session is up.                *)
Mirrored == ~LateCallbacks => (conn = "up" => values = broker)
=============================================================================
