------------------------------- MODULE Cluster -------------------------------
(***************************************************************************)
(* Several instances of the server that share a database and, for the      *)
(* distributed lock of their jobs, a Redis (internal/server/server.go,     *)
(* service/task.go): how an instance starts, stops and crashes, and how    *)
(* its subscriptions follow the table.  A load balancer sends requests to  *)
(* any of them.                                                            *)
(*                                                                         *)
(* Of the jobs only the synchronization of a session takes the distributed *)
(* lock (ecoflow_mqtt.go:149); when the lock is not obtained gocron skips  *)
(* the run, and a one-time job does not come back.  The lock expires while *)
(* its owner runs or after it died, and only its owner releases it.        *)
(*                                                                         *)
(* What EcoFlowMqtt and Subscriptions show in detail is one step here: a   *)
(* request writes its row at once, and a job tests the connection, takes   *)
(* the lock of subscriptions.values and calls the broker.  (A job that     *)
(* stops at the test, at the lock or at the call leaves everything as it   *)
(* is; one that passes has its effect when the broker confirms, before     *)
(* anyone else gets the lock.)  The callback of a lost session is a step   *)
(* of its own, which may come after the next session has begun.  Topics    *)
(* are those of kind quota.                                                *)
(***************************************************************************)
EXTENDS Naturals, FiniteSets

CONSTANTS Instances,    \* the processes
          Topics,       \* topics that subscriptions may ask for
          Sessions,     \* bound: MQTT sessions of all instances together
          None,         \* no session
          MaxRequests,  \* bound: requests
          MaxExits,     \* bound: crashes and shutdowns
          Faults        \* EcoFlow's broker or the database may fail

ASSUME ClusterAssumption ==
  /\ None \notin Sessions
  /\ MaxRequests \in Nat /\ MaxExits \in Nat
  /\ Faults \in BOOLEAN

VARIABLES
  redis,     \* LOCK_REDIS_ENABLED, of all instances
  rows,      \* table mqtt_subscriptions: its topics
  phase,     \* phase[i]: how far instance i is from start to exit
  conn,      \* conn[i]: its connection to EcoFlow's broker
  session,   \* session[i]: the session of that connection, or None
  outcome,   \* outcome[i]: whether the job of that session read the table
  values,    \* values[i]: subscriptions.values, the topics it believes in
  served,    \* served[i]: the topics the broker delivers in that session
  lostCbs,   \* lostCbs[i]: OnConnectionLost callbacks that have not run
  sync,      \* sync[k]: the synchronization of session k
  lock,      \* the session whose job has the lock ECOFLOW_MQTT_SYNC, or None
  queued,    \* queued[i]: subscribe and unsubscribe jobs of its scheduler
  inflight,  \* inflight[i]: such jobs that requests have yet to enqueue
  begun,     \* the sessions that have begun
  requests, exits, \* how many there were
  outlived,  \* history: running jobs whose lock has expired
  excused    \* history: excused[i]: topics that instance i has a reason not to
             \* deliver: the set held them for delivered when the job read the
             \* table, they got a row at another instance since, the broker
             \* refused them, or an update unsubscribed them

process  == <<phase, conn, session, outcome>>
jobs     == <<queued, inflight>>
topics   == <<values, served, excused>>
counters == <<begun, requests, exits>>
vars     == <<redis, rows, process, topics, lostCbs, sync, lock, jobs, counters, outlived>>

-----------------------------------------------------------------------------
(* A synchronization of which nothing is left. *)
Idle == [st |-> "idle"]

(* The job that waits, and the one that runs, with the topics of its loop. *)
SyncJobs ==
  {Idle}
    \cup [st : {"queued"}, at : Instances]
    \cup [st : {"running"}, at : Instances, todo : SUBSET Topics]

(* "open": not started; "skipped": without the lock; "failed": could not    *)
(* read the table.                                                          *)
Outcomes == {"open", "read", "skipped", "failed"}

(* The jobs that request number n enqueues. *)
Jobs == [op : {"subscribe", "unsubscribe"}, topic : Topics, request : 1..MaxRequests]

Job(op, S, n) == {[op |-> op, topic |-> t, request |-> n] : t \in S}

Phases == {"down", "up", "stopping", "closing"}

TypeOK ==
  /\ redis \in BOOLEAN
  /\ rows \subseteq Topics
  /\ phase \in [Instances -> Phases]
  /\ conn \in [Instances -> {"none", "connecting", "up", "lost"}]
  /\ session \in [Instances -> Sessions \cup {None}]
  /\ outcome \in [Instances -> Outcomes]
  /\ values \in [Instances -> SUBSET Topics]
  /\ served \in [Instances -> SUBSET Topics]
  /\ lostCbs \in [Instances -> Nat]
  /\ sync \in [Sessions -> SyncJobs]
  /\ lock \in Sessions \cup {None}
  /\ queued \in [Instances -> SUBSET Jobs]
  /\ inflight \in [Instances -> SUBSET Jobs]
  /\ begun \subseteq Sessions
  /\ requests \in 0..MaxRequests
  /\ exits \in 0..MaxExits
  /\ outlived \subseteq Sessions
  /\ excused \in [Instances -> SUBSET Topics]

(* No instance runs; the table is as an earlier one left it. *)
Init ==
  /\ redis \in BOOLEAN
  /\ rows \in SUBSET Topics
  /\ phase = [i \in Instances |-> "down"]
  /\ conn = [i \in Instances |-> "none"]
  /\ session = [i \in Instances |-> None]
  /\ outcome = [i \in Instances |-> "open"]
  /\ values = [i \in Instances |-> {}]
  /\ served = [i \in Instances |-> {}]
  /\ lostCbs = [i \in Instances |-> 0]
  /\ sync = [k \in Sessions |-> Idle]
  /\ lock = None
  /\ queued = [i \in Instances |-> {}]
  /\ inflight = [i \in Instances |-> {}]
  /\ begun = {} /\ requests = 0 /\ exits = 0
  /\ outlived = {}
  /\ excused = [i \in Instances |-> {}]

-----------------------------------------------------------------------------
Running(k) == sync[k].st = "running"
IsAt(k, i) == sync[k].st # "idle" /\ sync[k].at = i

(* The table was read for session k of instance i, or will not be; this is  *)
(* kept as long as the session is there.                                    *)
Settle(k, i, how) ==
  outcome' = IF session[i] = k THEN [outcome EXCEPT ![i] = how] ELSE outcome

(* Faulty variant of Ends: the job stays in the scheduler. *)
EndsKept(k) ==
  /\ sync' = [sync EXCEPT ![k].st = "ended"]
  /\ outlived' = outlived \ {k}

(* The synchronization of session k ends. *)
Ends(k) ==
  /\ sync' = [sync EXCEPT ![k] = Idle]
  /\ outlived' = outlived \ {k}

(* The scheduler takes and starts jobs. *)
Scheduling(i) == phase[i] = "up"

(* The HTTP server accepts requests until it is shut down, last of all. *)
Listening(i) == phase[i] \in {"up", "stopping"}

-----------------------------------------------------------------------------
(* Start and the end of an instance *)

(* Start: the connect job is queued, the scheduler started, the servers     *)
(* listen.  (A start that fails ends the process and leaves no trace.)      *)
Start(i) ==
  /\ phase[i] = "down"
  /\ phase' = [phase EXCEPT ![i] = "up"]
  /\ conn' = [conn EXCEPT ![i] = "connecting"]
  /\ UNCHANGED <<redis, rows, session, outcome, topics, lostCbs, sync, lock, jobs, counters,
                 outlived>>

(* The session of instance i is over, and the broker forgets it. *)
Over(i, c) ==
  /\ conn' = [conn EXCEPT ![i] = c]
  /\ session' = [session EXCEPT ![i] = None]
  /\ outcome' = [outcome EXCEPT ![i] = "open"]
  /\ served' = [served EXCEPT ![i] = {}]
  /\ excused' = [excused EXCEPT ![i] = {}]

(* The process is gone; what is left of it is its lock and the rows. *)
Gone(i) ==
  /\ phase' = [phase EXCEPT ![i] = "down"]
  /\ Over(i, "none")
  /\ values' = [values EXCEPT ![i] = {}]
  /\ lostCbs' = [lostCbs EXCEPT ![i] = 0]
  /\ queued' = [queued EXCEPT ![i] = {}]
  /\ inflight' = [inflight EXCEPT ![i] = {}]
  /\ sync' = [k \in Sessions |-> IF IsAt(k, i) THEN Idle ELSE sync[k]]
  /\ outlived' = {k \in outlived : ~IsAt(k, i)}
  /\ UNCHANGED <<redis, rows, lock, begun, requests>>

Crash(i) ==
  /\ phase[i] # "down"
  /\ exits < MaxExits
  /\ exits' = exits + 1
  /\ Gone(i)

(* A signal: StopJobs takes the jobs that wait from the scheduler, and      *)
(* waits for the ones that run.  (The histories are about instances that    *)
(* are up.)                                                                 *)
Quit(i) ==
  /\ phase[i] = "up"
  /\ exits < MaxExits
  /\ exits' = exits + 1
  /\ phase' = [phase EXCEPT ![i] = "stopping"]
  /\ conn' = [conn EXCEPT ![i] = IF @ = "connecting" THEN "none" ELSE @]
  /\ queued' = [queued EXCEPT ![i] = {}]
  /\ sync' = [k \in Sessions |-> IF IsAt(k, i) /\ ~Running(k) THEN Idle ELSE sync[k]]
  /\ outcome' = [outcome EXCEPT ![i] = "open"]
  /\ excused' = [excused EXCEPT ![i] = {}]
  /\ UNCHANGED <<redis, rows, session, values, served, lostCbs, lock, inflight, begun,
                 requests, outlived>>

(* StopJobs and Shutdown return: the jobs have ended, or the scheduler no   *)
(* longer waits for them (a warning is logged).  Disconnect does nothing    *)
(* without a connection (a lost one is re-established by the client all the *)
(* same); then the listeners close.                                         *)
Disconnect(i) ==
  /\ phase[i] = "stopping"
  /\ phase' = [phase EXCEPT ![i] = "closing"]
  /\ IF conn[i] = "up"
       THEN Over(i, "none")
       ELSE UNCHANGED <<conn, session, outcome, served, excused>>
  /\ UNCHANGED <<redis, rows, values, lostCbs, sync, lock, jobs, counters, outlived>>

(* The servers wait for the requests they have accepted, without a deadline *)
(* of their own: the process exits when they are done, ...                  *)
Exit(i) ==
  /\ phase[i] = "closing"
  /\ inflight[i] = {}
  /\ Gone(i)
  /\ UNCHANGED exits

(* ... or when the timeout of the whole shutdown expires (os.Exit(1)). *)
ForcedExit(i) ==
  /\ phase[i] \in {"stopping", "closing"}
  /\ Gone(i)
  /\ UNCHANGED exits

-----------------------------------------------------------------------------
(* Sessions *)

(* A session begins, without subscriptions; the set is as it was.           *)
(* OnConnect enqueues the synchronization of the session, which a scheduler *)
(* that has stopped does not take.  (The callback may run later; until then *)
(* the job waits, as it may do in the scheduler.)                           *)
NewSession(i, k) ==
  /\ k \notin begun
  /\ begun' = begun \cup {k}
  /\ conn' = [conn EXCEPT ![i] = "up"]
  /\ session' = [session EXCEPT ![i] = k]
  /\ sync' = IF Scheduling(i) THEN [sync EXCEPT ![k] = [st |-> "queued", at |-> i]] ELSE sync
  /\ UNCHANGED <<redis, rows, phase, outcome, topics, lostCbs, lock, jobs, requests, exits,
                 outlived>>

Connect(i) ==
  Scheduling(i) /\ conn[i] = "connecting" /\ \E k \in Sessions : NewSession(i, k)

(* The first connection fails; nobody tries again. *)
ConnectFails(i) ==
  /\ Faults
  /\ Scheduling(i) /\ conn[i] = "connecting"
  /\ conn' = [conn EXCEPT ![i] = "none"]
  /\ UNCHANGED <<redis, rows, phase, session, outcome, topics, lostCbs, sync, lock, jobs,
                 counters, outlived>>

Reconnect(i) == conn[i] = "lost" /\ \E k \in Sessions : NewSession(i, k)

(* The connection is lost, and the client calls OnConnectionLost in a       *)
(* goroutine.                                                               *)
Lose(i) ==
  /\ conn[i] = "up"
  /\ begun # Sessions
  /\ Over(i, "lost")
  /\ lostCbs' = [lostCbs EXCEPT ![i] = @ + 1]
  /\ UNCHANGED <<redis, rows, phase, values, sync, lock, jobs, counters, outlived>>

(* Faulty variant of OnConnectionLost: the set is not cleared. *)
OnConnectionLostKeep(i) ==
  /\ lostCbs[i] > 0
  /\ lostCbs' = [lostCbs EXCEPT ![i] = @ - 1]
  /\ UNCHANGED <<redis, rows, process, topics, sync, lock, jobs, counters, outlived>>

(* OnConnectionLost: ClearSubscriptions, whatever session there is by now. *)
OnConnectionLost(i) ==
  /\ lostCbs[i] > 0
  /\ lostCbs' = [lostCbs EXCEPT ![i] = @ - 1]
  /\ values' = [values EXCEPT ![i] = {}]
  /\ UNCHANGED <<redis, rows, process, served, excused, sync, lock, jobs, counters, outlived>>

-----------------------------------------------------------------------------
(* Subscribe and Unsubscribe of the service *)

(* Subscribe: without a connection, for a topic of the set and when the     *)
(* broker refuses, the caller goes on and nothing has changed.              *)
Subscribe(i, t) ==
  \/ /\ conn[i] # "up" \/ t \in values[i]
     /\ UNCHANGED topics
  \/ /\ Faults
     /\ conn[i] = "up" /\ t \notin values[i]
     /\ excused' = [excused EXCEPT ![i] = @ \cup {t}]
     /\ UNCHANGED <<values, served>>
  \/ /\ conn[i] = "up" /\ t \notin values[i]
     /\ values' = [values EXCEPT ![i] = @ \cup {t}]
     /\ served' = [served EXCEPT ![i] = @ \cup {t}]
     /\ excused' = [excused EXCEPT ![i] = @ \ {t}]

(* Unsubscribe: likewise, for a topic that is not in the set. *)
Unsubscribe(i, t) ==
  \/ /\ conn[i] # "up" \/ t \notin values[i] \/ Faults
     /\ UNCHANGED topics
  \/ /\ conn[i] = "up" /\ t \in values[i]
     /\ values' = [values EXCEPT ![i] = @ \ {t}]
     /\ served' = [served EXCEPT ![i] = @ \ {t}]
     /\ excused' = [excused EXCEPT ![i] = @ \cup {t}]

-----------------------------------------------------------------------------
(* The synchronization of session k *)

(* What the set holds for delivered that a late callback has yet to clear.  *)
Late(i) == IF lostCbs[i] > 0 THEN values[i] \ served[i] ELSE {}

(* The job starts: with the lock, where there is a Redis, it reads the      *)
(* table; when that fails, its loop is empty.                               *)
SyncStart(k) ==
  LET i == sync[k].at IN
  /\ sync[k].st = "queued"
  /\ redis => lock = None
  /\ lock' = IF redis THEN k ELSE None
  /\ \/ /\ sync' = [sync EXCEPT ![k] = [st |-> "running", at |-> i, todo |-> rows]]
        /\ Settle(k, i, "read")
        /\ excused' = IF session[i] = k THEN [excused EXCEPT ![i] = Late(i)] ELSE excused
     \/ /\ Faults
        /\ sync' = [sync EXCEPT ![k] = [st |-> "running", at |-> i, todo |-> {}]]
        /\ Settle(k, i, "failed")
        /\ UNCHANGED excused
  /\ UNCHANGED <<redis, rows, phase, conn, session, values, served, lostCbs, jobs, counters,
                 outlived>>

(* The lock is not obtained: as often as LOCK_REDIS_TASK_LOCK_TRIES says,   *)
(* another has it, or Redis does not answer.                                *)
SyncSkipped(k) ==
  /\ sync[k].st = "queued"
  /\ redis /\ (lock # None \/ Faults)
  /\ Ends(k)
  /\ Settle(k, sync[k].at, "skipped")
  /\ UNCHANGED <<redis, rows, phase, conn, session, topics, lostCbs, lock, jobs, counters>>

(* The loop subscribes one topic after the other, whatever comes of it. *)
SyncSubscribe(k) ==
  /\ Running(k)
  /\ \E t \in sync[k].todo :
       /\ Subscribe(sync[k].at, t)
       /\ sync' = [sync EXCEPT ![k].todo = @ \ {t}]
  /\ UNCHANGED <<redis, rows, process, lostCbs, lock, jobs, counters, outlived>>

(* Faulty variant of Release: whoever ends releases the lock. *)
ReleaseAny(k) ==
  \/ lock' = None
  \/ (Faults \/ ~Scheduling(sync[k].at)) /\ UNCHANGED lock

(* Only the owner releases the lock.  That may fail: Redis does not answer, *)
(* or the scheduler that stops has cancelled the job's context.             *)
Release(k) ==
  \/ lock' = IF lock = k THEN None ELSE lock
  \/ (Faults \/ ~Scheduling(sync[k].at)) /\ UNCHANGED lock

(* The job ends. *)
SyncEnd(k) ==
  /\ Running(k)
  /\ sync[k].todo = {}
  /\ Ends(k)
  /\ Release(k)
  /\ UNCHANGED <<redis, rows, process, topics, lostCbs, jobs, counters>>

(* LOCK_REDIS_TASK_LOCK_AT_MOST. *)
LockExpires ==
  /\ lock # None
  /\ lock' = None
  /\ outlived' = outlived \cup {k \in {lock} : Running(k)}
  /\ UNCHANGED <<redis, rows, process, topics, lostCbs, sync, jobs, counters>>

-----------------------------------------------------------------------------
(* Requests *)

(* A request at instance i replaces the rows of the topics old by ones of   *)
(* the topics new, and has yet to enqueue the jobs.                         *)
Request(i, old, new, js) ==
  /\ Listening(i)
  /\ requests < MaxRequests
  /\ requests' = requests + 1
  /\ rows' = (rows \ old) \cup new
  /\ inflight' = [inflight EXCEPT ![i] = @ \cup js]
  /\ excused' = [j \in Instances |->
                   IF j # i /\ outcome[j] = "read" THEN excused[j] \cup (new \ old)
                                                   ELSE excused[j]]
  /\ UNCHANGED <<redis, process, values, served, lostCbs, sync, lock, queued, begun, exits,
                 outlived>>

(* A subscription of t is created (or one of kind status becomes one). *)
Create(i, t) ==
  /\ t \notin rows
  /\ Request(i, {}, {t}, Job("subscribe", {t}, requests + 1))

(* The subscription of t becomes one of the topic in new, or of kind status *)
(* when there is none: an unsubscribe job for the one, a subscribe job for  *)
(* the other, and nothing orders them.                                      *)
Update(i, t, new) ==
  /\ t \in rows
  /\ new \cap (rows \ {t}) = {}
  /\ Request(i, {t}, new,
             Job("unsubscribe", {t}, requests + 1) \cup Job("subscribe", new, requests + 1))

(* The subscription of t is deleted, which enqueues a subscription as well  *)
(* (mqtt_subscription_store.go:92).                                         *)
Delete(i, t) ==
  /\ t \in rows
  /\ Request(i, {t}, {}, Job("subscribe", {t}, requests + 1))

(* Request n enqueues its jobs; a scheduler that has stopped refuses them,  *)
(* which is only logged.  (Those of an update one after the other: the      *)
(* first may run before the second is there, as it may before the second    *)
(* runs.)                                                                   *)
Enqueue(i, n) ==
  LET js == {j \in inflight[i] : j.request = n} IN
  /\ js # {}
  /\ inflight' = [inflight EXCEPT ![i] = @ \ js]
  /\ queued' = IF Scheduling(i) THEN [queued EXCEPT ![i] = @ \cup js] ELSE queued
  /\ UNCHANGED <<redis, rows, process, topics, lostCbs, sync, lock, counters, outlived>>

(* A job runs, without the distributed lock. *)
RunJob(i, j) ==
  /\ j \in queued[i]
  /\ queued' = [queued EXCEPT ![i] = @ \ {j}]
  /\ UNCHANGED <<redis, rows, process, lostCbs, sync, lock, inflight, counters, outlived>>

RunSubscribe(i, j)   == j.op = "subscribe" /\ RunJob(i, j) /\ Subscribe(i, j.topic)
RunUnsubscribe(i, j) == j.op = "unsubscribe" /\ RunJob(i, j) /\ Unsubscribe(i, j.topic)

-----------------------------------------------------------------------------
InstanceStep(i) ==
  \/ Start(i) \/ Crash(i)
  \/ Quit(i) \/ Disconnect(i) \/ Exit(i) \/ ForcedExit(i)
  \/ Connect(i) \/ ConnectFails(i) \/ Lose(i) \/ Reconnect(i) \/ OnConnectionLost(i)
  \/ \E t \in Topics : Create(i, t) \/ Delete(i, t)
  \/ \E t \in Topics : \E new \in {{}} \cup {{u} : u \in Topics} : Update(i, t, new)
  \/ \E n \in 1..MaxRequests : Enqueue(i, n)
  \/ \E j \in queued[i] : RunSubscribe(i, j) \/ RunUnsubscribe(i, j)

SyncStep(k) == SyncStart(k) \/ SyncSkipped(k) \/ SyncSubscribe(k) \/ SyncEnd(k)

Next ==
  \/ \E i \in Instances : InstanceStep(i)
  \/ \E k \in Sessions : SyncStep(k)
  \/ LockExpires

Spec == Init /\ [][Next]_vars

-----------------------------------------------------------------------------
(* Properties *)

(* With a Redis, two synchronizations run at a time only when one of them   *)
(* has outlived its lock: whoever stops, crashes or releases a lock that is *)
(* no longer its own, a third one never gets in (task.go:59-64).            *)
SyncAlone ==
  redis => \A k, l \in Sessions : Running(k) /\ Running(l) /\ k # l => {k, l} \cap outlived # {}

(* What instance i has to do for its subscriptions, or has given up. *)
Busy(i) ==
  \/ inflight[i] \cup queued[i] # {}
  \/ \E k \in Sessions : IsAt(k, i)

(* Where the job of the session has read the table, an instance that runs,  *)
(* is connected and has nothing left to do delivers every persisted         *)
(* subscription, but those of a topic that                                  *)
(*  - the job took for subscribed, because the callback that clears the set *)
(*    of a lost session had not run;                                        *)
(*  - got its row at another instance since;                                *)
(*  - the broker has refused; or                                            *)
(*  - the unsubscribe job of an update has dropped;                         *)
(* and that no job has subscribed since.  Nothing else has this effect: no  *)
(* exit or crash of any instance, no lost connection whose callback is in   *)
(* time, no stale lock, no job of an earlier session that still runs, no    *)
(* callback that clears what the new session has subscribed                 *)
(* (ecoflow_mqtt.go:71-80, 127-188).                                        *)
SyncedServes ==
  \A i \in Instances :
    /\ phase[i] = "up" /\ conn[i] = "up" /\ ~Busy(i)
    /\ outcome[i] \notin {"skipped", "failed"}
    => rows \subseteq served[i] \cup excused[i]
=============================================================================
