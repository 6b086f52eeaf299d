---------------------------- MODULE ClusterProofs ----------------------------
(***************************************************************************)
(* What holds of a cluster for every number of instances, topics,          *)
(* sessions, requests and exits: its types, who runs a synchronization,    *)
(* and what an instance whose work is done has subscribed to.              *)
(***************************************************************************)
EXTENDS Cluster, TLAPS

(* With a Redis, whoever synchronizes has the lock, or has outlived it. *)
OwnsOrOutlived ==
  redis => \A k \in Sessions : Running(k) => k \in outlived \/ lock = k

(* An instance without a session, and a process that does not run. *)
Off(i) ==
  /\ session[i] \in begun \cup {None}
  /\ conn[i] # "up" => session[i] = None /\ outcome[i] = "open"
  /\ phase[i] = "down" => conn[i] = "none" /\ values[i] = {}

(* When no callback is late, the set holds nothing but what is delivered:   *)
(* nothing between two sessions.                                            *)
Cleared(i) ==
  lostCbs[i] = 0 =>
    /\ conn[i] \in {"connecting", "lost"} => values[i] = {}
    /\ conn[i] = "up" => values[i] \subseteq served[i]

(* The synchronization of the session of instance i waits, or runs and has  *)
(* yet to subscribe to these topics; so have the jobs of requests to these. *)
Waits(i) == IsAt(session[i], i) /\ ~Running(session[i])

Todo(i) ==
  IF IsAt(session[i], i) /\ Running(session[i]) THEN sync[session[i]].todo ELSE {}

JobTopics(i) == {j.topic : j \in {jb \in queued[i] \cup inflight[i] : jb.op = "subscribe"}}

(* What instance i delivers or has a reason not to, and what it has to do. *)
Settled(i) == served[i] \cup excused[i]
Covered(i) == Settled(i) \cup JobTopics(i) \cup Todo(i)

(* Once an instance that runs and is connected has read the table, whatever *)
(* row it does not deliver it has a reason not to, or has yet to subscribe; *)
(* and "already subscribed" is true, or a reason.                           *)
PursuedBy(i) ==
  phase[i] = "up" /\ conn[i] = "up" =>
    /\ session[i] \in Sessions
    /\ outcome[i] = "open" <=> Waits(i)
    /\ outcome[i] = "read" => values[i] \subseteq Settled(i) /\ rows \subseteq Covered(i)

Local(i) == Off(i) /\ Cleared(i) /\ PursuedBy(i)

Inv ==
  /\ TypeOK
  /\ OwnsOrOutlived
  /\ \A i \in Instances : Local(i)

-----------------------------------------------------------------------------
(* Subscribe and Unsubscribe *)

(* What neither of them does: to touch another instance, to forget a topic  *)
(* without a reason, or to take a topic for delivered that is not.          *)
Careful(i) ==
  /\ values' \in [Instances -> SUBSET Topics]
  /\ served' \in [Instances -> SUBSET Topics]
  /\ excused' \in [Instances -> SUBSET Topics]
  /\ \A j \in Instances \ {i} :
       values'[j] = values[j] /\ served'[j] = served[j] /\ excused'[j] = excused[j]
  /\ Settled(i) \subseteq Settled(i)'
  /\ conn[i] # "up" => values'[i] = values[i]
  /\ values[i] \subseteq served[i] => values'[i] \subseteq served'[i]
  /\ values[i] \subseteq Settled(i) => values'[i] \subseteq Settled(i)'

LEMMA SubscribeCareful ==
  ASSUME TypeOK, NEW i \in Instances, NEW t \in Topics, Subscribe(i, t)
  PROVE  /\ Careful(i)
         /\ conn[i] = "up" /\ values[i] \subseteq Settled(i) => t \in Settled(i)'
<1> USE DEF TypeOK, Settled, Careful
<1>1. CASE (conn[i] # "up" \/ t \in values[i]) /\ UNCHANGED topics
  BY <1>1 DEF topics
<1>2. CASE excused' = [excused EXCEPT ![i] = @ \cup {t}] /\ UNCHANGED <<values, served>>
  BY <1>2
<1>3. CASE /\ conn[i] = "up"
           /\ values' = [values EXCEPT ![i] = @ \cup {t}]
           /\ served' = [served EXCEPT ![i] = @ \cup {t}]
           /\ excused' = [excused EXCEPT ![i] = @ \ {t}]
  BY <1>3
<1> QED
  BY <1>1, <1>2, <1>3 DEF Subscribe

LEMMA UnsubscribeCareful ==
  ASSUME TypeOK, NEW i \in Instances, NEW t \in Topics, Unsubscribe(i, t)
  PROVE  Careful(i)
<1> USE DEF TypeOK, Settled, Careful
<1>1. CASE UNCHANGED topics
  BY <1>1 DEF topics
<1>2. CASE /\ conn[i] = "up"
           /\ values' = [values EXCEPT ![i] = @ \ {t}]
           /\ served' = [served EXCEPT ![i] = @ \ {t}]
           /\ excused' = [excused EXCEPT ![i] = @ \cup {t}]
  BY <1>2
<1> QED
  BY <1>1, <1>2 DEF Unsubscribe

-----------------------------------------------------------------------------
(* Types *)

(* The fields of a synchronization that is in the scheduler. *)
LEMMA SyncFields ==
  ASSUME TypeOK, NEW k \in Sessions
  PROVE  /\ sync[k].st \in {"idle", "queued", "running"}
         /\ sync[k].st # "idle" => sync[k].at \in Instances
         /\ sync[k].st = "running" =>
              sync[k] \in [st : {"running"}, at : Instances, todo : SUBSET Topics]
<1>1. sync[k] \in SyncJobs
  BY DEF TypeOK
<1> QED
  BY <1>1 DEF SyncJobs, Idle

LEMMA TypeInit == Init => TypeOK
<1> SUFFICES ASSUME Init PROVE TypeOK
  OBVIOUS
<1>1. redis \in BOOLEAN
  BY Zenon DEF Init
<1> QED
  BY <1>1, ClusterAssumption DEF Init, TypeOK, Phases, Outcomes, SyncJobs

LEMMA TypeGone ==
  ASSUME TypeOK, NEW i \in Instances, Gone(i), exits' \in 0..MaxExits
  PROVE  TypeOK'
<1>1. redis' \in BOOLEAN
  BY Zenon DEF TypeOK, Gone
<1>2. sync' \in [Sessions -> SyncJobs]
  BY DEF TypeOK, Gone, SyncJobs
<1> QED
  BY <1>1, <1>2, ClusterAssumption DEF TypeOK, Gone, Over, Phases, Outcomes

LEMMA TypeNewSession ==
  ASSUME TypeOK, NEW i \in Instances, NEW k \in Sessions, NewSession(i, k)
  PROVE  TypeOK'
<1>1. redis' \in BOOLEAN
  BY Zenon DEF TypeOK, NewSession
<1>2. sync' \in [Sessions -> SyncJobs]
  <2>1. [st |-> "queued", at |-> i] \in SyncJobs
    BY DEF SyncJobs
  <2> QED
    BY <2>1 DEF TypeOK, NewSession
<1> QED
  BY <1>1, <1>2 DEF TypeOK, NewSession, topics, jobs

LEMMA TypeRequest ==
  ASSUME TypeOK, NEW i \in Instances, NEW old \in SUBSET Topics, NEW new \in SUBSET Topics,
         NEW js, requests < MaxRequests => js \subseteq Jobs, Request(i, old, new, js)
  PROVE  TypeOK'
<1>1. redis' \in BOOLEAN
  BY Zenon DEF TypeOK, Request
<1> QED
  BY <1>1, ClusterAssumption DEF TypeOK, Request, process

LEMMA JobType ==
  ASSUME TypeOK, requests < MaxRequests, NEW S \in SUBSET Topics, NEW op \in {"subscribe", "unsubscribe"}
  PROVE  Job(op, S, requests + 1) \subseteq Jobs
<1>1. requests + 1 \in 1..MaxRequests
  BY ClusterAssumption DEF TypeOK
<1> QED
  BY <1>1 DEF Job, Jobs

LEMMA TypeInstance ==
  ASSUME TypeOK, NEW i \in Instances, InstanceStep(i)
  PROVE  TypeOK'
<1> USE ClusterAssumption DEF TypeOK, process, topics, jobs, counters
<1>r. redis' \in BOOLEAN
  <2>1. redis' = redis
    BY DEF InstanceStep, Start, Crash, Quit, Disconnect, Exit, ForcedExit, Connect, ConnectFails,
           Lose, Reconnect, OnConnectionLost, Create, Update, Delete, Request, Enqueue,
           RunSubscribe, RunUnsubscribe, RunJob, Gone, NewSession
  <2> QED
    BY <2>1, Zenon
<1>1. CASE Start(i)
  BY <1>1, <1>r DEF Start, Phases
<1>2. CASE Crash(i) \/ Exit(i) \/ ForcedExit(i)
  BY <1>2, TypeGone DEF Crash, Exit, ForcedExit
<1>3. CASE Quit(i)
  <2>1. sync' \in [Sessions -> SyncJobs]
    BY <1>3 DEF Quit, SyncJobs
  <2>2. /\ conn' \in [Instances -> {"none", "connecting", "up", "lost"}]
        /\ outcome' \in [Instances -> Outcomes]
    BY <1>3 DEF Quit, Outcomes
  <2> QED
    BY <1>3, <1>r, <2>1, <2>2 DEF Quit, Phases
<1>4. CASE Disconnect(i)
  BY <1>4, <1>r DEF Disconnect, Over, Phases, Outcomes
<1>5. CASE Connect(i) \/ Reconnect(i)
  BY <1>5, TypeNewSession DEF Connect, Reconnect
<1>6. CASE ConnectFails(i) \/ Lose(i)
  BY <1>6, <1>r DEF ConnectFails, Lose, Over, Outcomes
<1>7. CASE OnConnectionLost(i)
  BY <1>7, <1>r DEF OnConnectionLost
<1>8. ASSUME NEW t \in Topics, Create(i, t) \/ Delete(i, t) PROVE TypeOK'
  BY <1>8, JobType, TypeRequest DEF Create, Delete
<1>9. ASSUME NEW t \in Topics, NEW new \in {{}} \cup {{u} : u \in Topics}, Update(i, t, new)
      PROVE  TypeOK'
  <2> DEFINE js == Job("unsubscribe", {t}, requests + 1) \cup Job("subscribe", new, requests + 1)
  <2>1. new \in SUBSET Topics
    OBVIOUS
  <2>2. requests < MaxRequests => js \subseteq Jobs
    BY <2>1, JobType
  <2> QED
    BY <1>9, <2>1, <2>2, TypeRequest DEF Update
<1>10. ASSUME NEW n, Enqueue(i, n) PROVE TypeOK'
  BY <1>10, <1>r DEF Enqueue
<1>11. ASSUME NEW j \in queued[i], RunSubscribe(i, j) \/ RunUnsubscribe(i, j) PROVE TypeOK'
  <2>1. j.topic \in Topics
    BY DEF Jobs
  <2>2. Careful(i)
    BY <1>11, <2>1, SubscribeCareful, UnsubscribeCareful DEF RunSubscribe, RunUnsubscribe
  <2> QED
    BY <1>11, <1>r, <2>2 DEF RunSubscribe, RunUnsubscribe, RunJob, Careful
<1> QED
  BY <1>1, <1>2, <1>3, <1>4, <1>5, <1>6, <1>7, <1>8, <1>9, <1>10, <1>11 DEF InstanceStep

LEMMA TypeSync ==
  ASSUME TypeOK, NEW k \in Sessions, SyncStep(k)
  PROVE  TypeOK'
<1> USE ClusterAssumption DEF TypeOK, process, topics, jobs, counters
<1>r. redis' \in BOOLEAN
  <2>1. redis' = redis
    BY DEF SyncStep, SyncStart, SyncSkipped, SyncSubscribe, SyncEnd
  <2> QED
    BY <2>1, Zenon
<1>s. ASSUME NEW i \in Instances, NEW how \in Outcomes, Settle(k, i, how)
      PROVE  outcome' \in [Instances -> Outcomes]
  BY <1>s DEF Settle
<1>e. Ends(k) => sync' \in [Sessions -> SyncJobs] /\ outlived' \subseteq Sessions
  BY DEF Ends, SyncJobs
<1>1. CASE SyncStart(k)
  <2>1. sync[k].at \in Instances
    BY <1>1, SyncFields DEF SyncStart
  <2>2. ASSUME NEW S \in SUBSET Topics
        PROVE  [st |-> "running", at |-> sync[k].at, todo |-> S] \in SyncJobs
    BY <2>1 DEF SyncJobs
  <2>3. sync' \in [Sessions -> SyncJobs]
    BY <1>1, <2>2 DEF SyncStart
  <2>4. outcome' \in [Instances -> Outcomes]
    BY <1>1, <1>s, <2>1 DEF SyncStart, Outcomes
  <2>5. excused' \in [Instances -> SUBSET Topics]
    BY <1>1, <2>1 DEF SyncStart, Late
  <2> QED
    BY <1>1, <1>r, <2>3, <2>4, <2>5 DEF SyncStart
<1>2. CASE SyncSkipped(k)
  <2>1. sync[k].at \in Instances /\ "skipped" \in Outcomes
    BY <1>2, SyncFields DEF SyncSkipped, Outcomes
  <2> QED
    BY <1>2, <1>r, <1>e, <1>s, <2>1 DEF SyncSkipped
<1>3. CASE SyncSubscribe(k)
  <2>1. PICK t \in sync[k].todo : /\ Subscribe(sync[k].at, t)
                                  /\ sync' = [sync EXCEPT ![k].todo = @ \ {t}]
    BY <1>3 DEF SyncSubscribe
  <2>2. sync[k] \in [st : {"running"}, at : Instances, todo : SUBSET Topics]
    BY <1>3, SyncFields DEF SyncSubscribe, Running
  <2>3. [sync[k] EXCEPT !.todo = @ \ {t}]
          \in [st : {"running"}, at : Instances, todo : SUBSET Topics]
    BY <2>2
  <2>4. [sync[k] EXCEPT !.todo = @ \ {t}] \in SyncJobs
    BY <2>3 DEF SyncJobs
  <2>5. sync' \in [Sessions -> SyncJobs]
    BY <2>1, <2>4
  <2>6. Careful(sync[k].at)
    BY <2>1, <2>2, SubscribeCareful
  <2> QED
    BY <1>3, <1>r, <2>5, <2>6 DEF SyncSubscribe, Careful
<1>4. CASE SyncEnd(k)
  <2>1. lock' \in Sessions \cup {None}
    BY <1>4 DEF SyncEnd, Release
  <2> QED
    BY <1>4, <1>r, <1>e, <2>1 DEF SyncEnd
<1> QED
  BY <1>1, <1>2, <1>3, <1>4 DEF SyncStep

LEMMA TypeNext == TypeOK /\ [Next]_vars => TypeOK'
<1> SUFFICES ASSUME TypeOK, [Next]_vars PROVE TypeOK'
  OBVIOUS
<1>1. CASE LockExpires
  <2>1. redis' \in BOOLEAN
    BY <1>1, Zenon DEF TypeOK, LockExpires
  <2>2. outlived' \subseteq Sessions
    BY <1>1 DEF TypeOK, LockExpires
  <2> QED
    BY <1>1, <2>1, <2>2 DEF TypeOK, LockExpires, process, topics, jobs, counters
<1>2. CASE UNCHANGED vars
  <2>1. redis' \in BOOLEAN
    BY <1>2, Zenon DEF TypeOK, vars
  <2> QED
    BY <1>2, <2>1 DEF TypeOK, vars, process, topics, jobs, counters
<1> QED
  BY <1>1, <1>2, TypeInstance, TypeSync DEF Next

-----------------------------------------------------------------------------
(* The distributed lock *)

(* A step that starts no synchronization, and keeps the lock and the record *)
(* of whoever outlived it, leaves it to its owner.                          *)
LEMMA LockUntouched ==
  ASSUME OwnsOrOutlived, UNCHANGED <<redis, lock>>,
         \A k \in Sessions : Running(k)' => Running(k) /\ (k \in outlived => k \in outlived')
  PROVE  OwnsOrOutlived'
BY DEF OwnsOrOutlived

LEMMA LockNext ==
  ASSUME TypeOK, OwnsOrOutlived, [Next]_vars
  PROVE  OwnsOrOutlived'
<1> USE DEF process, topics, jobs, counters
<1>1. ASSUME NEW i \in Instances, Gone(i) PROVE OwnsOrOutlived'
  <2>1. \A k \in Sessions : Running(k)' => Running(k) /\ ~IsAt(k, i)
    BY <1>1 DEF Gone, Running, Idle
  <2> QED
    BY <1>1, <2>1, LockUntouched DEF Gone
<1>2. ASSUME NEW i \in Instances, Quit(i) PROVE OwnsOrOutlived'
  <2>1. \A k \in Sessions : Running(k)' => Running(k)
    BY <1>2 DEF Quit, Running, Idle
  <2> QED
    BY <1>2, <2>1, LockUntouched DEF Quit
<1>3. ASSUME NEW i \in Instances, NEW l \in Sessions, NewSession(i, l) PROVE OwnsOrOutlived'
  <2>1. \A k \in Sessions : Running(k)' => Running(k)
    BY <1>3 DEF TypeOK, NewSession, Running
  <2> QED
    BY <1>3, <2>1, LockUntouched DEF NewSession
<1>4. ASSUME NEW i \in Instances, InstanceStep(i) PROVE OwnsOrOutlived'
  <2>1. CASE UNCHANGED <<redis, lock, sync, outlived>>
    BY <2>1, LockUntouched DEF Running
  <2> QED
    BY <1>1, <1>2, <1>3, <1>4, <2>1
       DEF InstanceStep, Start, Crash, Disconnect, Exit, ForcedExit, Connect, ConnectFails, Lose,
           Reconnect, OnConnectionLost, Create, Update, Delete, Request, Enqueue, RunSubscribe,
           RunUnsubscribe, RunJob
<1>5. ASSUME NEW k \in Sessions, SyncStep(k) PROVE OwnsOrOutlived'
  <2>1. CASE SyncStart(k)
    <3>1. \A l \in Sessions : Running(l)' => Running(l) \/ l = k
      BY <2>1 DEF TypeOK, SyncStart, Running
    <3>2. outlived' = outlived /\ redis' = redis
      BY <2>1 DEF SyncStart
    <3>3. redis => lock = None /\ lock' = k
      BY <2>1 DEF SyncStart
    <3>4. None \notin Sessions
      BY ClusterAssumption
    <3> QED
      BY <3>1, <3>2, <3>3, <3>4, Zenon DEF OwnsOrOutlived
  <2>2. CASE SyncSkipped(k)
    BY <2>2 DEF TypeOK, SyncSkipped, Ends, OwnsOrOutlived, Running, Idle
  <2>3. CASE SyncSubscribe(k)
    <3>1. \A l \in Sessions : Running(l)' => Running(l)
      BY <2>3 DEF TypeOK, SyncSubscribe, Running
    <3> QED
      BY <2>3, <3>1, LockUntouched DEF SyncSubscribe
  <2>4. CASE SyncEnd(k)
    <3>1. /\ \A l \in Sessions : Running(l)' => Running(l) /\ l # k
          /\ outlived' = outlived \ {k} /\ redis' = redis
      BY <2>4 DEF TypeOK, SyncEnd, Ends, Running, Idle
    <3>2. lock' = lock \/ lock = k
      BY <2>4 DEF SyncEnd, Release
    <3> QED
      BY <3>1, <3>2 DEF OwnsOrOutlived
  <2> QED
    BY <1>5, <2>1, <2>2, <2>3, <2>4 DEF SyncStep
<1>6. CASE LockExpires
  BY <1>6 DEF LockExpires, OwnsOrOutlived, Running
<1>7. CASE UNCHANGED vars
  BY <1>7 DEF vars, OwnsOrOutlived, Running
<1> QED
  BY <1>4, <1>5, <1>6, <1>7 DEF Next

-----------------------------------------------------------------------------
(* The instances *)

(* What holds of an instance goes on to hold as long as it keeps its        *)
(* session, and no topic leaves what it delivers, is excused for, or has    *)
(* yet to do.                                                               *)
LEMMA Unmoved ==
  ASSUME NEW i, Local(i),
         phase'[i] = phase[i], conn'[i] = conn[i], session'[i] = session[i],
         outcome'[i] = outcome[i], lostCbs'[i] = lostCbs[i], begun \subseteq begun',
         conn[i] # "up" => values'[i] = values[i],
         values[i] \subseteq served[i] => values'[i] \subseteq served'[i],
         values[i] \subseteq Settled(i) => values'[i] \subseteq Settled(i)',
         session[i] \in Sessions => (Waits(i)' <=> Waits(i)),
         /\ session[i] \in Sessions /\ conn[i] = "up" /\ outcome[i] = "read"
         /\ values[i] \subseteq Settled(i)
         /\ rows \subseteq Covered(i)
         => rows' \subseteq Covered(i)'
  PROVE  Local(i)'
<1>1. Off(i)'
  BY DEF Local, Off
<1>2. Cleared(i)'
  BY DEF Local, Cleared
<1>3. PursuedBy(i)'
  BY DEF Local, PursuedBy
<1> QED
  BY <1>1, <1>2, <1>3 DEF Local

(* ... in particular at an instance where nothing happens.                  *)
LEMMA Elsewhere ==
  ASSUME NEW i, Local(i),
         phase'[i] = phase[i], conn'[i] = conn[i], session'[i] = session[i],
         outcome'[i] = outcome[i], lostCbs'[i] = lostCbs[i], begun \subseteq begun',
         values'[i] = values[i], served'[i] = served[i],
         queued'[i] = queued[i], inflight'[i] = inflight[i],
         excused[i] \subseteq excused'[i],
         session[i] \in Sessions =>
           \/ sync'[session[i]] = sync[session[i]]
           \/ ~IsAt(session[i], i) /\ ~IsAt(session[i], i)',
         outcome[i] = "read" => rows' \subseteq rows \cup excused'[i]
  PROVE  Local(i)'
<1>1. /\ session[i] \in Sessions => (Waits(i)' <=> Waits(i))
      /\ session[i] \in Sessions => Todo(i)' = Todo(i)
  BY DEF Waits, Todo, IsAt, Running
<1>2. JobTopics(i)' = JobTopics(i)
  BY DEF JobTopics
<1>3. Settled(i) \subseteq Settled(i)' /\ excused'[i] \subseteq Settled(i)'
  BY DEF Settled
<1>4. session[i] \in Sessions /\ outcome[i] = "read" /\ rows \subseteq Covered(i)
        => rows' \subseteq Covered(i)'
  BY <1>1, <1>2, <1>3 DEF Covered
<1> QED
  BY <1>1, <1>3, <1>4, Unmoved

LEMMA LocalGone ==
  ASSUME TypeOK, NEW i \in Instances, Gone(i), \A j \in Instances : Local(j),
         NEW j \in Instances
  PROVE  Local(j)'
<1>1. CASE j = i
  BY <1>1 DEF TypeOK, Gone, Over, Local, Off, Cleared, PursuedBy
<1>2. CASE j # i
  <2>1. session[j] \in Sessions => \/ sync'[session[j]] = sync[session[j]]
                                   \/ ~IsAt(session[j], j) /\ ~IsAt(session[j], j)'
    BY <1>2 DEF TypeOK, Gone, Over, IsAt, Idle
  <2> QED
    BY <1>2, <2>1, Elsewhere DEF TypeOK, Gone, Over
<1> QED
  BY <1>1, <1>2

LEMMA LocalNewSession ==
  ASSUME TypeOK, NEW i \in Instances, NEW k \in Sessions, NewSession(i, k),
         conn[i] \in {"connecting", "lost"}, \A j \in Instances : Local(j),
         NEW j \in Instances
  PROVE  Local(j)'
<1> USE DEF topics, jobs
<1>1. CASE j = i
  <2>1. /\ session'[i] = k /\ conn'[i] = "up" /\ phase'[i] = phase[i]
        /\ outcome'[i] = "open" /\ begun' = begun \cup {k}
        /\ values'[i] = values[i] /\ lostCbs'[i] = lostCbs[i]
    BY DEF TypeOK, NewSession, Local, Off
  <2>2. Off(i)'
    BY <2>1 DEF NewSession, Local, Off
  <2>3. Cleared(i)'
    BY <2>1 DEF Local, Cleared
  <2>4. phase[i] = "up" => Waits(i)'
    BY <2>1 DEF TypeOK, NewSession, Scheduling, Waits, IsAt, Running
  <2>5. PursuedBy(i)'
    BY <2>1, <2>4 DEF PursuedBy
  <2> QED
    BY <1>1, <2>2, <2>3, <2>5 DEF Local
<1>2. CASE j # i
  <2>1. session[j] # k
    BY ClusterAssumption DEF Local, Off, NewSession
  <2>2. session[j] \in Sessions => sync'[session[j]] = sync[session[j]]
    BY <2>1 DEF TypeOK, NewSession
  <2> QED
    BY <1>2, <2>2, Elsewhere DEF TypeOK, NewSession
<1> QED
  BY <1>1, <1>2

LEMMA JobOf ==
  ASSUME NEW S, NEW n, NEW t \in S
  PROVE  \E jb \in Job("subscribe", S, n) : jb.op = "subscribe" /\ jb.topic = t
<1>1. [op |-> "subscribe", topic |-> t, request |-> n] \in Job("subscribe", S, n)
  BY DEF Job
<1> QED
  BY <1>1

(* A request leaves its job of subscription for every topic it gives a row. *)
LEMMA LocalRequest ==
  ASSUME TypeOK, NEW i \in Instances, NEW old, NEW new, NEW js, Request(i, old, new, js),
         old \subseteq rows,
         \A t \in new : \E jb \in js : jb.op = "subscribe" /\ jb.topic = t,
         \A j \in Instances : Local(j), NEW j \in Instances
  PROVE  Local(j)'
<1> USE DEF process
<1>1. CASE j = i
  <2>1. inflight'[i] = inflight[i] \cup js /\ queued'[i] = queued[i] /\ excused'[i] = excused[i]
    BY DEF TypeOK, Request
  <2>2. JobTopics(i) \cup new \subseteq JobTopics(i)'
    BY <2>1 DEF JobTopics
  <2>3. Todo(i)' = Todo(i) /\ Settled(i)' = Settled(i) /\ (Waits(i)' <=> Waits(i))
    BY <2>1 DEF Request, Todo, Settled, Waits, IsAt, Running
  <2>4. rows' \subseteq rows \cup new
    BY DEF Request
  <2>5. rows \subseteq Covered(i) => rows' \subseteq Covered(i)'
    BY <2>2, <2>3, <2>4 DEF Covered
  <2> QED
    BY <1>1, <2>3, <2>5, Unmoved DEF Request
<1>2. CASE j # i
  <2>1. excused[j] \subseteq excused'[j]
    BY <1>2 DEF Request
  <2>2. ASSUME outcome[j] = "read" PROVE rows' \subseteq rows \cup excused'[j]
    <3>1. excused'[j] = excused[j] \cup (new \ old)
      BY <1>2, <2>2 DEF Request
    <3>2. rows' = (rows \ old) \cup new
      BY DEF Request
    <3> QED
      BY <3>1, <3>2
  <2> QED
    BY <1>2, <2>1, <2>2, Elsewhere DEF TypeOK, Request
<1> QED
  BY <1>1, <1>2

(* A job of instance i that subscribes or unsubscribes. *)
LEMMA LocalRun ==
  ASSUME TypeOK, NEW i \in Instances, NEW jb \in queued[i],
         RunSubscribe(i, jb) \/ RunUnsubscribe(i, jb),
         \A j \in Instances : Local(j), NEW j \in Instances
  PROVE  Local(j)'
<1> USE DEF process, counters
<1>1. RunJob(i, jb) /\ jb.topic \in Topics
  BY DEF TypeOK, RunSubscribe, RunUnsubscribe, Jobs
<1>2. Careful(i)
  BY <1>1, SubscribeCareful, UnsubscribeCareful DEF RunSubscribe, RunUnsubscribe
<1>3. CASE j = i
  <2>1. queued'[i] = queued[i] \ {jb} /\ inflight'[i] = inflight[i]
    BY <1>1 DEF TypeOK, RunJob
  <2>2. Todo(i)' = Todo(i) /\ (Waits(i)' <=> Waits(i))
    BY <1>1 DEF RunJob, Todo, Waits, IsAt, Running
  <2>3. JobTopics(i) \subseteq JobTopics(i)' \cup (IF jb.op = "subscribe" THEN {jb.topic} ELSE {})
    BY <2>1 DEF JobTopics
  <2>4. jb.op = "subscribe" /\ conn[i] = "up" /\ values[i] \subseteq Settled(i)
          => jb.topic \in Settled(i)'
    BY <1>1, SubscribeCareful DEF RunSubscribe, RunUnsubscribe
  <2>5. rows' = rows /\ Settled(i) \subseteq Settled(i)'
    BY <1>1, <1>2 DEF RunJob, Careful
  <2>6. conn[i] = "up" /\ values[i] \subseteq Settled(i) /\ rows \subseteq Covered(i)
          => rows' \subseteq Covered(i)'
    BY <2>2, <2>3, <2>4, <2>5 DEF Covered
  <2> QED
    BY <1>1, <1>2, <1>3, <2>2, <2>6, Unmoved DEF RunJob, Careful
<1>4. CASE j # i
  BY <1>1, <1>2, <1>4, Elsewhere DEF TypeOK, RunJob, Careful
<1> QED
  BY <1>3, <1>4

LEMMA LocalInstance ==
  ASSUME TypeOK, NEW i \in Instances, InstanceStep(i),
         \A j \in Instances : Local(j), NEW j \in Instances
  PROVE  Local(j)'
<1> USE DEF process, topics, jobs, counters
<1>1. CASE Crash(i) \/ Exit(i) \/ ForcedExit(i)
  BY <1>1, LocalGone DEF Crash, Exit, ForcedExit
<1>2. CASE Connect(i) \/ Reconnect(i)
  BY <1>2, LocalNewSession DEF Connect, Reconnect
<1>3. ASSUME NEW t \in Topics, Create(i, t) \/ Delete(i, t) PROVE Local(j)'
  <2>1. CASE Create(i, t)
    <3>1. \A u \in {t} : \E jb \in Job("subscribe", {t}, requests + 1) :
            jb.op = "subscribe" /\ jb.topic = u
      BY JobOf
    <3> QED
      BY <2>1, <3>1, LocalRequest DEF Create
  <2>2. CASE Delete(i, t)
    BY <2>2, LocalRequest DEF Delete
  <2> QED
    BY <1>3, <2>1, <2>2
<1>4. ASSUME NEW t \in Topics, NEW new, Update(i, t, new) PROVE Local(j)'
  <2> DEFINE js == Job("unsubscribe", {t}, requests + 1) \cup Job("subscribe", new, requests + 1)
  <2>1. \A u \in new : \E jb \in js : jb.op = "subscribe" /\ jb.topic = u
    BY JobOf
  <2>2. Request(i, {t}, new, js) /\ {t} \subseteq rows
    BY <1>4 DEF Update
  <2> HIDE DEF js
  <2> QED
    BY <2>1, <2>2, LocalRequest
<1>5. ASSUME NEW jb \in queued[i], RunSubscribe(i, jb) \/ RunUnsubscribe(i, jb) PROVE Local(j)'
  BY <1>5, LocalRun
<1>6. ASSUME \/ Start(i) \/ Quit(i) \/ Disconnect(i) \/ ConnectFails(i) \/ Lose(i)
             \/ OnConnectionLost(i) \/ \E n : Enqueue(i, n)
      PROVE  Local(j)'
  <2>1. CASE j # i
    <3>1. session[j] \in Sessions => \/ sync'[session[j]] = sync[session[j]]
                                     \/ ~IsAt(session[j], j) /\ ~IsAt(session[j], j)'
      BY <1>6, <2>1 DEF TypeOK, Start, Quit, Disconnect, ConnectFails, Lose, OnConnectionLost,
                        Enqueue, IsAt, Idle
    <3> QED
      BY <1>6, <2>1, <3>1, Elsewhere
         DEF TypeOK, Start, Quit, Disconnect, ConnectFails, Lose, OnConnectionLost, Enqueue, Over
  <2> SUFFICES ASSUME j = i PROVE Local(i)'
    BY <2>1
  <2>2. Local(i)
    OBVIOUS
  <2>3. CASE Start(i)
    BY <2>2, <2>3 DEF TypeOK, Start, Local, Off, Cleared, PursuedBy
  <2>4. CASE Quit(i)
    BY <2>2, <2>4 DEF TypeOK, Quit, Local, Off, Cleared, PursuedBy
  <2>5. CASE Disconnect(i)
    BY <2>2, <2>5 DEF TypeOK, Disconnect, Over, Local, Off, Cleared, PursuedBy
  <2>6. CASE ConnectFails(i)
    BY <2>2, <2>6 DEF TypeOK, ConnectFails, Scheduling, Local, Off, Cleared, PursuedBy
  <2>7. CASE Lose(i)
    BY <2>2, <2>7 DEF TypeOK, Lose, Over, Local, Off, Cleared, PursuedBy
  <2>8. CASE OnConnectionLost(i)
    <3>1. values'[i] = {}
      BY <2>8 DEF TypeOK, OnConnectionLost
    <3>2. /\ Waits(i)' <=> Waits(i)
          /\ Covered(i)' = Covered(i)
      BY <2>8 DEF OnConnectionLost, Waits, Covered, Settled, JobTopics, Todo, IsAt, Running
    <3> QED
      BY <2>2, <2>8, <3>1, <3>2 DEF OnConnectionLost, Local, Off, Cleared, PursuedBy
  <2>9. ASSUME NEW n, Enqueue(i, n) PROVE Local(i)'
    <3>1. phase[i] = "up" => queued'[i] \cup inflight'[i] = queued[i] \cup inflight[i]
      BY <2>9 DEF TypeOK, Enqueue, Scheduling
    <3>2. /\ phase'[i] = phase[i] /\ conn'[i] = conn[i] /\ session'[i] = session[i]
          /\ outcome'[i] = outcome[i] /\ lostCbs'[i] = lostCbs[i] /\ begun' = begun
          /\ values'[i] = values[i] /\ served'[i] = served[i] /\ rows' = rows
          /\ Settled(i)' = Settled(i) /\ Todo(i)' = Todo(i) /\ (Waits(i)' <=> Waits(i))
      BY <2>9 DEF Enqueue, Settled, Todo, Waits, IsAt, Running
    <3>3. phase[i] = "up" => JobTopics(i)' = JobTopics(i)
      BY <3>1 DEF JobTopics
    <3>4. Off(i)' /\ Cleared(i)'
      BY <2>2, <3>2 DEF Local, Off, Cleared
    <3>5. PursuedBy(i)'
      BY <2>2, <3>2, <3>3 DEF Local, PursuedBy, Covered
    <3> QED
      BY <3>4, <3>5 DEF Local
  <2> QED
    BY <1>6, <2>3, <2>4, <2>5, <2>6, <2>7, <2>8, <2>9
<1> QED
  BY <1>1, <1>2, <1>3, <1>4, <1>5, <1>6 DEF InstanceStep

(* A synchronization of another session, or at another instance, does not   *)
(* matter; that of the session makes its way through the table.             *)
LEMMA LocalStart ==
  ASSUME TypeOK, NEW k \in Sessions, SyncStart(k),
         \A j \in Instances : Local(j), NEW j \in Instances
  PROVE  Local(j)'
<1> DEFINE i == sync[k].at
<1> USE DEF jobs, counters
<1>1. /\ \A l \in Sessions \ {k} : sync'[l] = sync[l]
      /\ sync'[k].st = "running" /\ sync'[k].at = i
      /\ sync[k].st = "queued"
  BY DEF TypeOK, SyncStart
<1>2. CASE session[j] # k
  <2>1. session[j] \in Sessions => sync'[session[j]] = sync[session[j]]
    BY <1>1, <1>2
  <2>2. outcome'[j] = outcome[j] /\ excused'[j] = excused[j]
    BY <1>2 DEF TypeOK, SyncStart, Settle
  <2> QED
    BY <2>1, <2>2, Elsewhere DEF SyncStart
<1>3. CASE session[j] = k /\ j # i
  <2>1. ~IsAt(k, j) /\ ~IsAt(k, j)'
    BY <1>1, <1>3 DEF IsAt
  <2>2. outcome'[j] = outcome[j] /\ excused'[j] = excused[j]
    BY <1>3 DEF TypeOK, SyncStart, Settle
  <2>3. session[j] \in Sessions => ~IsAt(session[j], j) /\ ~IsAt(session[j], j)'
    BY <1>3, <2>1 DEF SyncStart
  <2> QED
    BY <2>2, <2>3, Elsewhere DEF SyncStart
<1>4. CASE session[j] = k /\ j = i
  <2>1. /\ session'[j] = k /\ conn'[j] = conn[j] /\ phase'[j] = phase[j]
        /\ values'[j] = values[j] /\ served'[j] = served[j] /\ lostCbs'[j] = lostCbs[j]
        /\ begun' = begun /\ rows' = rows
    BY <1>4 DEF SyncStart
  <2>2. conn[j] = "up"
    BY <1>4, ClusterAssumption DEF Local, Off
  <2>3. Off(j)' /\ Cleared(j)'
    BY <1>4, <2>1, <2>2 DEF Local, Off, Cleared
  <2>4. IsAt(k, j)' /\ Running(k)'
    BY <1>1, <1>4 DEF IsAt, Running
  <2>5. ~Waits(j)' /\ Todo(j)' = sync'[k].todo
    BY <2>1, <2>4 DEF Waits, Todo
  <2>6. CASE /\ sync' = [sync EXCEPT ![k] = [st |-> "running", at |-> i, todo |-> rows]]
             /\ Settle(k, i, "read")
             /\ excused' = [excused EXCEPT ![i] = Late(i)]
    <3>1. sync'[k].todo = rows /\ excused'[j] = Late(j)
      BY <1>4, <2>6 DEF TypeOK
    <3>2. outcome'[j] # "open"
      BY <1>4, <2>6 DEF TypeOK, Settle
    <3>3. rows' \subseteq Covered(j)'
      BY <2>1, <2>5, <3>1 DEF Covered
    <3>4. values'[j] \subseteq Settled(j)'
      <4>1. CASE lostCbs[j] > 0
        BY <2>1, <3>1, <4>1 DEF Late, Settled
      <4>2. CASE ~(lostCbs[j] > 0)
        <5>1. lostCbs[j] = 0
          BY <4>2 DEF TypeOK
        <5> QED
          BY <2>1, <2>2, <5>1 DEF Local, Cleared, Settled
      <4> QED
        BY <4>1, <4>2
    <3> QED
      BY <2>1, <2>3, <2>5, <3>2, <3>3, <3>4, <1>4 DEF Local, PursuedBy
  <2>7. CASE Settle(k, i, "failed")
    <3>1. outcome'[j] = "failed"
      BY <1>4, <2>7 DEF TypeOK, Settle
    <3> QED
      BY <2>1, <2>3, <2>5, <3>1, <1>4 DEF Local, PursuedBy
  <2> QED
    BY <1>4, <2>6, <2>7 DEF SyncStart
<1> QED
  BY <1>2, <1>3, <1>4

LEMMA LocalSkipped ==
  ASSUME TypeOK, NEW k \in Sessions, SyncSkipped(k),
         \A j \in Instances : Local(j), NEW j \in Instances
  PROVE  Local(j)'
<1> DEFINE i == sync[k].at
<1> USE DEF topics, jobs, counters
<1>1. (\A l \in Sessions \ {k} : sync'[l] = sync[l]) /\ sync'[k] = Idle
  BY DEF TypeOK, SyncSkipped, Ends
<1>2. ~IsAt(k, j)'
  BY <1>1 DEF IsAt, Idle
<1>3. CASE session[j] # k
  <2>1. session[j] \in Sessions => sync'[session[j]] = sync[session[j]]
    BY <1>1, <1>3
  <2>2. outcome'[j] = outcome[j]
    BY <1>3 DEF TypeOK, SyncSkipped, Settle
  <2> QED
    BY <2>1, <2>2, Elsewhere DEF SyncSkipped
<1>4. CASE session[j] = k /\ j # i
  <2>1. ~IsAt(session[j], j) /\ ~IsAt(session[j], j)'
    BY <1>2, <1>4 DEF IsAt, SyncSkipped
  <2>2. outcome'[j] = outcome[j]
    BY <1>4 DEF TypeOK, SyncSkipped, Settle
  <2> QED
    BY <2>1, <2>2, Elsewhere DEF SyncSkipped
<1>5. CASE session[j] = k /\ j = i
  <2>1. /\ session'[j] = k /\ conn'[j] = conn[j] /\ phase'[j] = phase[j]
        /\ values'[j] = values[j] /\ served'[j] = served[j] /\ lostCbs'[j] = lostCbs[j]
        /\ begun' = begun
    BY <1>5 DEF SyncSkipped
  <2>2. conn[j] = "up"
    BY <1>5, ClusterAssumption DEF Local, Off
  <2>3. Off(j)' /\ Cleared(j)'
    BY <1>5, <2>1, <2>2 DEF Local, Off, Cleared
  <2>4. outcome'[j] = "skipped"
    BY <1>5 DEF TypeOK, SyncSkipped, Settle
  <2>5. ~Waits(j)'
    BY <1>2, <2>1 DEF Waits
  <2> QED
    BY <1>5, <2>1, <2>3, <2>4, <2>5 DEF Local, PursuedBy
<1> QED
  BY <1>3, <1>4, <1>5

LEMMA LocalSubscribe ==
  ASSUME TypeOK, NEW k \in Sessions, SyncSubscribe(k),
         \A j \in Instances : Local(j), NEW j \in Instances
  PROVE  Local(j)'
<1> USE DEF process, jobs, counters
<1>1. Running(k) /\ sync[k] \in [st : {"running"}, at : Instances, todo : SUBSET Topics]
  BY SyncFields DEF SyncSubscribe, Running
<1>i. PICK i \in Instances : i = sync[k].at
  BY <1>1
<1>2. PICK t \in sync[k].todo : Subscribe(i, t) /\ sync' = [sync EXCEPT ![k].todo = @ \ {t}]
  BY <1>i DEF SyncSubscribe
<1>3. /\ \A l \in Sessions \ {k} : sync'[l] = sync[l]
      /\ sync'[k].st = "running" /\ sync'[k].at = i /\ sync'[k].todo = sync[k].todo \ {t}
  BY <1>1, <1>2, <1>i DEF TypeOK
<1>4. /\ Careful(i)
      /\ conn[i] = "up" /\ values[i] \subseteq Settled(i) => t \in Settled(i)'
  BY <1>1, <1>2, SubscribeCareful
<1>5. \A l \in Sessions : /\ Running(l)' <=> Running(l)
                          /\ IsAt(l, j)' <=> IsAt(l, j)
  BY <1>1, <1>3, <1>i DEF Running, IsAt
<1>6. session'[j] = session[j]
  BY DEF SyncSubscribe
<1>7. session[j] \in Sessions => (Waits(j)' <=> Waits(j)) /\ Todo(j) \subseteq Todo(j)' \cup {t}
  BY <1>1, <1>3, <1>5, <1>6 DEF Waits, Todo
<1>8. JobTopics(j)' = JobTopics(j)
  BY DEF SyncSubscribe, JobTopics
<1>9. CASE j = i
  <2>1. rows' = rows /\ Settled(i) \subseteq Settled(i)'
    BY <1>4 DEF SyncSubscribe, Careful
  <2>2. session[i] \in Sessions /\ conn[i] = "up" /\ values[i] \subseteq Settled(i)
          /\ rows \subseteq Covered(i) => rows' \subseteq Covered(i)'
    BY <1>4, <1>7, <1>8, <1>9, <2>1 DEF Covered
  <2> QED
    BY <1>4, <1>7, <1>9, <2>2, Unmoved DEF SyncSubscribe, Careful
<1>10. CASE j # i
  <2>1. session[j] \in Sessions => \/ sync'[session[j]] = sync[session[j]]
                                   \/ ~IsAt(session[j], j) /\ ~IsAt(session[j], j)'
    BY <1>3, <1>6, <1>10, <1>i DEF IsAt
  <2> QED
    BY <1>4, <1>10, <2>1, Elsewhere DEF SyncSubscribe, Careful
<1> QED
  BY <1>9, <1>10

LEMMA LocalEnd ==
  ASSUME TypeOK, NEW k \in Sessions, SyncEnd(k),
         \A j \in Instances : Local(j), NEW j \in Instances
  PROVE  Local(j)'
<1> USE DEF process, topics, jobs, counters
<1>1. (\A l \in Sessions \ {k} : sync'[l] = sync[l]) /\ sync'[k] = Idle
  BY DEF TypeOK, SyncEnd, Ends
<1>2. ~IsAt(k, j)' /\ Running(k) /\ sync[k].todo = {}
  BY <1>1 DEF IsAt, Idle, SyncEnd
<1>3. session'[j] = session[j]
  BY DEF SyncEnd
<1>4. session[j] \in Sessions => (Waits(j)' <=> Waits(j)) /\ Todo(j)' = Todo(j)
  <2>1. CASE session[j] = k
    BY <1>2, <1>3, <2>1 DEF Waits, Todo
  <2>2. CASE session[j] # k
    BY <1>1, <1>3, <2>2 DEF Waits, Todo, IsAt, Running
  <2> QED
    BY <2>1, <2>2
<1>5. JobTopics(j)' = JobTopics(j) /\ Settled(j)' = Settled(j)
  BY DEF SyncEnd, JobTopics, Settled
<1>6. session[j] \in Sessions /\ rows \subseteq Covered(j) => rows' \subseteq Covered(j)'
  BY <1>4, <1>5 DEF Covered, SyncEnd
<1> QED
  BY <1>4, <1>5, <1>6, Unmoved DEF SyncEnd

LEMMA LocalNext ==
  ASSUME TypeOK, \A i \in Instances : Local(i), [Next]_vars
  PROVE  \A i \in Instances : Local(i)'
<1> SUFFICES ASSUME NEW i \in Instances PROVE Local(i)'
  OBVIOUS
<1>1. CASE LockExpires \/ UNCHANGED vars
  BY <1>1, Elsewhere DEF LockExpires, vars, process, topics, jobs, counters
<1>2. ASSUME NEW k \in Sessions, SyncStep(k) PROVE Local(i)'
  BY <1>2, LocalStart, LocalSkipped, LocalSubscribe, LocalEnd DEF SyncStep
<1> QED
  BY <1>1, <1>2, LocalInstance DEF Next

-----------------------------------------------------------------------------
(* The inductive invariant *)

LEMMA InvInit == Init => Inv
<1> SUFFICES ASSUME Init PROVE Inv
  OBVIOUS
<1>1. OwnsOrOutlived
  BY DEF Init, OwnsOrOutlived, Running, Idle
<1>2. \A i \in Instances : Local(i)
  BY DEF Init, Local, Off, Cleared, PursuedBy
<1> QED
  BY <1>1, <1>2, TypeInit DEF Inv

LEMMA InvNext == Inv /\ [Next]_vars => Inv'
  BY TypeNext, LockNext, LocalNext DEF Inv

LEMMA InvHolds == Spec => []Inv
  BY InvInit, InvNext, PTL DEF Spec

(* Type correctness of the instances, their sessions and jobs, and the lock.*)
THEOREM TypeCorrect == Spec => []TypeOK
<1>1. Inv => TypeOK
  BY DEF Inv
<1> QED
  BY <1>1, InvHolds, PTL

(* For every number of instances, sessions, crashes and shutdowns: with a   *)
(* Redis, of two synchronizations that run at a time one has outlived its   *)
(* lock (task.go:59-64).                                                    *)
THEOREM SyncAloneHolds == Spec => []SyncAlone
<1>1. Inv => SyncAlone
  BY DEF Inv, OwnsOrOutlived, SyncAlone
<1> QED
  BY <1>1, InvHolds, PTL

(* For every table, cluster and schedule of sessions, callbacks, requests   *)
(* and exits: an instance that has nothing left to do, and whose job has    *)
(* read the table, delivers every row but those its late callback, another  *)
(* instance's request, the broker's refusal or an update's unsubscription   *)
(* excuses (ecoflow_mqtt.go:71-80, 127-188).                                *)
THEOREM SyncedServesHolds == Spec => []SyncedServes
<1>1. Inv => SyncedServes
  <2> SUFFICES ASSUME Inv, NEW i \in Instances, phase[i] = "up", conn[i] = "up", ~Busy(i),
                      outcome[i] \notin {"skipped", "failed"}
               PROVE  rows \subseteq served[i] \cup excused[i]
    BY DEF SyncedServes
  <2>1. PursuedBy(i) /\ outcome[i] \in Outcomes
    BY DEF Inv, Local, TypeOK
  <2>2. session[i] \in Sessions
    BY <2>1 DEF PursuedBy
  <2>3. ~IsAt(session[i], i)
    BY <2>2 DEF Busy
  <2>4. outcome[i] = "read"
    BY <2>1, <2>3 DEF PursuedBy, Outcomes, Waits
  <2>5. JobTopics(i) = {} /\ Todo(i) = {}
    BY <2>3 DEF Busy, JobTopics, Todo
  <2> QED
    BY <2>1, <2>4, <2>5 DEF PursuedBy, Covered, Settled
<1> QED
  BY <1>1, InvHolds, PTL
=============================================================================
