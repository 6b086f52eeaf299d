-------------------------- MODULE EcoFlowMqttProofs --------------------------
(***************************************************************************)
(* What holds of the EcoFlow MQTT session for every set of devices, any    *)
(* number of sessions, jobs and crashes, and for both orders of the        *)
(* callbacks.  The argument is one inductive invariant: the type           *)
(* correctness, three facts that tie the connection to the broker's side   *)
(* and to the pending callbacks, and the properties themselves.            *)
(***************************************************************************)
EXTENDS EcoFlowMqtt, TLAPS

(* Without a session the broker delivers nothing. *)
NothingWithoutSession == conn # "up" => broker = {}

(* No session was lost before the first one. *)
NothingLostBefore == conn = "off" => lostCbs = 0

(* A session begins after the callback of the one before it. *)
CallbacksInTime == ~LateCallbacks => (conn = "up" => lostCbs = 0)

Inv ==
  /\ TypeOK
  /\ NothingWithoutSession
  /\ NothingLostBefore
  /\ CallbacksInTime
  /\ TrackedIsServed
  /\ Mirrored

-----------------------------------------------------------------------------
(* Lemmas about jobs *)

(* The fields of a job. *)
LEMMA JobFields ==
  ASSUME NEW op, NEW S, NEW R
  PROVE  /\ Job(op, S, R).op = op
         /\ Job(op, S, R).todo = S
         /\ Job(op, S, R).ready = R
BY DEF Job

(* A job that subscribes has only topics of kind quota left to do. *)
LEMMA SubscribeQuota ==
  ASSUME NEW j \in TopicJobs, j.op = "subscribe"
  PROVE  j.todo \subseteq Quota
<1>1. CASE \E S \in (SUBSET Quota) \ {{}} : j = Job("subscribe", S, {})
  BY <1>1, JobFields
<1>2. CASE \E S \in SUBSET Quota : \E t \in S : j = Job("subscribe", S, {t})
  BY <1>2, JobFields
<1>3. CASE \E t \in Topics, R \in {{}} \cup {{u} : u \in Topics} : j = Job("unsubscribe", {t}, R)
  BY <1>3, JobFields
<1> QED
  BY <1>1, <1>2, <1>3 DEF TopicJobs

(* Counting jobs keeps natural numbers, whatever job makes a step. *)
LEMMA ContinueType ==
  ASSUME jobs \in [Jobs -> Nat], NEW STATE j, NEW STATE next, Continue(j, next)
  PROVE  jobs' \in [Jobs -> Nat]
BY DEF Continue

LEMMA EnqueueType ==
  ASSUME jobs \in [Jobs -> Nat], NEW j, Enqueue(j)
  PROVE  jobs' \in [Jobs -> Nat]
<1>1. jobs' = [k \in Jobs |-> IF k = j THEN jobs[k] + 1 ELSE jobs[k]]
  BY DEF Enqueue
<1> QED
  BY <1>1

-----------------------------------------------------------------------------
LEMMA InitInv == Init => Inv
<1> SUFFICES ASSUME Init PROVE Inv
  OBVIOUS
<1>1. jobs \in [Jobs -> Nat]
  BY DEF Init, Started
<1> QED
  BY <1>1 DEF Init, Started, Inv, TypeOK, NothingWithoutSession, NothingLostBefore,
              CallbacksInTime, TrackedIsServed, Mirrored

(* Every step of a job preserves the invariant. *)
LEMMA JobStepInv ==
  ASSUME Inv, NEW j \in TopicJobs, JobStep(j)
  PROVE  Inv'
<1> USE DEF Inv, TypeOK, NothingWithoutSession, NothingLostBefore, CallbacksInTime,
            TrackedIsServed, Mirrored
<1>1. PICK t \in j.todo :
        \/ TestConnected(j, t)
        \/ Subscribe(j, t) \/ SubscribeFails(j, t)
        \/ Unsubscribe(j, t) \/ UnsubscribeFails(j, t)
  BY DEF JobStep
<1>2. CASE TestConnected(j, t)
  BY <1>2, ContinueType DEF TestConnected
<1>3. CASE Subscribe(j, t)
  <2>1. t \in Quota
    BY <1>3, SubscribeQuota DEF Subscribe
  <2>2. jobs' \in [Jobs -> Nat]
    BY <1>3, ContinueType DEF Subscribe
  <2> QED
    BY <1>3, <2>1, <2>2 DEF Subscribe
<1>4. CASE SubscribeFails(j, t)
  BY <1>4, ContinueType DEF SubscribeFails
<1>5. CASE Unsubscribe(j, t)
  <2>1. jobs' \in [Jobs -> Nat]
    BY <1>5, ContinueType DEF Unsubscribe
  <2> QED
    BY <1>5, <2>1 DEF Unsubscribe
<1>6. CASE UnsubscribeFails(j, t)
  BY <1>6, ContinueType DEF UnsubscribeFails
<1> QED
  BY <1>1, <1>2, <1>3, <1>4, <1>5, <1>6

LEMMA NextInv == Inv /\ [Next]_vars => Inv'
<1> SUFFICES ASSUME Inv, [Next]_vars PROVE Inv'
  OBVIOUS
<1> USE DEF Inv, TypeOK, NothingWithoutSession, NothingLostBefore, CallbacksInTime,
            TrackedIsServed, Mirrored
<1>1. CASE Connect
  <2>1. jobs' \in [Jobs -> Nat]
    BY <1>1, ContinueType DEF Connect
  <2>2. conn' \in {"off", "up"} /\ sessions' \in Nat /\ connCbs' \in Nat
    BY <1>1 DEF Connect
  <2>3. lostCbs = 0 /\ values = {} /\ broker = {}
    BY <1>1 DEF Connect
  <2>4. UNCHANGED <<values, broker, lostCbs, restarts>>
    BY <1>1 DEF Connect
  <2> QED
    BY <2>1, <2>2, <2>3, <2>4
<1>2. CASE Lose
  BY <1>2 DEF Lose
<1>3. CASE Reconnect
  BY <1>3 DEF Reconnect
<1>4. CASE OnConnect
  BY <1>4, EnqueueType DEF OnConnect
<1>5. CASE OnConnectionLost
  BY <1>5 DEF OnConnectionLost
<1>6. CASE SyncReadFails
  BY <1>6, ContinueType DEF SyncReadFails
<1>7. ASSUME NEW j \in TopicJobs, JobStep(j) PROVE Inv'
  BY <1>7, JobStepInv
<1>8. CASE Restart
  BY <1>8 DEF Restart
<1>9. ASSUME NEW rows \in SUBSET Topics, SyncRead(rows) PROVE Inv'
  BY <1>9, ContinueType DEF SyncRead
<1>10. ASSUME NEW j \in Submittable, Submit(j) PROVE Inv'
  BY <1>10, EnqueueType DEF Submit
<1>11. CASE UNCHANGED vars
  BY <1>11 DEF vars
<1> QED
  BY <1>1, <1>2, <1>3, <1>4, <1>5, <1>6, <1>7, <1>8, <1>9, <1>10, <1>11
     DEF Next, SessionStep

LEMMA InvHolds == Spec => []Inv
<1> QED
  BY InitInv, NextInv, PTL DEF Spec

-----------------------------------------------------------------------------
(* The session has its types in every reachable state: values and the       *)
(* broker's topics are topics of kind quota, whatever is enqueued.          *)
THEOREM TypeCorrect == Spec => []TypeOK
<1>1. Inv => TypeOK
  BY DEF Inv
<1> QED
  BY <1>1, InvHolds, PTL

(* For every number of devices, jobs, sessions and crashes: once the        *)
(* callbacks of lost sessions have run, every topic the service believes to *)
(* be subscribed is delivered (ecoflow_mqtt.go:160-227).                    *)
THEOREM TrackedIsServedHolds == Spec => []TrackedIsServed
<1>1. Inv => TrackedIsServed
  BY DEF Inv
<1> QED
  BY <1>1, InvHolds, PTL

(* When callbacks run in time, the set is exactly what the broker delivers  *)
(* while the session is up.                                                 *)
THEOREM MirroredHolds == Spec => []Mirrored
<1>1. Inv => Mirrored
  BY DEF Inv
<1> QED
  BY <1>1, InvHolds, PTL

(* No step but a late ClearSubscriptions makes the service forget a topic   *)
(* that the broker still delivers.                                          *)
THEOREM ForgottenOnlyByLateClearHolds == Spec => ForgottenOnlyByLateClear
<1> DEFINE Kept == \/ broker' \ values' \subseteq broker \ values
                   \/ conn = "up" /\ lostCbs' < lostCbs
<1>1. Inv /\ [Next]_vars => [Kept]_vars
  <2> SUFFICES ASSUME Inv, Next PROVE Kept
    OBVIOUS
  <2> USE DEF Inv, TypeOK, NothingWithoutSession
  <2>1. CASE Connect
    BY <2>1 DEF Connect
  <2>2. CASE Lose
    BY <2>2 DEF Lose
  <2>3. CASE Reconnect
    BY <2>3 DEF Reconnect
  <2>4. CASE OnConnect
    BY <2>4 DEF OnConnect
  <2>5. CASE OnConnectionLost
    BY <2>5 DEF OnConnectionLost
  <2>6. CASE SyncReadFails
    BY <2>6 DEF SyncReadFails
  <2>7. ASSUME NEW j \in TopicJobs, JobStep(j) PROVE Kept
    BY <2>7 DEF JobStep, TestConnected, Subscribe, SubscribeFails, Unsubscribe,
                UnsubscribeFails
  <2>8. CASE Restart
    BY <2>8 DEF Restart
  <2>9. ASSUME NEW rows \in SUBSET Topics, SyncRead(rows) PROVE Kept
    BY <2>9 DEF SyncRead
  <2>10. ASSUME NEW j \in Submittable, Submit(j) PROVE Kept
    BY <2>10 DEF Submit
  <2> QED
    BY <2>1, <2>2, <2>3, <2>4, <2>5, <2>6, <2>7, <2>8, <2>9, <2>10 DEF Next, SessionStep
<1>2. Spec => [][Kept]_vars
  BY <1>1, InvHolds, PTL DEF Spec
<1> QED
  BY <1>2, PTL DEF ForgottenOnlyByLateClear
=============================================================================
