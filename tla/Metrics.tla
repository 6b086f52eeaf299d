-------------------------------- MODULE Metrics --------------------------------
(***************************************************************************)
(* What EcoLinker exports: to Prometheus, by a registry of metrics         *)
(* (internal/server/service/prometheus.go), and to another MQTT broker     *)
(* (mqtt_forward.go).  There are two writers,                              *)
(* the handler of an EcoFlow MQTT message (ecoflow_mqtt_message_handler.go)*)
(* and a run of a collector (collector.go).  Both first write metrics of   *)
(* their own, forward the payload, and then write one gauge for each       *)
(* number of it: its key, without the list indices, names the gauge, and   *)
(* the indices become labels.                                              *)
(*                                                                         *)
(* Every message is processed in a goroutine of its own, and collectors    *)
(* run next to them.  Registering a metric and writing it are two steps,   *)
(* the first under the mutex of customGauges or customCounters.            *)
(*                                                                         *)
(* The library behind the service is external.  As the code uses it: a     *)
(* metric must not be added twice, which stops the process; a write with   *)
(* the wrong number of label values is refused, by an error or by a panic; *)
(* otherwise label values are matched with label names by position.        *)
(***************************************************************************)
EXTENDS Naturals, Sequences, FiniteSets, Parser

CONSTANTS Tasks,      \* messages that arrive and collector runs that start
          Collectors, \* ids of collectors
          Devices,    \* serial numbers
          Payloads    \* the payloads: sets of values, see IsValue

(* A value in a payload: the path to it, and whether it is a number. *)
IsValue(v) == v.path \in Paths /\ v.number \in BOOLEAN

(* A value when the payload is parsed: its key names a gauge, and it has    *)
(* at most as many indices, from outermost to innermost, as IndexNames has  *)
(* names.                                                                   *)
IndexNames == <<"index0", "index1", "index2">>

Leaf(v) ==
  [key |-> Parsed(v.path).key, indices |-> Parsed(v.path).indices, number |-> v.number]

Leaves(P) == {Leaf(v) : v \in P}

Keys == UNION {{l.key : l \in Leaves(P)} : P \in Payloads}

(* float.ToFloat: other values are skipped. *)
Numbers(P) == {l \in P : l.number}

ASSUME MetricsAssumption ==
  /\ IsFiniteSet(Tasks)
  /\ \A P \in Payloads :
       /\ IsFiniteSet(P)
       /\ \A v, w \in P : IsValue(v) /\ (v = w \/ Coexist(v.path, w.path))
       /\ \A l \in Leaves(P) : l.indices \in Seq(Numerals) /\ Len(l.indices) <= Len(IndexNames)
  /\ Keys \cap {"received", "last", "lastPayload", "invocations", "invoked"} = {}

VARIABLES
  enabled,    \* PROMETHEUS_ENABLED
  labels,     \* labels[m]: label names of metric m, in order; <<>>: unregistered
  samples,    \* what is exported: [metric, values, value]
  clock,      \* messages and triggers so far
  task,       \* task[t]: the state of task t
  connected,  \* the forward client is connected
  published,  \* published[x]: what was published last on forward topic x, or 0
  crashed,    \* the library panicked
  forwarded   \* history: tasks whose payload was published

prometheus == <<labels, samples>>
forward    == <<connected, published, forwarded>>
vars == <<enabled, prometheus, clock, task, forward, crashed>>

-----------------------------------------------------------------------------
(* Metrics and their labels *)

Counters == {"received", "invocations"}
OwnMetrics == {"received", "last", "lastPayload", "invocations", "invoked"}
Metrics == OwnMetrics \cup Keys

Elements(s) == {s[i] : i \in DOMAIN s}

Sources == [kind : {"message"}, device : Devices]
             \cup [kind : {"run"}, device : Devices, id : Collectors]

(* The forward topic: collectors of a device share one. *)
ForwardTopics == {"message", "run"} \X Devices
ForwardTopic(src) == <<src.kind, src.device>>

(* The labels of the metrics a source writes for itself. *)
OwnLabels(src) ==
  IF src.kind = "message" THEN <<"device", "topicKind">> ELSE <<"device", "kind", "id">>
OwnValues(src) ==
  IF src.kind = "message" THEN <<src.device, "quota">>
                          ELSE <<src.device, "parameters", src.id>>

(* The labels of a payload's gauge, before the indices. *)
Prefix(src) == IF src.kind = "message" THEN <<"device">> ELSE <<"collector", "device">>
PrefixValues(src) == IF src.kind = "message" THEN <<src.device>>
                                             ELSE <<src.id, src.device>>

(* A Go map has no order: the keys of l's indices are listed in some order, *)
(* and its values in another one.                                           *)
Orders(n) == {p \in [1..n -> 1..n] : \A i, j \in 1..n : p[i] = p[j] => i = j}

LabelNames(src, l) ==
  {Prefix(src) \o [i \in DOMAIN p |-> IndexNames[p[i]]] : p \in Orders(Len(l.indices))}

LabelValues(src, l) ==
  {PrefixValues(src) \o [i \in DOMAIN p |-> l.indices[p[i]]] : p \in Orders(Len(l.indices))}

(* The label names of l as a set, and the labels it should have. *)
LabelSet(src, l) == Elements(Prefix(src)) \cup {IndexNames[i] : i \in DOMAIN l.indices}

Labelled(names, values) == {<<names[i], values[i]>> : i \in DOMAIN names}

TrueLabels(src, l) ==
  Labelled(Prefix(src), PrefixValues(src))
    \cup {<<IndexNames[i], l.indices[i]>> : i \in DOMAIN l.indices}

-----------------------------------------------------------------------------
(* Tasks *)

Idle == [pc |-> "idle"]

Active(t) == task[t].pc \notin {"idle", "done"}

(* pc is "spawned", a metric of the task's own, "parse", "forward",         *)
(* "leaves" or "done";                                                      *)
(* current is the leaf being written, if any; registered: the metric at pc  *)
(* has been registered and is to be written.  number tells the message (or  *)
(* run) and the values it brings, time is what time.Now() gave.  beside is  *)
(* history: the tasks of the same forward topic that are still at work when *)
(* this one comes.                                                          *)
Spawned(src) ==
  [pc |-> "spawned", src |-> src, number |-> clock + 1, time |-> 0,
   registered |-> FALSE, payload |-> {}, todo |-> {}, current |-> {},
   beside |-> {u \in Tasks : Active(u) /\ ForwardTopic(task[u].src) = ForwardTopic(src)}]

(* The metric after m. *)
After(m) == CASE m = "received"    -> "last"
              [] m = "last"        -> "parse"
              [] m = "lastPayload" -> "leaves"
              [] m = "invocations" -> "invoked"
              [] m = "invoked"     -> "parse"

LabelKinds == {"device", "topicKind", "kind", "id", "collector"} \cup Elements(IndexNames)

TypeOK ==
  /\ enabled \in BOOLEAN
  /\ DOMAIN labels = Metrics
  /\ \A m \in Metrics : labels[m] \in Seq(LabelKinds)
  /\ \A s \in samples : s.metric \in Metrics /\ Len(s.values) = Len(labels[s.metric])
  /\ clock \in 0..Cardinality(Tasks)
  /\ \A t \in Tasks :
       \/ task[t] = Idle
       \/ /\ task[t].pc \in OwnMetrics \cup {"spawned", "parse", "forward", "leaves", "done"}
          /\ task[t].src \in Sources
          /\ task[t].number \in 1..clock /\ task[t].time \in 0..clock
          /\ task[t].todo \cup task[t].current \subseteq task[t].payload
          /\ Cardinality(task[t].current) <= 1
          /\ task[t].beside \subseteq Tasks
  /\ crashed \in BOOLEAN
  /\ connected \in BOOLEAN
  /\ published \in [ForwardTopics -> 0..clock]
  /\ forwarded \subseteq Tasks

Init ==
  /\ enabled \in BOOLEAN
  /\ labels = [m \in Metrics |-> <<>>]
  /\ samples = {}
  /\ clock = 0
  /\ task = [t \in Tasks |-> Idle]
  /\ crashed = FALSE
  /\ connected = FALSE
  /\ published = [x \in ForwardTopics |-> 0]
  /\ forwarded = {}

-----------------------------------------------------------------------------
(* The service *)

(* When Prometheus is disabled, no service is created, and whoever calls a  *)
(* method of it dereferences a nil pointer in a goroutine of its own.       *)
ServiceIsNil == ~enabled

(* Faulty variant of AlreadyRegistered: the labels must be the same, in the *)
(* same order.                                                              *)
AlreadyRegisteredSame(m, names) == labels[m] = names

(* str.AllContained: the registered labels are among the new ones. *)
AlreadyRegistered(m, names) ==
  labels[m] # <<>> /\ Elements(labels[m]) \subseteq Elements(names)

(* Faulty variant of Register: other labels replace the registered ones. *)
RegisterReplacing(m, names) ==
  /\ labels' = IF AlreadyRegistered(m, names) THEN labels ELSE [labels EXCEPT ![m] = names]
  /\ UNCHANGED crashed

(* RegisterGauge and RegisterCounter, under their mutex; whether the metric *)
(* was registered before or not, the caller goes on.                        *)
Register(m, names) ==
  IF ServiceIsNil \/ (labels[m] # <<>> /\ ~AlreadyRegistered(m, names))
    THEN crashed' = TRUE /\ UNCHANGED labels
    ELSE /\ labels' = IF AlreadyRegistered(m, names) THEN labels
                                                    ELSE [labels EXCEPT ![m] = names]
         /\ UNCHANGED crashed

SampleAt(m, values) == {s \in samples : s.metric = m /\ s.values = values}

(* Faulty variant of NewValue: counters are set, like gauges. *)
NewValueSet(m, values, v) == v

(* IncreaseCounter adds one, SetGauge stores v. *)
NewValue(m, values, v) ==
  IF m \in Counters
    THEN IF SampleAt(m, values) = {} THEN 1
         ELSE 1 + (CHOOSE s \in SampleAt(m, values) : TRUE).value
    ELSE v

(* SetGauge and IncreaseCounter, never reached when the service is nil. *)
Write(m, values, v) ==
  \/ /\ Len(values) = Len(labels[m]) /\ labels[m] # <<>>
     /\ samples' = (samples \ SampleAt(m, values))
                     \cup {[metric |-> m, values |-> values, value |-> NewValue(m, values, v)]}
     /\ UNCHANGED crashed
  \/ /\ Len(values) # Len(labels[m]) \/ labels[m] = <<>>
     /\ crashed' \in {FALSE, TRUE}
     /\ UNCHANGED samples

-----------------------------------------------------------------------------
(* The writers *)

(* A message arrives and HandleMessage starts a goroutine, or the scheduler *)
(* starts one for a collector.                                              *)
Spawn(t, src) ==
  /\ task[t] = Idle
  /\ clock' = clock + 1
  /\ task' = [task EXCEPT ![t] = Spawned(src)]
  /\ UNCHANGED <<prometheus, forward, crashed>>

(* The goroutine runs, and reads the time first. *)
Begin(t) ==
  /\ task[t].pc = "spawned"
  /\ task' = [task EXCEPT ![t].time = clock,
                          ![t].pc = IF task[t].src.kind = "message" THEN "received"
                                                                    ELSE "invocations"]
  /\ UNCHANGED <<prometheus, clock, forward, crashed>>

RegisterOwn(t) ==
  LET m == task[t].pc IN
  /\ m \in OwnMetrics /\ ~task[t].registered
  /\ Register(m, OwnLabels(task[t].src))
  /\ task' = [task EXCEPT ![t].registered = TRUE]
  /\ UNCHANGED <<samples, clock, forward>>

WriteOwn(t) ==
  LET m == task[t].pc IN
  /\ m \in OwnMetrics /\ task[t].registered
  /\ Write(m, OwnValues(task[t].src), task[t].time)
  /\ task' = [task EXCEPT ![t].registered = FALSE, ![t].pc = After(m)]
  /\ UNCHANGED <<labels, clock, forward>>

(* The payload is parsed, or the collector's query is answered; a broken    *)
(* payload or a failed query ends the task.                                 *)
Parse(t) ==
  /\ task[t].pc = "parse"
  /\ \/ task' = [task EXCEPT ![t].pc = "done"]
     \/ \E P \in Payloads :
          task' = [task EXCEPT ![t].payload = Leaves(P),
                              ![t].todo = Numbers(Leaves(P)), ![t].pc = "forward"]
  /\ UNCHANGED <<prometheus, clock, forward, crashed>>

(* After forwarding, an empty payload ends the task. *)
AfterForward(t) ==
  task' = [task EXCEPT ![t].pc = IF task[t].payload = {} THEN "done"
                                 ELSE IF task[t].src.kind = "message" THEN "lastPayload"
                                 ELSE "leaves"]

(* The forward broker takes the payload of t. *)
Take(t) ==
  /\ connected
  /\ published' = [published EXCEPT ![ForwardTopic(task[t].src)] = task[t].number]
  /\ forwarded' = forwarded \cup {t}
  /\ UNCHANGED <<prometheus, clock, connected, crashed>>

(* Faulty variant of Publish: it does not wait for the token, and the       *)
(* client sends the payload at some time.                                   *)
PublishNoWait(t) ==
  \/ /\ task[t].pc = "forward" /\ connected
     /\ AfterForward(t)
     /\ UNCHANGED <<prometheus, clock, forward, crashed>>
  \/ /\ task[t].pc = "done"
     /\ Take(t)
     /\ UNCHANGED task

(* The broker takes the payload and acknowledges it, and token.Wait         *)
(* returns.                                                                 *)
Publish(t) ==
  /\ task[t].pc = "forward"
  /\ Take(t)
  /\ AfterForward(t)

(* The acknowledgement is lost with the connection: the client sends the    *)
(* payload once more, and the task still waits for the token.               *)
Deliver(t) ==
  /\ task[t].pc = "forward"
  /\ Take(t)
  /\ UNCHANGED task

(* Forwarding is disabled, the client is not connected, or the token ends   *)
(* in an error: the task goes on.                                           *)
PublishSkipped(t) ==
  /\ task[t].pc = "forward"
  /\ AfterForward(t)
  /\ UNCHANGED <<prometheus, clock, forward, crashed>>

(* The forward client connects, retries and reconnects by itself. *)
ForwardConnect ==
  /\ ~connected
  /\ connected' = TRUE
  /\ UNCHANGED <<prometheus, clock, task, published, forwarded, crashed>>

ForwardLost ==
  /\ connected
  /\ connected' = FALSE
  /\ UNCHANGED <<prometheus, clock, task, published, forwarded, crashed>>

(* Faulty variant of RegisterLeaf: a gauge that is registered already is    *)
(* skipped like one that cannot be registered.                              *)
RegisterLeafSkipping(t, l) ==
  /\ task[t].pc = "leaves" /\ task[t].current = {}
  /\ l \in task[t].todo
  /\ \E names \in LabelNames(task[t].src, l) :
       /\ Register(l.key, names)
       /\ task' = [task EXCEPT ![t].todo = @ \ {l},
                   ![t].current = IF AlreadyRegistered(l.key, names) THEN {} ELSE {l}]
  /\ UNCHANGED <<samples, clock, forward>>

(* The loop over the leaves, in any order. *)
RegisterLeaf(t, l) ==
  /\ task[t].pc = "leaves" /\ task[t].current = {}
  /\ l \in task[t].todo
  /\ \E names \in LabelNames(task[t].src, l) : Register(l.key, names)
  /\ task' = [task EXCEPT ![t].current = {l}, ![t].todo = @ \ {l}]
  /\ UNCHANGED <<samples, clock, forward>>

(* Faulty variant of WriteLeaf: the values are written without the device   *)
(* or collector in front.                                                   *)
WriteLeafIndices(t, l) ==
  /\ task[t].pc = "leaves" /\ task[t].current = {l}
  /\ \E values \in LabelValues(task[t].src, l) :
       Write(l.key, Tail(values) \o <<Head(values)>>, task[t].number)
  /\ task' = [task EXCEPT ![t].current = {}]
  /\ UNCHANGED <<labels, clock, forward>>

WriteLeaf(t, l) ==
  /\ task[t].pc = "leaves" /\ task[t].current = {l}
  /\ \E values \in LabelValues(task[t].src, l) : Write(l.key, values, task[t].number)
  /\ task' = [task EXCEPT ![t].current = {}]
  /\ UNCHANGED <<labels, clock, forward>>

Finish(t) ==
  /\ task[t].pc = "leaves" /\ task[t].current = {} /\ task[t].todo = {}
  /\ task' = [task EXCEPT ![t].pc = "done"]
  /\ UNCHANGED <<prometheus, clock, forward, crashed>>

TaskStep(t) ==
  \/ Begin(t)
  \/ RegisterOwn(t) \/ WriteOwn(t)
  \/ Parse(t)
  \/ Publish(t) \/ Deliver(t) \/ PublishSkipped(t)
  \/ Active(t) /\ \E l \in task[t].payload : RegisterLeaf(t, l) \/ WriteLeaf(t, l)
  \/ Finish(t)

Next ==
  /\ ~crashed
  /\ UNCHANGED enabled
  /\ \/ \E t \in Tasks, src \in Sources : Spawn(t, src)
     \/ \E t \in Tasks : TaskStep(t)
     \/ ForwardConnect \/ ForwardLost

Spec == Init /\ [][Next]_vars

-----------------------------------------------------------------------------
(* Properties *)

Known(t) == task[t].pc # "idle"

(* The numbers received so far: <<task, leaf>>. *)
Received == UNION {{<<t, l>> : l \in Numbers(task[t].payload)} : t \in {u \in Tasks : Known(u)}}

(* Two writers use gauge m with different labels. *)
Clash(m) ==
  \E r, s \in Received :
    /\ r[2].key = m /\ s[2].key = m
    /\ LabelSet(task[r[1]].src, r[2]) # LabelSet(task[s[1]].src, s[2])

(* The sample stands for the number r: its gauge, its labels and its value. *)
Shows(s, r) ==
  /\ s.metric = r[2].key
  /\ Labelled(labels[s.metric], s.values) = TrueLabels(task[r[1]].src, r[2])
  /\ s.value = task[r[1]].number

Placed(s) == \E r \in Received : Shows(s, r)

(* However messages and runs interleave, the process is stopped by the      *)
(* library only if a gauge is used with different labels: a number of a     *)
(* message and of a collector with the same key, or with lists of different *)
(* depth (prometheus.go:96-106, ecoflow_mqtt_message_handler.go:147-156,    *)
(* collector.go:427-438).  Without Prometheus there is no library that      *)
(* could, but also no service, and the first call stops it (server.go:87).  *)
CrashNeedsClash ==
  crashed => \/ enabled /\ \E m \in Keys : Clash(m)
             \/ ~enabled /\ labels = [m \in Metrics |-> <<>>] /\ samples = {}

(* A sample whose labels were received with another number, or not at all,  *)
(* has at least two indices: the orders in which the Go map yields keys and *)
(* values differ (ecoflow_mqtt_message_handler.go:136-145).                 *)
MisplacedNeedsTwoIndices ==
  \A s \in samples :
    s.metric \in Keys /\ ~Placed(s) => \E r \in Received :
      r[2].key = s.metric /\ Len(r[2].indices) >= 2

(* Messages and runs are counted, none twice, whatever registers the        *)
(* counter first.                                                           *)
CountedOnce ==
  ~crashed =>
    \A src \in Sources :
      LET m == IF src.kind = "message" THEN "received" ELSE "invocations"
          counted == {t \in Tasks : Known(t) /\ task[t].src = src
                                      /\ task[t].pc \notin {"spawned", m}}
          at == SampleAt(m, OwnValues(src))
      IN IF counted = {} THEN at = {}
         ELSE {s.value : s \in at} = {Cardinality(counted)}

(* Where no gauge has clashing labels, what is exported of a device is      *)
(* never older than a message that is done (the timestamp of the last       *)
(* message, and each number without lists in lists), unless an older        *)
(* message wrote it that was still at work when this one came: never one    *)
(* that was done by then, nor a collector, nor another device.              *)
NewestUnlessOverlapped ==
  \A t \in Tasks :
    Known(t) /\ task[t].pc = "done" /\ task[t].src.kind = "message" =>
      /\ \E s \in SampleAt("last", OwnValues(task[t].src)) :
           s.value >= task[t].number \/ \E u \in task[t].beside : s.value = task[u].time
      /\ \A l \in Numbers(task[t].payload) :
           Len(l.indices) < 2 /\ ~Clash(l.key) =>
             \E s \in samples :
               /\ s.metric = l.key
               /\ Labelled(labels[l.key], s.values) = TrueLabels(task[t].src, l)
               /\ \/ s.value >= task[t].number
                  \/ \E u \in task[t].beside : s.value = task[u].number

(* What the forward broker holds of a topic (the last publication, which    *)
(* stays when it is retained) is never older than a message or run it took, *)
(* unless the older one was still at work when the newer one came: however  *)
(* often the connection is lost and a payload sent again, a task that is    *)
(* done does not come back, because it waits for its token                  *)
(* (mqtt_forward.go:129-131).                                               *)
NewestForwarded ==
  \A t \in forwarded :
    LET x == ForwardTopic(task[t].src) IN
    \/ published[x] >= task[t].number
    \/ \E u \in task[t].beside : published[x] = task[u].number

(* What is parsed does not depend on the state: the initial ones will do.   *)

(* README.md:524: "Lists are transformed to `index=` labels".  The regular  *)
(* expression and the offsets (ecoflow_parser.go:26-45) give every number   *)
(* the names on its path as key and its positions as indices, whatever is   *)
(* nested in what, with two exceptions: a list directly in a list, and      *)
(* names with underscores or numerals that look like those of a position.   *)
ParsedAsDocumented ==
  clock = 0 =>
    \A p \in ParsedPaths :
      Plain(p.path) /\ NoListInList(p.path) => p.parsed = Expected(p.path)

(* Two numbers of a payload are never written to one gauge with the same    *)
(* indices, one over the other in the order of a map, not even where a list *)
(* is directly in a list, unless a name is empty, has an underscore, or a   *)
(* numeral that looks like a position (ecoflow_parser.go:22-52).            *)
NothingOverwritten ==
  clock = 0 =>
    LET plain == {p \in ParsedPaths : Plain(p.path) /\ NoUnderscore(p.path)}
    IN \A p, q \in plain : Coexist(p.path, q.path) => p.parsed # q.parsed

(* README.md:524: "Lists are transformed to `index=` labels", and the       *)
(* examples that follow: a number is exported under its own indices.        *)
IndexedAsReceived ==
  \A s \in samples : s.metric \in Keys => Placed(s)
=============================================================================
