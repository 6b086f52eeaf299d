----------------------------- MODULE MetricsProofs -----------------------------
(***************************************************************************)
(* What holds of the metrics and of MQTT forwarding for every number of    *)
(* messages, runs, devices and collectors, and for all payloads: the type  *)
(* invariant, that counters count, that nothing but clashing labels stops  *)
(* the process, and which numbers are exported and forwarded.  What the    *)
(* parser makes of a path does not matter for these, and is never          *)
(* expanded; the last theorem is about it.                                 *)
(***************************************************************************)
EXTENDS Metrics, ParserProofs, TLAPS, FiniteSetTheorems, SequenceTheorems

AllLeaves == UNION {Leaves(P) : P \in Payloads}

(* What label values are made of. *)
Values == Devices \cup Collectors \cup {"quota", "parameters"} \cup Numerals

Pcs == OwnMetrics \cup {"spawned", "parse", "forward", "leaves", "done"}

TaskRecords ==
  [pc : Pcs, src : Sources, number : Nat, time : Nat, registered : BOOLEAN,
   payload : SUBSET AllLeaves, todo : SUBSET AllLeaves, current : SUBSET AllLeaves,
   beside : SUBSET Tasks]

Types ==
  /\ enabled \in BOOLEAN /\ crashed \in BOOLEAN /\ connected \in BOOLEAN
  /\ labels \in [Metrics -> Seq(LabelKinds)]
  /\ samples \subseteq [metric : Metrics, values : Seq(Values), value : Nat]
  /\ clock \in Nat
  /\ task \in [Tasks -> {Idle} \cup TaskRecords]
  /\ published \in [ForwardTopics -> Nat]
  /\ forwarded \subseteq Tasks

(* The clock counts the tasks that are known, and nothing is newer than it. *)
Numbered ==
  /\ Cardinality({t \in Tasks : Known(t)}) = clock
  /\ \A t \in Tasks : Known(t) => task[t].number \in 1..clock /\ task[t].time \in 0..clock
  /\ \A x \in ForwardTopics : published[x] <= clock
  /\ \A t \in forwarded : Known(t)

MessageMetrics == {"received", "last", "lastPayload"}
RunMetrics     == {"invocations", "invoked"}

(* What a task has, by where it is. *)
StagedTask(q) ==
  /\ q.pc \in MessageMetrics => q.src.kind = "message"
  /\ q.pc \in RunMetrics => q.src.kind = "run"
  /\ q.pc \in {"spawned", "received", "last", "invocations", "invoked", "parse"}
       => q.payload = {}
  /\ q.todo \cup q.current \subseteq Numbers(q.payload)
  /\ q.pc # "leaves" => q.current = {}
  /\ \A l, k \in q.current : l = k
  /\ q.pc = "done" => q.todo = {}
  /\ q.registered => q.pc \in OwnMetrics
  /\ q.pc \notin {"spawned"} => q.time >= q.number

Staged == \A t \in Tasks : Known(t) => StagedTask(task[t])

(* The metrics of the writers' own have the labels of their writers. *)
OwnAsWritten ==
  \A m \in OwnMetrics :
    labels[m] \in {<<>>, IF m \in MessageMetrics THEN <<"device", "topicKind">>
                                                 ELSE <<"device", "kind", "id">>}

(* The labels of a gauge are those of a number that was received. *)
GaugesAsReceived ==
  \A m \in Keys :
    labels[m] # <<>> =>
      \E r \in Received : r[2].key = m /\ labels[m] \in LabelNames(task[r[1]].src, r[2])

(* What a task is about to write is registered, with no other labels. *)
Ready(q) ==
  /\ q.registered => labels[q.pc] # <<>>
  /\ \A l \in q.current :
       labels[l.key] # <<>> /\ Elements(labels[l.key]) \subseteq LabelSet(q.src, l)

RegisteredFirst ==
  /\ ~crashed => \A t \in Tasks : Known(t) => Ready(task[t])
  /\ \A s \in samples : labels[s.metric] # <<>> /\ Len(s.values) = Len(labels[s.metric])
  /\ ~enabled => labels = [m \in Metrics |-> <<>>]

(* An older task of the same forward topic that is still at work was at     *)
(* work when the newer one came.                                            *)
Beside ==
  \A t \in Tasks :
    Known(t) =>
      /\ \A u \in task[t].beside : Known(u)
      /\ \A u \in Tasks :
           Active(u) /\ ForwardTopic(task[u].src) = ForwardTopic(task[t].src)
             => task[u].number >= task[t].number \/ u \in task[t].beside

(* The timestamp, or the number, is as new as t, or of a task beside it     *)
(* (which knows its time by then).                                          *)
TimeEnough(t, time) ==
  \/ time >= task[t].number
  \/ \E u \in task[t].beside : task[u].pc # "spawned" /\ time = task[u].time

NumberEnough(t, number) ==
  \/ number >= task[t].number
  \/ \E u \in task[t].beside : number = task[u].number

(* What NewestUnlessOverlapped says of a task in the middle of its work:    *)
(* what it has written is still there, or was replaced by something newer,  *)
(* or by an older task that was beside it.                                  *)
LastWritten ==
  \A t \in Tasks :
    /\ Known(t)
    /\ task[t].src.kind = "message"
    /\ task[t].pc \notin {"spawned", "received", "last"}
    => \E s \in SampleAt("last", OwnValues(task[t].src)) : TimeEnough(t, s.value)

LeavesWritten ==
  \A t \in Tasks :
    Known(t) /\ task[t].src.kind = "message"
    => \A l \in Numbers(task[t].payload) \ (task[t].todo \cup task[t].current) :
         ~Clash(l.key) =>
           \E s \in samples :
             /\ s.metric = l.key /\ NumberEnough(t, s.value)
             /\ s.values \in LabelValues(task[t].src, l)

Inv ==
  /\ Types
  /\ Numbered
  /\ Staged
  /\ OwnAsWritten
  /\ GaugesAsReceived
  /\ RegisteredFirst
  /\ Beside

-----------------------------------------------------------------------------
(* Labels *)

LEMMA UpToThree ==
  ASSUME NEW n \in Nat, n <= 3
  PROVE  n \in 0..3
  OBVIOUS

(* A leaf of a payload, and how many labels it adds. *)
LEMMA LeafType ==
  ASSUME NEW l \in AllLeaves
  PROVE  /\ l.key \in Keys
         /\ l.indices \in Seq(Numerals)
         /\ Len(l.indices) \in 0..3
         /\ DOMAIN l.indices = 1..Len(l.indices)
<1>1. PICK P \in Payloads : l \in Leaves(P)
  BY DEF AllLeaves
<1>2. l.key \in Keys
  BY <1>1 DEF Keys
<1>3. l.indices \in Seq(Numerals) /\ Len(l.indices) <= Len(IndexNames)
  BY <1>1, MetricsAssumption
<1>4. Len(l.indices) <= 3
  <2>1. Len(IndexNames) = 3
    BY DEF IndexNames
  <2> QED
    BY <1>3, <2>1, Zenon
<1>5. Len(l.indices) \in Nat /\ DOMAIN l.indices = 1..Len(l.indices)
  BY <1>3, LenProperties
<1>6. Len(l.indices) \in 0..3
  BY <1>4, <1>5, UpToThree
<1> QED
  BY <1>2, <1>3, <1>5, <1>6

(* A source is that of messages or that of runs. *)
LEMMA SourceType ==
  ASSUME NEW src \in Sources
  PROVE  /\ src.kind \in {"message", "run"}
         /\ src.device \in Devices
         /\ src.kind = "run" => src.id \in Collectors
         /\ ForwardTopic(src) \in ForwardTopics
  BY DEF Sources, ForwardTopic, ForwardTopics

LEMMA MessageSource ==
  ASSUME NEW src \in Sources, NEW other \in Sources,
         src.kind = "message", other.kind = "message", src.device = other.device
  PROVE  src = other
  BY DEF Sources

LEMMA RunSource ==
  ASSUME NEW src \in Sources, NEW other \in Sources,
         src.kind = "run", other.kind = "run", src.device = other.device, src.id = other.id
  PROVE  src = other
  BY DEF Sources

(* An order of n positions, for the depths that labels have names for, uses *)
(* each of them.                                                            *)
LEMMA OntoSmall ==
  ASSUME NEW D, D \in {{}, {1}, {1, 2}, {1, 2, 3}}, NEW p \in [D -> D],
         \A i, j \in D : p[i] = p[j] => i = j
  PROVE  \A k \in D : \E i \in D : p[i] = k
<1>1. CASE D = {}
  BY <1>1
<1>2. CASE D = {1}
  BY <1>2
<1>3. CASE D = {1, 2}
  BY <1>3
<1>4. CASE D = {1, 2, 3}
  BY <1>4
<1> QED
  BY <1>1, <1>2, <1>3, <1>4

LEMMA OrderIsOnto ==
  ASSUME NEW n \in 0..3, NEW p \in Orders(n)
  PROVE  /\ p \in [1..n -> 1..n]
         /\ \A k \in 1..n : \E i \in 1..n : p[i] = k
<1>1. p \in [1..n -> 1..n] /\ \A i, j \in 1..n : p[i] = p[j] => i = j
  BY DEF Orders
<1>2. 1..n \in {{}, {1}, {1, 2}, {1, 2, 3}}
  <2>1. n \in {0, 1, 2, 3}
    OBVIOUS
  <2> QED
    BY <2>1
<1> QED
  BY <1>1, <1>2, OntoSmall

(* The names before the indices, and how many values go with them. *)
PrefixLength(src) == IF src.kind = "message" THEN 1 ELSE 2

LEMMA PrefixType ==
  ASSUME NEW src \in Sources
  PROVE  /\ Prefix(src) \in Seq(LabelKinds) /\ PrefixValues(src) \in Seq(Values)
         /\ Len(Prefix(src)) = PrefixLength(src)
         /\ Len(PrefixValues(src)) = PrefixLength(src)
         /\ Elements(Prefix(src)) =
              IF src.kind = "message" THEN {"device"} ELSE {"collector", "device"}
<1>1. {"device", "collector"} \subseteq LabelKinds
  BY DEF LabelKinds
<1>2. src.kind = "message" => PrefixValues(src) = <<src.device>> /\ src.device \in Values
  BY SourceType DEF PrefixValues, Values
<1>3. src.kind # "message" =>
         PrefixValues(src) = <<src.id, src.device>> /\ src.id \in Values /\ src.device \in Values
  BY SourceType DEF PrefixValues, Values
<1>4. src.kind = "message" => Prefix(src) = <<"device">>
  BY DEF Prefix
<1>5. src.kind # "message" => Prefix(src) = <<"collector", "device">>
  BY DEF Prefix
<1>6. CASE src.kind = "message"
  <2>1. Elements(<<"device">>) = {"device"}
    BY DEF Elements
  <2>2. Prefix(src) = <<"device">> /\ PrefixValues(src) = <<src.device>>
    BY <1>2, <1>4, <1>6
  <2>3. PrefixLength(src) = 1
    BY <1>6 DEF PrefixLength
  <2>4. <<"device">> \in Seq(LabelKinds) /\ Len(<<"device">>) = 1
    BY <1>1
  <2>5. <<src.device>> \in Seq(Values) /\ Len(<<src.device>>) = 1
    BY <1>2, <1>6
  <2> QED
    BY <1>6, <2>1, <2>2, <2>3, <2>4, <2>5, Zenon
<1>7. CASE src.kind # "message"
  <2>1. Elements(<<"collector", "device">>) = {"collector", "device"}
    BY DEF Elements
  <2>2. Prefix(src) = <<"collector", "device">> /\ PrefixValues(src) = <<src.id, src.device>>
    BY <1>3, <1>5, <1>7
  <2>3. PrefixLength(src) = 2
    BY <1>7 DEF PrefixLength
  <2>4. <<"collector", "device">> \in Seq(LabelKinds) /\ Len(<<"collector", "device">>) = 2
    BY <1>1
  <2>5. <<src.id, src.device>> \in Seq(Values) /\ Len(<<src.id, src.device>>) = 2
    BY <1>3, <1>7
  <2> QED
    BY <1>7, <2>1, <2>2, <2>3, <2>4, <2>5, Zenon
<1> QED
  BY <1>6, <1>7

(* The names of a leaf's labels, in whatever order: they are its label set. *)
LEMMA NamesOfLeaf ==
  ASSUME NEW src \in Sources, NEW l \in AllLeaves, NEW names \in LabelNames(src, l)
  PROVE  /\ names \in Seq(LabelKinds)
         /\ names # <<>>
         /\ Len(names) = PrefixLength(src) + Len(l.indices)
         /\ Elements(names) = LabelSet(src, l)
         /\ Len(l.indices) < 2 =>
              names = Prefix(src) \o [i \in DOMAIN l.indices |-> IndexNames[i]]
<1>1. PICK n \in 0..3, k \in {1, 2} : Len(l.indices) = n /\ PrefixLength(src) = k
  BY LeafType DEF PrefixLength
<1>12. DOMAIN l.indices = 1..n
  BY <1>1, LeafType
<1>2. PICK p \in Orders(n) : names = Prefix(src) \o [i \in DOMAIN p |-> IndexNames[p[i]]]
  BY <1>1 DEF LabelNames
<1>3. p \in [1..n -> 1..n] /\ DOMAIN p = 1..n /\ \A j \in 1..n : \E i \in 1..n : p[i] = j
  BY <1>2, OrderIsOnto
<1> DEFINE tail == [i \in 1..n |-> IndexNames[p[i]]]
<1>4. \A j \in 1..3 : IndexNames[j] \in LabelKinds
  BY DEF IndexNames, LabelKinds, Elements
<1>5. tail \in Seq(LabelKinds) /\ Len(tail) = n /\ \A i \in 1..n : tail[i] = IndexNames[p[i]]
  <2>1. 1..n \subseteq 1..3
    OBVIOUS
  <2>2. \A i \in 1..n : IndexNames[p[i]] \in LabelKinds
    BY <1>3, <1>4, <2>1
  <2> QED
    BY <1>1, <2>2
<1>6. names = Prefix(src) \o tail
  BY <1>2, <1>3
<1>7. Prefix(src) \in Seq(LabelKinds) /\ Len(Prefix(src)) = k
  BY <1>1, PrefixType
<1>13. n < 2 => tail = [i \in 1..n |-> IndexNames[i]]
  <2>1. CASE n = 0
    BY <2>1
  <2>2. CASE n = 1
    <3>1. p[1] = 1
      BY <1>3, <2>2
    <3> QED
      BY <2>2, <3>1
  <2> QED
    BY <2>1, <2>2
<1> HIDE DEF tail
<1>8. /\ names \in Seq(LabelKinds) /\ Len(names) = k + n
      /\ \A i \in 1..k : names[i] = Prefix(src)[i]
      /\ \A i \in 1..n : names[k + i] = tail[i]
  BY <1>1, <1>5, <1>6, <1>7
<1>9. names # <<>>
  BY <1>1, <1>8
<1>10. Elements(names) = Elements(Prefix(src)) \cup {IndexNames[i] : i \in 1..n}
  <2>1. ASSUME NEW x \in Elements(names)
        PROVE  x \in Elements(Prefix(src)) \cup {IndexNames[i] : i \in 1..n}
    <3>1. PICK i \in 1..(k + n) : x = names[i]
      BY <1>8 DEF Elements
    <3>2. CASE i <= k
      BY <1>1, <1>7, <1>8, <3>1, <3>2 DEF Elements
    <3>3. CASE i > k
      <4>1. i - k \in 1..n /\ i = k + (i - k)
        BY <1>1, <3>3
      <4>2. x = IndexNames[p[i - k]] /\ p[i - k] \in 1..n
        BY <1>3, <1>5, <1>8, <3>1, <4>1
      <4> QED
        BY <4>2
    <3> QED
      BY <1>1, <3>2, <3>3
  <2>2. ASSUME NEW x \in Elements(Prefix(src)) PROVE x \in Elements(names)
    <3>1. PICK i \in 1..k : x = Prefix(src)[i]
      BY <1>7 DEF Elements
    <3>2. x = names[i] /\ i \in 1..(k + n)
      BY <1>1, <1>8, <3>1
    <3> QED
      BY <1>8, <3>2 DEF Elements
  <2>3. ASSUME NEW j \in 1..n PROVE IndexNames[j] \in Elements(names)
    <3>1. PICK i \in 1..n : p[i] = j
      BY <1>3
    <3>2. names[k + i] = IndexNames[j] /\ k + i \in 1..(k + n)
      BY <1>1, <1>5, <1>8, <3>1
    <3> QED
      BY <1>8, <3>2 DEF Elements
  <2> QED
    BY <2>1, <2>2, <2>3
<1>11. Elements(names) = LabelSet(src, l)
  BY <1>12, <1>10 DEF LabelSet
<1> QED
  BY <1>1, <1>6, <1>8, <1>9, <1>11, <1>12, <1>13

(* The same label sets: the sources are of the same kind, and the numbers   *)
(* in lists of the same depth.                                              *)
LEMMA SameLabels ==
  ASSUME NEW src \in Sources, NEW other \in Sources, NEW l \in AllLeaves, NEW k \in AllLeaves,
         LabelSet(src, l) \subseteq LabelSet(other, k)
  PROVE  /\ src.kind = "run" => other.kind = "run"
         /\ Len(l.indices) <= Len(k.indices)
<1>1. PICK n \in 0..3, m \in 0..3 : Len(l.indices) = n /\ Len(k.indices) = m
  BY LeafType
<1>2. DOMAIN l.indices = 1..n /\ DOMAIN k.indices = 1..m
  BY <1>1, LeafType
<1>3. /\ Elements(Prefix(src)) = IF src.kind = "message" THEN {"device"} ELSE {"collector", "device"}
      /\ Elements(Prefix(other)) = IF other.kind = "message" THEN {"device"}
                                                            ELSE {"collector", "device"}
      /\ src.kind \in {"message", "run"} /\ other.kind \in {"message", "run"}
  BY PrefixType, SourceType
<1>4. /\ LabelSet(src, l) = Elements(Prefix(src)) \cup {IndexNames[i] : i \in 1..n}
      /\ LabelSet(other, k) = Elements(Prefix(other)) \cup {IndexNames[i] : i \in 1..m}
  BY <1>2 DEF LabelSet
<1>5. IndexNames[1] = "index0" /\ IndexNames[2] = "index1" /\ IndexNames[3] = "index2"
  BY DEF IndexNames
<1>6. \A i \in 1..3 : IndexNames[i] \notin {"collector", "device"}
  BY <1>5
<1>7. \A i, j \in 1..3 : IndexNames[i] = IndexNames[j] => i = j
  BY <1>5
<1>8. ASSUME src.kind = "run" PROVE other.kind = "run"
  <2>1. "collector" \in LabelSet(other, k)
    BY <1>3, <1>4, <1>8
  <2>2. "collector" \in Elements(Prefix(other))
    BY <1>4, <1>6, <2>1
  <2> QED
    BY <1>3, <2>2
<1>9. n <= m
  <2>1. SUFFICES ASSUME n > m PROVE FALSE
    OBVIOUS
  <2>2. n \in 1..n /\ n \in 1..3
    BY <2>1
  <2>3. IndexNames[n] \in LabelSet(other, k)
    BY <1>4, <2>2
  <2>4. IndexNames[n] \notin Elements(Prefix(other))
    BY <1>3, <1>6, <2>2
  <2>5. PICK j \in 1..m : IndexNames[n] = IndexNames[j]
    BY <1>4, <2>3, <2>4
  <2> QED
    BY <1>7, <2>1, <2>2, <2>5
<1> QED
  BY <1>1, <1>8, <1>9

(* The values of a leaf's labels, in whatever order: those of the prefix    *)
(* come first.                                                              *)
LEMMA ValuesOfLeaf ==
  ASSUME NEW src \in Sources, NEW l \in AllLeaves, NEW values \in LabelValues(src, l)
  PROVE  /\ values \in Seq(Values)
         /\ Len(values) = PrefixLength(src) + Len(l.indices)
         /\ src.kind = "message" => values[1] = src.device
         /\ src.kind = "run" => values[1] = src.id /\ values[2] = src.device
         /\ Len(l.indices) < 2 => values = PrefixValues(src) \o l.indices
<1>1. PICK n \in 0..3, k \in {1, 2} : Len(l.indices) = n /\ PrefixLength(src) = k
  BY LeafType DEF PrefixLength
<1>2. DOMAIN l.indices = 1..n /\ l.indices \in Seq(Numerals)
  BY <1>1, LeafType
<1>3. PICK p \in Orders(n) : values = PrefixValues(src) \o [i \in DOMAIN p |-> l.indices[p[i]]]
  BY <1>1 DEF LabelValues
<1>4. p \in [1..n -> 1..n] /\ DOMAIN p = 1..n
  BY <1>3, OrderIsOnto
<1> DEFINE tail == [i \in 1..n |-> l.indices[p[i]]]
<1>5. tail \in Seq(Values) /\ Len(tail) = n
  <2>1. \A j \in 1..n : l.indices[j] \in Values
    BY <1>1, <1>2, ElementOfSeq DEF Values
  <2>2. \A i \in 1..n : l.indices[p[i]] \in Values
    BY <1>4, <2>1
  <2> QED
    BY <2>2
<1>6. values = PrefixValues(src) \o tail
  BY <1>3, <1>4
<1>7. PrefixValues(src) \in Seq(Values) /\ Len(PrefixValues(src)) = k
  BY <1>1, PrefixType
<1>8. n < 2 => tail = l.indices
  <2>1. CASE n = 0
    <3>1. tail = <<>> /\ l.indices = <<>>
      BY <1>1, <1>2, <2>1
    <3> QED
      BY <3>1
  <2>2. CASE n = 1
    <3>1. p[1] = 1
      BY <1>4, <2>2
    <3>2. tail \in [1..1 -> Values] /\ tail[1] = l.indices[1]
      BY <1>5, <2>2, <3>1
    <3>3. l.indices = [i \in 1..1 |-> l.indices[i]]
      BY <1>2, <2>2
    <3>4. tail = [i \in 1..1 |-> l.indices[i]]
      BY <2>2, <3>1
    <3> QED
      BY <3>3, <3>4, Zenon
  <2> QED
    BY <2>1, <2>2
<1> HIDE DEF tail
<1>9. /\ values \in Seq(Values) /\ Len(values) = k + n
      /\ \A i \in 1..k : values[i] = PrefixValues(src)[i]
  BY <1>5, <1>6, <1>7
<1>10. src.kind = "message" => values[1] = src.device
  <2>1. src.kind = "message" => PrefixValues(src) = <<src.device>>
    BY DEF PrefixValues
  <2>2. 1 \in 1..k
    OBVIOUS
  <2> QED
    BY <1>9, <2>1, <2>2
<1>11. src.kind = "run" => values[1] = src.id /\ values[2] = src.device
  <2>1. src.kind = "run" => PrefixValues(src) = <<src.id, src.device>> /\ k = 2
    BY <1>1 DEF PrefixValues, PrefixLength
  <2> QED
    BY <1>9, <2>1
<1> QED
  BY <1>1, <1>6, <1>8, <1>9, <1>10, <1>11

LEMMA LabelledConcat ==
  ASSUME NEW S, NEW T, NEW a \in Seq(S), NEW b \in Seq(S), NEW c \in Seq(T), NEW d \in Seq(T),
         Len(a) = Len(c), Len(b) = Len(d)
  PROVE  Labelled(a \o b, c \o d) = Labelled(a, c) \cup Labelled(b, d)
<1>1. PICK i \in Nat, j \in Nat : Len(a) = i /\ Len(b) = j
  OBVIOUS
<1>2. Len(c) = i /\ Len(d) = j /\ DOMAIN a = 1..i /\ DOMAIN b = 1..j
  BY <1>1
<1>3. /\ Len(a \o b) = i + j /\ DOMAIN (a \o b) = 1..(i + j)
      /\ \A x \in 1..i : (a \o b)[x] = a[x] /\ (c \o d)[x] = c[x]
      /\ \A x \in 1..j : (a \o b)[i + x] = b[x] /\ (c \o d)[i + x] = d[x]
  BY <1>1, <1>2
<1>4. ASSUME NEW x \in 1..(i + j)
      PROVE  <<(a \o b)[x], (c \o d)[x]>> \in Labelled(a, c) \cup Labelled(b, d)
  <2>1. CASE x \in 1..i
    BY <1>2, <1>3, <2>1 DEF Labelled
  <2>2. CASE x \notin 1..i
    <3>1. PICK y \in 1..j : x = i + y
      <4>1. x - i \in 1..j /\ x = i + (x - i)
        BY <2>2
      <4> QED
        BY <4>1
    <3> QED
      BY <1>2, <1>3, <3>1 DEF Labelled
  <2> QED
    BY <2>1, <2>2
<1>5. ASSUME NEW x \in 1..i PROVE <<a[x], c[x]>> \in Labelled(a \o b, c \o d)
  <2>1. x \in 1..(i + j) /\ <<a[x], c[x]>> = <<(a \o b)[x], (c \o d)[x]>>
    BY <1>3
  <2> QED
    BY <1>3, <2>1 DEF Labelled
<1>6. ASSUME NEW x \in 1..j PROVE <<b[x], d[x]>> \in Labelled(a \o b, c \o d)
  <2>1. i + x \in 1..(i + j) /\ <<b[x], d[x]>> = <<(a \o b)[i + x], (c \o d)[i + x]>>
    BY <1>3
  <2> QED
    BY <1>3, <2>1 DEF Labelled
<1>7. Labelled(a \o b, c \o d) \subseteq Labelled(a, c) \cup Labelled(b, d)
  BY <1>3, <1>4 DEF Labelled
<1>8. Labelled(a, c) \subseteq Labelled(a \o b, c \o d)
  BY <1>2, <1>5 DEF Labelled
<1>9. Labelled(b, d) \subseteq Labelled(a \o b, c \o d)
  BY <1>2, <1>6 DEF Labelled
<1> QED
  BY <1>7, <1>8, <1>9

(* A number at most one list deep, written where the labels are those of    *)
(* another one that is at most one list deep, is under its own labels.      *)
LEMMA ShallowIsPlaced ==
  ASSUME NEW src \in Sources, NEW l \in AllLeaves, NEW values \in LabelValues(src, l),
         NEW other \in Sources, NEW k \in AllLeaves, NEW names \in LabelNames(other, k),
         Len(l.indices) < 2, Len(k.indices) < 2,
         LabelSet(other, k) \subseteq LabelSet(src, l), Len(names) = Len(values)
  PROVE  Labelled(names, values) = TrueLabels(src, l)
<1>1. PICK n \in 0..3, m \in 0..3 : Len(l.indices) = n /\ Len(k.indices) = m
  BY LeafType
<1>2. /\ n < 2 /\ m < 2 /\ m <= n
      /\ other.kind = "run" => src.kind = "run"
  BY <1>1, SameLabels
<1>3. Len(names) = PrefixLength(other) + m /\ Len(values) = PrefixLength(src) + n
  BY <1>1, NamesOfLeaf, ValuesOfLeaf
<1>4. /\ src.kind \in {"message", "run"} /\ other.kind \in {"message", "run"}
  BY SourceType
<1>5. m = n /\ other.kind = src.kind
  <2>1. PrefixLength(other) + m = PrefixLength(src) + n
    BY <1>3, Zenon
  <2> QED
    BY <1>2, <1>4, <2>1 DEF PrefixLength
<1>6. Prefix(src) = Prefix(other)
  BY <1>5 DEF Prefix
<1> DEFINE tail == [i \in 1..n |-> IndexNames[i]]
<1>7. names = Prefix(src) \o tail
  <2>1. DOMAIN k.indices = 1..n
    BY <1>1, <1>5, LeafType
  <2>2. Len(k.indices) < 2 => names = Prefix(other) \o [i \in DOMAIN k.indices |-> IndexNames[i]]
    BY NamesOfLeaf
  <2> QED
    BY <1>6, <2>1, <2>2
<1>8. values = PrefixValues(src) \o l.indices
  BY ValuesOfLeaf
<1>9. tail \in Seq(LabelKinds) /\ Len(tail) = n
  <2>1. \A j \in 1..3 : IndexNames[j] \in LabelKinds
    BY DEF IndexNames, LabelKinds, Elements
  <2> QED
    BY <2>1
<1>10. l.indices \in Seq(Values) /\ DOMAIN l.indices = 1..n
  <2>1. l.indices \in Seq(Numerals) /\ DOMAIN l.indices = 1..n
    BY <1>1, LeafType
  <2> QED
    BY <2>1, SeqMonotonic DEF Values
<1>11. Labelled(tail, l.indices) = {<<IndexNames[i], l.indices[i]>> : i \in 1..n}
  BY DEF Labelled
<1> HIDE DEF tail
<1>12. Labelled(names, values) = Labelled(Prefix(src), PrefixValues(src)) \cup Labelled(tail, l.indices)
  BY <1>1, <1>7, <1>8, <1>9, <1>10, PrefixType, LabelledConcat
<1> QED
  BY <1>10, <1>11, <1>12 DEF TrueLabels

-----------------------------------------------------------------------------
(* Steps of tasks *)

LEMMA KnownType ==
  ASSUME Types, NEW t \in Tasks, Known(t)
  PROVE  task[t] \in TaskRecords
  BY DEF Types, Known, Idle

LEMMA KnownPcs ==
  ASSUME Types, NEW t \in Tasks
  PROVE  /\ task[t] = Idle \/ task[t] \in TaskRecords
         /\ task[t] \in TaskRecords => Known(t) /\ task[t].pc \in Pcs
         /\ task[t].pc # "idle" => task[t] \in TaskRecords
<1>1. task[t] = Idle \/ task[t] \in TaskRecords
  BY DEF Types
<1>2. task[t] \in TaskRecords => task[t].pc \in Pcs
  BY DEF TaskRecords
<1>3. "idle" \notin Pcs
  BY DEF Pcs, OwnMetrics
<1> QED
  BY <1>1, <1>2, <1>3 DEF Idle, Known

(* Task t is at pc, with what else it has; its source and number stay.      *)
Moves(t, pc, time, registered, payload, todo, current) ==
  /\ task[t] \in TaskRecords /\ task'[t] \in TaskRecords
  /\ task' \in [Tasks -> {Idle} \cup TaskRecords]
  /\ \A u \in Tasks \ {t} : task'[u] = task[u]
  /\ task'[t].src = task[t].src /\ task'[t].number = task[t].number
  /\ task'[t].beside = task[t].beside
  /\ task'[t].pc = pc /\ task'[t].time = time /\ task'[t].registered = registered
  /\ task'[t].payload = payload /\ task'[t].todo = todo /\ task'[t].current = current

LEMMA MovesTo ==
  ASSUME Types, NEW t \in Tasks, task[t] \in TaskRecords, NEW q \in TaskRecords,
         q.src = task[t].src, q.number = task[t].number, q.beside = task[t].beside,
         task' = [task EXCEPT ![t] = q]
  PROVE  Moves(t, q.pc, q.time, q.registered, q.payload, q.todo, q.current)
<1>1. task \in [Tasks -> {Idle} \cup TaskRecords]
  BY DEF Types
<1> QED
  BY <1>1 DEF Moves

LEMMA BeginMoves ==
  ASSUME Types, NEW t \in Tasks, Begin(t)
  PROVE  Moves(t, IF task[t].src.kind = "message" THEN "received" ELSE "invocations", clock,
               task[t].registered, task[t].payload, task[t].todo, task[t].current)
<1>1. PICK r \in TaskRecords : task[t] = r
  BY KnownPcs DEF Begin
<1> DEFINE pc == IF task[t].src.kind = "message" THEN "received" ELSE "invocations"
<1>2. pc \in Pcs /\ clock \in Nat
  BY DEF Pcs, OwnMetrics, Types
<1>3. task' = [task EXCEPT ![t].time = clock, ![t].pc = pc]
  BY <1>1 DEF Begin
<1> HIDE DEF pc
<1>4. PICK q : q = [r EXCEPT !.time = clock, !.pc = pc]
  OBVIOUS
<1>5. q \in TaskRecords /\ q.src = r.src /\ q.number = r.number /\ q.beside = r.beside
  BY <1>2, <1>4 DEF TaskRecords
<1>6. q.pc = pc /\ q.time = clock /\ q.registered = r.registered /\ q.payload = r.payload
         /\ q.todo = r.todo /\ q.current = r.current
  BY <1>2, <1>4 DEF TaskRecords
<1>7. task' = [task EXCEPT ![t] = q]
  BY <1>1, <1>3, <1>4 DEF Types
<1>8. Moves(t, q.pc, q.time, q.registered, q.payload, q.todo, q.current)
  BY <1>1, <1>5, <1>7, MovesTo
<1> QED
  BY <1>1, <1>6, <1>8 DEF pc

LEMMA RegisterOwnMoves ==
  ASSUME Types, NEW t \in Tasks, RegisterOwn(t)
  PROVE  Moves(t, task[t].pc, task[t].time, TRUE, task[t].payload, task[t].todo, task[t].current)
<1>1. PICK r \in TaskRecords : task[t] = r
  BY KnownPcs DEF RegisterOwn, OwnMetrics
<1>2. TRUE \in BOOLEAN
  OBVIOUS
<1>3. task' = [task EXCEPT ![t].registered = TRUE]
  BY <1>1 DEF RegisterOwn
<1>4. PICK q : q = [r EXCEPT !.registered = TRUE]
  OBVIOUS
<1>5. q \in TaskRecords /\ q.src = r.src /\ q.number = r.number /\ q.beside = r.beside
  BY <1>2, <1>4 DEF TaskRecords
<1>6. q.pc = r.pc /\ q.time = r.time /\ q.registered = TRUE /\ q.payload = r.payload
         /\ q.todo = r.todo /\ q.current = r.current
  BY <1>2, <1>4 DEF TaskRecords
<1>7. task' = [task EXCEPT ![t] = q]
  BY <1>1, <1>3, <1>4 DEF Types
<1>8. Moves(t, q.pc, q.time, q.registered, q.payload, q.todo, q.current)
  BY <1>1, <1>5, <1>7, MovesTo
<1> QED
  BY <1>1, <1>6, <1>8

LEMMA AfterType ==
  ASSUME NEW m \in OwnMetrics
  PROVE  /\ After(m) \in Pcs
         /\ m = "received" => After(m) = "last"
         /\ m = "last" => After(m) = "parse"
         /\ m = "lastPayload" => After(m) = "leaves"
         /\ m = "invocations" => After(m) = "invoked"
         /\ m = "invoked" => After(m) = "parse"
  BY DEF OwnMetrics, Pcs, After

LEMMA WriteOwnMoves ==
  ASSUME Types, NEW t \in Tasks, WriteOwn(t)
  PROVE  Moves(t, After(task[t].pc), task[t].time, FALSE, task[t].payload, task[t].todo, task[t].current)
<1>1. PICK r \in TaskRecords : task[t] = r
  BY KnownPcs DEF WriteOwn, OwnMetrics
<1> DEFINE pc == After(task[t].pc)
<1>2. pc \in Pcs
  BY AfterType DEF WriteOwn
<1>3. task' = [task EXCEPT ![t].registered = FALSE, ![t].pc = pc]
  BY <1>1 DEF WriteOwn
<1> HIDE DEF pc
<1>4. PICK q : q = [r EXCEPT !.registered = FALSE, !.pc = pc]
  OBVIOUS
<1>5. q \in TaskRecords /\ q.src = r.src /\ q.number = r.number /\ q.beside = r.beside
  BY <1>2, <1>4 DEF TaskRecords
<1>6. q.pc = pc /\ q.time = r.time /\ q.registered = FALSE /\ q.payload = r.payload
         /\ q.todo = r.todo /\ q.current = r.current
  BY <1>2, <1>4 DEF TaskRecords
<1>7. task' = [task EXCEPT ![t] = q]
  BY <1>1, <1>3, <1>4 DEF Types
<1>8. Moves(t, q.pc, q.time, q.registered, q.payload, q.todo, q.current)
  BY <1>1, <1>5, <1>7, MovesTo
<1> QED
  BY <1>1, <1>6, <1>8 DEF pc

LEMMA RegisterLeafMoves ==
  ASSUME Types, NEW t \in Tasks, NEW l \in AllLeaves, RegisterLeaf(t, l)
  PROVE  Moves(t, "leaves", task[t].time, task[t].registered, task[t].payload, task[t].todo \ {l}, {l})
<1>1. PICK r \in TaskRecords : task[t] = r
  BY KnownPcs DEF RegisterLeaf
<1>2. r.todo \ {l} \in SUBSET AllLeaves /\ {l} \in SUBSET AllLeaves /\ r.pc = "leaves"
  BY <1>1 DEF TaskRecords, RegisterLeaf
<1>3. task' = [task EXCEPT ![t].current = {l}, ![t].todo = @ \ {l}]
  BY <1>1 DEF RegisterLeaf
<1>4. PICK q : q = [r EXCEPT !.current = {l}, !.todo = @ \ {l}]
  OBVIOUS
<1>5. q \in TaskRecords /\ q.src = r.src /\ q.number = r.number /\ q.beside = r.beside
  BY <1>2, <1>4 DEF TaskRecords
<1>6. q.pc = "leaves" /\ q.time = r.time /\ q.registered = r.registered /\ q.payload = r.payload
         /\ q.todo = r.todo \ {l} /\ q.current = {l}
  BY <1>2, <1>4 DEF TaskRecords
<1>7. task' = [task EXCEPT ![t] = q]
  BY <1>1, <1>3, <1>4 DEF Types
<1>8. Moves(t, q.pc, q.time, q.registered, q.payload, q.todo, q.current)
  BY <1>1, <1>5, <1>7, MovesTo
<1> QED
  BY <1>1, <1>6, <1>8

LEMMA WriteLeafMoves ==
  ASSUME Types, NEW t \in Tasks, NEW l \in AllLeaves, WriteLeaf(t, l)
  PROVE  Moves(t, "leaves", task[t].time, task[t].registered, task[t].payload, task[t].todo, {})
<1>1. PICK r \in TaskRecords : task[t] = r
  BY KnownPcs DEF WriteLeaf
<1>2. {} \in SUBSET AllLeaves /\ r.pc = "leaves"
  BY <1>1 DEF TaskRecords, WriteLeaf
<1>3. task' = [task EXCEPT ![t].current = {}]
  BY <1>1 DEF WriteLeaf
<1>4. PICK q : q = [r EXCEPT !.current = {}]
  OBVIOUS
<1>5. q \in TaskRecords /\ q.src = r.src /\ q.number = r.number /\ q.beside = r.beside
  BY <1>2, <1>4 DEF TaskRecords
<1>6. q.pc = "leaves" /\ q.time = r.time /\ q.registered = r.registered /\ q.payload = r.payload
         /\ q.todo = r.todo /\ q.current = {}
  BY <1>2, <1>4 DEF TaskRecords
<1>7. task' = [task EXCEPT ![t] = q]
  BY <1>1, <1>3, <1>4 DEF Types
<1>8. Moves(t, q.pc, q.time, q.registered, q.payload, q.todo, q.current)
  BY <1>1, <1>5, <1>7, MovesTo
<1> QED
  BY <1>1, <1>6, <1>8

LEMMA FinishMoves ==
  ASSUME Types, NEW t \in Tasks, Finish(t)
  PROVE  Moves(t, "done", task[t].time, task[t].registered, task[t].payload, {}, {})
<1>1. PICK r \in TaskRecords : task[t] = r
  BY KnownPcs DEF Finish
<1>2. "done" \in Pcs /\ r.todo = {} /\ r.current = {}
  BY <1>1 DEF Pcs, Finish
<1>3. task' = [task EXCEPT ![t].pc = "done"]
  BY <1>1 DEF Finish
<1>4. PICK q : q = [r EXCEPT !.pc = "done"]
  OBVIOUS
<1>5. q \in TaskRecords /\ q.src = r.src /\ q.number = r.number /\ q.beside = r.beside
  BY <1>2, <1>4 DEF TaskRecords
<1>6. q.pc = "done" /\ q.time = r.time /\ q.registered = r.registered /\ q.payload = r.payload
         /\ q.todo = {} /\ q.current = {}
  BY <1>2, <1>4 DEF TaskRecords
<1>7. task' = [task EXCEPT ![t] = q]
  BY <1>1, <1>3, <1>4 DEF Types
<1>8. Moves(t, q.pc, q.time, q.registered, q.payload, q.todo, q.current)
  BY <1>1, <1>5, <1>7, MovesTo
<1> QED
  BY <1>1, <1>6, <1>8

LEMMA AfterForwardMoves ==
  ASSUME Types, NEW t \in Tasks, task[t].pc = "forward", AfterForward(t)
  PROVE  Moves(t, IF task[t].payload = {} THEN "done"
                  ELSE IF task[t].src.kind = "message" THEN "lastPayload" ELSE "leaves",
               task[t].time, task[t].registered, task[t].payload, task[t].todo, task[t].current)
<1>1. PICK r \in TaskRecords : task[t] = r
  BY KnownPcs
<1> DEFINE pc == IF task[t].payload = {} THEN "done" ELSE IF task[t].src.kind = "message" THEN "lastPayload" ELSE "leaves"
<1>2. pc \in Pcs
  BY DEF Pcs, OwnMetrics
<1>3. task' = [task EXCEPT ![t].pc = pc]
  BY <1>1 DEF AfterForward
<1> HIDE DEF pc
<1>4. PICK q : q = [r EXCEPT !.pc = pc]
  OBVIOUS
<1>5. q \in TaskRecords /\ q.src = r.src /\ q.number = r.number /\ q.beside = r.beside
  BY <1>2, <1>4 DEF TaskRecords
<1>6. q.pc = pc /\ q.time = r.time /\ q.registered = r.registered /\ q.payload = r.payload
         /\ q.todo = r.todo /\ q.current = r.current
  BY <1>2, <1>4 DEF TaskRecords
<1>7. task' = [task EXCEPT ![t] = q]
  BY <1>1, <1>3, <1>4 DEF Types
<1>8. Moves(t, q.pc, q.time, q.registered, q.payload, q.todo, q.current)
  BY <1>1, <1>5, <1>7, MovesTo
<1> QED
  BY <1>1, <1>6, <1>8 DEF pc

LEMMA ParseFailsMoves ==
  ASSUME Types, NEW t \in Tasks, task[t].pc = "parse", task' = [task EXCEPT ![t].pc = "done"]
  PROVE  Moves(t, "done", task[t].time, task[t].registered, task[t].payload, task[t].todo, task[t].current)
<1>1. PICK r \in TaskRecords : task[t] = r
  BY KnownPcs
<1>2. "done" \in Pcs
  BY DEF Pcs
<1>3. task' = [task EXCEPT ![t].pc = "done"]
  BY <1>1
<1>4. PICK q : q = [r EXCEPT !.pc = "done"]
  OBVIOUS
<1>5. q \in TaskRecords /\ q.src = r.src /\ q.number = r.number /\ q.beside = r.beside
  BY <1>2, <1>4 DEF TaskRecords
<1>6. q.pc = "done" /\ q.time = r.time /\ q.registered = r.registered /\ q.payload = r.payload
         /\ q.todo = r.todo /\ q.current = r.current
  BY <1>2, <1>4 DEF TaskRecords
<1>7. task' = [task EXCEPT ![t] = q]
  BY <1>1, <1>3, <1>4 DEF Types
<1>8. Moves(t, q.pc, q.time, q.registered, q.payload, q.todo, q.current)
  BY <1>1, <1>5, <1>7, MovesTo
<1> QED
  BY <1>1, <1>6, <1>8

LEMMA ParseMoves ==
  ASSUME Types, NEW t \in Tasks, task[t].pc = "parse", NEW P \in Payloads,
         task' = [task EXCEPT ![t].payload = Leaves(P), ![t].todo = Numbers(Leaves(P)),
                              ![t].pc = "forward"]
  PROVE  Moves(t, "forward", task[t].time, task[t].registered, Leaves(P), Numbers(Leaves(P)), task[t].current)
<1>1. PICK r \in TaskRecords : task[t] = r
  BY KnownPcs
<1>2. "forward" \in Pcs /\ Leaves(P) \subseteq AllLeaves /\ Numbers(Leaves(P)) \subseteq AllLeaves
  BY DEF Pcs, AllLeaves, Numbers
<1>3. task' = [task EXCEPT ![t].payload = Leaves(P), ![t].todo = Numbers(Leaves(P)), ![t].pc = "forward"]
  BY <1>1
<1>4. PICK q : q = [r EXCEPT !.payload = Leaves(P), !.todo = Numbers(Leaves(P)), !.pc = "forward"]
  OBVIOUS
<1>5. q \in TaskRecords /\ q.src = r.src /\ q.number = r.number /\ q.beside = r.beside
  BY <1>2, <1>4 DEF TaskRecords
<1>6. q.pc = "forward" /\ q.time = r.time /\ q.registered = r.registered /\ q.payload = Leaves(P)
         /\ q.todo = Numbers(Leaves(P)) /\ q.current = r.current
  BY <1>2, <1>4 DEF TaskRecords
<1>7. task' = [task EXCEPT ![t] = q]
  BY <1>1, <1>3, <1>4 DEF Types
<1>8. Moves(t, q.pc, q.time, q.registered, q.payload, q.todo, q.current)
  BY <1>1, <1>5, <1>7, MovesTo
<1> QED
  BY <1>1, <1>6, <1>8

-----------------------------------------------------------------------------
(* The service *)

(* A metric is registered under names. *)
LEMMA RegisterEffect ==
  ASSUME Types, NEW m \in Metrics, NEW names \in Seq(LabelKinds), names # <<>>,
         Register(m, names)
  PROVE  /\ labels' \in [Metrics -> Seq(LabelKinds)] /\ crashed' \in BOOLEAN
         /\ \A k \in Metrics : labels[k] # <<>> => labels'[k] = labels[k]
         /\ \A k \in Metrics \ {m} : labels'[k] = labels[k]
         /\ labels'[m] \in {labels[m], names}
         /\ ~crashed' => /\ ~crashed /\ enabled
                         /\ labels'[m] # <<>> /\ Elements(labels'[m]) \subseteq Elements(names)
         /\ enabled /\ crashed' => crashed \/ /\ labels[m] # <<>>
                                              /\ ~(Elements(labels[m]) \subseteq Elements(names))
         /\ ~enabled => labels' = labels
<1>1. labels \in [Metrics -> Seq(LabelKinds)] /\ crashed \in BOOLEAN
  BY DEF Types
<1>2. CASE ServiceIsNil \/ (labels[m] # <<>> /\ ~AlreadyRegistered(m, names))
  <2>1. crashed' = TRUE /\ labels' = labels
    BY <1>2 DEF Register
  <2> QED
    BY <1>1, <1>2, <2>1 DEF ServiceIsNil, AlreadyRegistered
<1>3. CASE ~(ServiceIsNil \/ (labels[m] # <<>> /\ ~AlreadyRegistered(m, names)))
  <2>1. /\ labels' = IF AlreadyRegistered(m, names) THEN labels ELSE [labels EXCEPT ![m] = names]
        /\ crashed' = crashed /\ enabled
    BY <1>3 DEF Register, ServiceIsNil
  <2>2. CASE AlreadyRegistered(m, names)
    <3>1. labels' = labels /\ labels[m] # <<>> /\ Elements(labels[m]) \subseteq Elements(names)
      BY <2>1, <2>2 DEF AlreadyRegistered
    <3> QED
      BY <1>1, <2>1, <3>1
  <2>3. CASE ~AlreadyRegistered(m, names)
    <3>1. labels[m] = <<>> /\ labels' = [labels EXCEPT ![m] = names]
      BY <1>3, <2>1, <2>3
    <3>2. /\ labels' \in [Metrics -> Seq(LabelKinds)] /\ labels'[m] = names
          /\ \A k \in Metrics \ {m} : labels'[k] = labels[k]
      BY <1>1, <3>1
    <3> QED
      BY <1>1, <2>1, <3>1, <3>2
  <2> QED
    BY <2>2, <2>3
<1> QED
  BY <1>2, <1>3

(* A sample is written: where the metric has as many labels as there are    *)
(* values, the sample at the values is replaced.                            *)
LEMMA WriteEffect ==
  ASSUME Types, NEW m \in Metrics, NEW values \in Seq(Values), NEW v \in Nat,
         Write(m, values, v)
  PROVE  /\ samples' \subseteq [metric : Metrics, values : Seq(Values), value : Nat]
         /\ crashed' \in BOOLEAN
         /\ NewValue(m, values, v) \in Nat
         /\ Len(values) = Len(labels[m]) /\ labels[m] # <<>> =>
              /\ crashed' = crashed
              /\ samples' = (samples \ SampleAt(m, values))
                   \cup {[metric |-> m, values |-> values, value |-> NewValue(m, values, v)]}
         /\ ~(Len(values) = Len(labels[m]) /\ labels[m] # <<>>) => samples' = samples
<1>1. samples \subseteq [metric : Metrics, values : Seq(Values), value : Nat] /\ crashed \in BOOLEAN
  BY DEF Types
<1>2. NewValue(m, values, v) \in Nat
  <2>1. CASE m \in Counters /\ SampleAt(m, values) # {}
    <3> DEFINE s == CHOOSE s \in SampleAt(m, values) : TRUE
    <3>1. s \in SampleAt(m, values)
      BY <2>1
    <3>2. s.value \in Nat
      BY <1>1, <3>1 DEF SampleAt
    <3>3. NewValue(m, values, v) = 1 + s.value
      BY <2>1 DEF NewValue
    <3> QED
      BY <3>2, <3>3
  <2>2. CASE ~(m \in Counters /\ SampleAt(m, values) # {})
    BY <2>2 DEF NewValue
  <2> QED
    BY <2>1, <2>2
<1> DEFINE new == [metric |-> m, values |-> values, value |-> NewValue(m, values, v)]
<1>3. new \in [metric : Metrics, values : Seq(Values), value : Nat]
  BY <1>2
<1> HIDE DEF new
<1>4. CASE Len(values) = Len(labels[m]) /\ labels[m] # <<>>
  <2>1. samples' = (samples \ SampleAt(m, values)) \cup {new} /\ crashed' = crashed
    BY <1>4 DEF Write, new
  <2> QED
    BY <1>1, <1>2, <1>3, <1>4, <2>1 DEF new
<1>5. CASE ~(Len(values) = Len(labels[m]) /\ labels[m] # <<>>)
  <2>1. crashed' \in {FALSE, TRUE} /\ samples' = samples
    BY <1>5 DEF Write
  <2> QED
    BY <1>1, <1>2, <1>5, <2>1
<1> QED
  BY <1>4, <1>5

-----------------------------------------------------------------------------
(* Types *)

(* The metrics of a writer's own. *)
LEMMA OwnType ==
  ASSUME NEW src \in Sources
  PROVE  /\ OwnLabels(src) \in Seq(LabelKinds) /\ OwnLabels(src) # <<>>
         /\ OwnValues(src) \in Seq(Values) /\ Len(OwnValues(src)) = Len(OwnLabels(src))
<1>1. CASE src.kind = "message"
  <2>1. OwnLabels(src) = <<"device", "topicKind">> /\ OwnValues(src) = <<src.device, "quota">>
    BY <1>1 DEF OwnLabels, OwnValues
  <2>2. /\ "device" \in LabelKinds /\ "topicKind" \in LabelKinds
        /\ src.device \in Values /\ "quota" \in Values
    BY SourceType DEF LabelKinds, Values
  <2> QED
    BY <2>1, <2>2
<1>2. CASE src.kind # "message"
  <2>1. /\ OwnLabels(src) = <<"device", "kind", "id">>
        /\ OwnValues(src) = <<src.device, "parameters", src.id>>
    BY <1>2 DEF OwnLabels, OwnValues
  <2>2. /\ "device" \in LabelKinds /\ "kind" \in LabelKinds /\ "id" \in LabelKinds
        /\ src.device \in Values /\ "parameters" \in Values /\ src.id \in Values
    BY <1>2, SourceType DEF LabelKinds, Values
  <2> QED
    BY <2>1, <2>2
<1> QED
  BY <1>1, <1>2

LEMMA KeysApart ==
  /\ Keys \subseteq Metrics /\ OwnMetrics \subseteq Metrics
  /\ \A k \in Keys : k \notin OwnMetrics /\ k \notin Counters
  /\ Counters \subseteq OwnMetrics /\ OwnMetrics = MessageMetrics \cup RunMetrics
<1>1. Keys \cap OwnMetrics = {}
  BY MetricsAssumption DEF OwnMetrics
<1> QED
  BY <1>1 DEF Metrics, OwnMetrics, Counters, MessageMetrics, RunMetrics

(* The calls of the service, by the action that makes them. *)
LEMMA RegisterOwnCall ==
  ASSUME Types, NEW t \in Tasks, RegisterOwn(t)
  PROVE  /\ task[t] \in TaskRecords /\ task[t].src \in Sources /\ task[t].pc \in OwnMetrics
         /\ task[t].pc \in Metrics
         /\ OwnLabels(task[t].src) \in Seq(LabelKinds) /\ OwnLabels(task[t].src) # <<>>
         /\ Register(task[t].pc, OwnLabels(task[t].src))
<1>1. task[t].pc \in OwnMetrics /\ Register(task[t].pc, OwnLabels(task[t].src))
  BY DEF RegisterOwn
<1>2. task[t] \in TaskRecords
  BY <1>1, KnownPcs DEF OwnMetrics
<1>3. task[t].src \in Sources
  BY <1>2 DEF TaskRecords
<1> QED
  BY <1>1, <1>2, <1>3, OwnType, KeysApart

LEMMA WriteOwnCall ==
  ASSUME Types, NEW t \in Tasks, WriteOwn(t)
  PROVE  /\ task[t] \in TaskRecords /\ task[t].src \in Sources /\ task[t].pc \in OwnMetrics
         /\ task[t].pc \in Metrics /\ task[t].time \in Nat /\ task[t].registered
         /\ OwnValues(task[t].src) \in Seq(Values)
         /\ Write(task[t].pc, OwnValues(task[t].src), task[t].time)
<1>1. /\ task[t].pc \in OwnMetrics /\ task[t].registered
      /\ Write(task[t].pc, OwnValues(task[t].src), task[t].time)
  BY DEF WriteOwn
<1>2. task[t] \in TaskRecords
  BY <1>1, KnownPcs DEF OwnMetrics
<1>3. task[t].src \in Sources /\ task[t].time \in Nat
  BY <1>2 DEF TaskRecords
<1> QED
  BY <1>1, <1>2, <1>3, OwnType, KeysApart

LEMMA RegisterLeafCall ==
  ASSUME Types, NEW t \in Tasks, NEW l \in AllLeaves, RegisterLeaf(t, l)
  PROVE  /\ task[t] \in TaskRecords /\ task[t].src \in Sources /\ l.key \in Keys
         /\ l.key \in Metrics /\ l \in task[t].todo
         /\ \E names \in LabelNames(task[t].src, l) :
              /\ names \in Seq(LabelKinds) /\ names # <<>>
              /\ Elements(names) = LabelSet(task[t].src, l)
              /\ Register(l.key, names)
<1>1. task[t].pc = "leaves" /\ l \in task[t].todo
  BY DEF RegisterLeaf
<1>2. task[t] \in TaskRecords
  BY <1>1, KnownPcs
<1>3. task[t].src \in Sources
  BY <1>2 DEF TaskRecords
<1>4. PICK names \in LabelNames(task[t].src, l) : Register(l.key, names)
  BY DEF RegisterLeaf
<1>5. names \in Seq(LabelKinds) /\ names # <<>> /\ Elements(names) = LabelSet(task[t].src, l)
  BY <1>3, NamesOfLeaf
<1> QED
  BY <1>1, <1>2, <1>3, <1>4, <1>5, LeafType, KeysApart

LEMMA WriteLeafCall ==
  ASSUME Types, NEW t \in Tasks, NEW l \in AllLeaves, WriteLeaf(t, l)
  PROVE  /\ task[t] \in TaskRecords /\ task[t].src \in Sources /\ l.key \in Keys
         /\ l.key \in Metrics /\ task[t].current = {l} /\ task[t].number \in Nat
         /\ \E values \in LabelValues(task[t].src, l) :
              /\ values \in Seq(Values)
              /\ Len(values) = PrefixLength(task[t].src) + Len(l.indices)
              /\ Write(l.key, values, task[t].number)
<1>1. task[t].pc = "leaves" /\ task[t].current = {l}
  BY DEF WriteLeaf
<1>2. task[t] \in TaskRecords
  BY <1>1, KnownPcs
<1>3. task[t].src \in Sources /\ task[t].number \in Nat
  BY <1>2 DEF TaskRecords
<1>4. PICK values \in LabelValues(task[t].src, l) : Write(l.key, values, task[t].number)
  BY DEF WriteLeaf
<1>5. values \in Seq(Values) /\ Len(values) = PrefixLength(task[t].src) + Len(l.indices)
  BY <1>3, ValuesOfLeaf
<1> QED
  BY <1>1, <1>2, <1>3, <1>4, <1>5, LeafType, KeysApart

(* A task is spawned. *)
LEMMA SpawnEffect ==
  ASSUME Types, NEW t \in Tasks, NEW src \in Sources, Spawn(t, src)
  PROVE  /\ task[t] = Idle /\ clock' = clock + 1
         /\ task' \in [Tasks -> {Idle} \cup TaskRecords] /\ task'[t] \in TaskRecords
         /\ \A u \in Tasks \ {t} : task'[u] = task[u]
         /\ task'[t].pc = "spawned" /\ task'[t].src = src /\ task'[t].number = clock + 1
         /\ task'[t].time = 0 /\ task'[t].registered = FALSE
         /\ task'[t].payload = {} /\ task'[t].todo = {} /\ task'[t].current = {}
         /\ task'[t].beside = {u \in Tasks : /\ Active(u)
                                            /\ ForwardTopic(task[u].src) = ForwardTopic(src)}
<1>1. task[t] = Idle /\ clock' = clock + 1 /\ task' = [task EXCEPT ![t] = Spawned(src)]
  BY DEF Spawn
<1>2. clock \in Nat /\ task \in [Tasks -> {Idle} \cup TaskRecords]
  BY DEF Types
<1>3. PICK q : q = Spawned(src)
  OBVIOUS
<1>4. q \in TaskRecords
  BY <1>2, <1>3 DEF Spawned, TaskRecords, Pcs
<1>5. /\ q.pc = "spawned" /\ q.src = src /\ q.number = clock + 1 /\ q.time = 0
      /\ q.registered = FALSE /\ q.payload = {} /\ q.todo = {} /\ q.current = {}
      /\ q.beside = {u \in Tasks : Active(u) /\ ForwardTopic(task[u].src) = ForwardTopic(src)}
  BY <1>3 DEF Spawned
<1> QED
  BY <1>1, <1>2, <1>3, <1>4, <1>5

(* What is published, and the tasks that forward. *)
LEMMA TakeEffect ==
  ASSUME Types, NEW t \in Tasks, Publish(t) \/ Deliver(t)
  PROVE  /\ task[t] \in TaskRecords /\ task[t].src \in Sources /\ task[t].pc = "forward"
         /\ published' = [published EXCEPT ![ForwardTopic(task[t].src)] = task[t].number]
         /\ published' \in [ForwardTopics -> Nat]
         /\ ForwardTopic(task[t].src) \in ForwardTopics
         /\ forwarded' = forwarded \cup {t}
         /\ UNCHANGED <<labels, samples, clock, connected, crashed>>
<1>1. task[t].pc = "forward" /\ Take(t)
  BY DEF Publish, Deliver
<1>2. task[t] \in TaskRecords
  BY <1>1, KnownPcs
<1>3. task[t].src \in Sources /\ task[t].number \in Nat
  BY <1>2 DEF TaskRecords
<1>4. ForwardTopic(task[t].src) \in ForwardTopics
  BY <1>3, SourceType
<1> QED
  BY <1>1, <1>2, <1>3, <1>4 DEF Take, Types, prometheus

(* The steps, one by one. *)
LEMMA NextCases ==
  ASSUME Types, Next
  PROVE  /\ ~crashed /\ enabled' = enabled
         /\ \/ \E t \in Tasks, src \in Sources : Spawn(t, src)
            \/ \E t \in Tasks : \/ Begin(t) \/ RegisterOwn(t) \/ WriteOwn(t) \/ Parse(t)
                                \/ Publish(t) \/ PublishSkipped(t) \/ Finish(t)
            \/ \E t \in Tasks, l \in AllLeaves : RegisterLeaf(t, l) \/ WriteLeaf(t, l)
            \/ ForwardConnect \/ ForwardLost \/ \E t \in Tasks : Deliver(t)
<1>1. ASSUME NEW t \in Tasks, Active(t), NEW l \in task[t].payload
      PROVE  l \in AllLeaves
  <2>1. task[t] \in TaskRecords
    BY <1>1, KnownPcs DEF Active
  <2> QED
    BY <1>1, <2>1 DEF TaskRecords
<1>2. ~crashed /\ enabled' = enabled
  BY DEF Next
<1>3. CASE \E t \in Tasks, src \in Sources : Spawn(t, src)
  BY <1>2, <1>3
<1>4. CASE ForwardConnect \/ ForwardLost \/ \E t \in Tasks : Deliver(t)
  BY <1>2, <1>4
<1>5. CASE \E t \in Tasks : TaskStep(t)
  <2>1. PICK t \in Tasks : TaskStep(t)
    BY <1>5
  <2>2. CASE Active(t) /\ \E l \in task[t].payload : RegisterLeaf(t, l) \/ WriteLeaf(t, l)
    <3>1. PICK l \in task[t].payload : RegisterLeaf(t, l) \/ WriteLeaf(t, l)
      BY <2>2
    <3>2. l \in AllLeaves
      BY <1>1, <2>2
    <3> QED
      BY <1>2, <3>1, <3>2
  <2>3. CASE \/ Begin(t) \/ RegisterOwn(t) \/ WriteOwn(t) \/ Parse(t)
             \/ Publish(t) \/ PublishSkipped(t) \/ Finish(t)
    BY <1>2, <2>3
  <2>4. CASE Deliver(t)
    BY <1>2, <2>4
  <2> QED
    BY <2>1, <2>2, <2>3, <2>4, Zenon DEF TaskStep
<1> QED
  BY <1>3, <1>4, <1>5 DEF Next

(* What every step of a task leaves as it was. *)
Advances(t) ==
  /\ task[t] \in TaskRecords /\ task'[t] \in TaskRecords
  /\ task' \in [Tasks -> {Idle} \cup TaskRecords]
  /\ \A u \in Tasks \ {t} : task'[u] = task[u]
  /\ task'[t].src = task[t].src /\ task'[t].number = task[t].number
  /\ task'[t].beside = task[t].beside
  /\ task'[t].payload = task[t].payload \/ task[t].pc = "parse"
  /\ task'[t].time = task[t].time \/ (task'[t].time = clock /\ task[t].pc = "spawned")
  /\ Active(t) /\ task'[t].pc # "spawned"

LEMMA MovesAdvances ==
  ASSUME NEW t \in Tasks, NEW pc, NEW time, NEW registered, NEW payload, NEW todo, NEW current,
         Moves(t, pc, time, registered, payload, todo, current),
         payload = task[t].payload \/ task[t].pc = "parse",
         time = task[t].time \/ (time = clock /\ task[t].pc = "spawned"),
         task[t].pc \notin {"idle", "done"}, pc # "spawned"
  PROVE  Advances(t)
  BY DEF Moves, Advances, Active

LEMMA ParseCases ==
  ASSUME Types, NEW t \in Tasks, Parse(t)
  PROVE  /\ task[t].pc = "parse"
         /\ \/ Moves(t, "done", task[t].time, task[t].registered, task[t].payload, task[t].todo,
                     task[t].current)
            \/ \E P \in Payloads :
                 Moves(t, "forward", task[t].time, task[t].registered, Leaves(P),
                       Numbers(Leaves(P)), task[t].current)
<1>1. task[t].pc = "parse"
  BY DEF Parse
<1>2. CASE task' = [task EXCEPT ![t].pc = "done"]
  BY <1>1, <1>2, ParseFailsMoves
<1>3. CASE \E P \in Payloads :
             task' = [task EXCEPT ![t].payload = Leaves(P), ![t].todo = Numbers(Leaves(P)),
                                  ![t].pc = "forward"]
  BY <1>1, <1>3, ParseMoves
<1> QED
  BY <1>1, <1>2, <1>3 DEF Parse

LEMMA StepAdvances ==
  ASSUME Types, NEW t \in Tasks
  PROVE  /\ Begin(t) \/ RegisterOwn(t) \/ WriteOwn(t) \/ Parse(t) => Advances(t)
         /\ Publish(t) \/ PublishSkipped(t) \/ Finish(t) => Advances(t)
         /\ \A l \in AllLeaves : RegisterLeaf(t, l) \/ WriteLeaf(t, l) => Advances(t)
<1>1. ASSUME Begin(t) PROVE Advances(t)
  BY <1>1, BeginMoves, MovesAdvances DEF Begin
<1>2. ASSUME RegisterOwn(t) PROVE Advances(t)
  BY <1>2, RegisterOwnMoves, MovesAdvances DEF RegisterOwn, OwnMetrics
<1>3. ASSUME WriteOwn(t) PROVE Advances(t)
  <2>1. task[t].pc \in OwnMetrics
    BY <1>3 DEF WriteOwn
  <2>2. After(task[t].pc) # "spawned"
    BY <2>1, AfterType DEF OwnMetrics
  <2> QED
    BY <1>3, <2>1, <2>2, WriteOwnMoves, MovesAdvances DEF OwnMetrics
<1>4. ASSUME Parse(t) PROVE Advances(t)
  BY <1>4, ParseCases, MovesAdvances
<1>5. ASSUME Publish(t) \/ PublishSkipped(t) PROVE Advances(t)
  <2>1. task[t].pc = "forward" /\ AfterForward(t)
    BY <1>5 DEF Publish, PublishSkipped
  <2> QED
    BY <2>1, AfterForwardMoves, MovesAdvances
<1>6. ASSUME Finish(t) PROVE Advances(t)
  <2>1. task[t].pc = "leaves"
    BY <1>6 DEF Finish
  <2> QED
    BY <1>6, <2>1, FinishMoves, MovesAdvances
<1>7. ASSUME NEW l \in AllLeaves, RegisterLeaf(t, l) PROVE Advances(t)
  <2>1. task[t].pc = "leaves"
    BY <1>7 DEF RegisterLeaf
  <2> QED
    BY <1>7, <2>1, RegisterLeafMoves, MovesAdvances
<1>8. ASSUME NEW l \in AllLeaves, WriteLeaf(t, l) PROVE Advances(t)
  <2>1. task[t].pc = "leaves"
    BY <1>8 DEF WriteLeaf
  <2> QED
    BY <1>8, <2>1, WriteLeafMoves, MovesAdvances
<1> QED
  BY <1>1, <1>2, <1>3, <1>4, <1>5, <1>6, <1>7, <1>8

LEMMA TypesInit ==
  ASSUME Init
  PROVE  Types
<1>1. labels \in [Metrics -> Seq(LabelKinds)]
  BY DEF Init
<1>2. task \in [Tasks -> {Idle} \cup TaskRecords] /\ published \in [ForwardTopics -> Nat]
  BY DEF Init
<1> QED
  BY <1>1, <1>2 DEF Init, Types

LEMMA TypesStep ==
  ASSUME Types, Next
  PROVE  Types'
<1> DEFINE TaskType == task \in [Tasks -> {Idle} \cup TaskRecords]
           SamplesType == samples \subseteq [metric : Metrics, values : Seq(Values), value : Nat]
           LabelsType == labels \in [Metrics -> Seq(LabelKinds)]
           ForwardType == /\ connected \in BOOLEAN /\ published \in [ForwardTopics -> Nat]
                          /\ forwarded \subseteq Tasks
           OtherType == enabled \in BOOLEAN /\ clock \in Nat
<1>1. /\ TaskType /\ SamplesType /\ LabelsType /\ ForwardType /\ OtherType
      /\ crashed \in BOOLEAN
  BY DEF Types
<1>2. SUFFICES TaskType' /\ SamplesType' /\ LabelsType' /\ ForwardType' /\ OtherType'
               /\ crashed' \in BOOLEAN
  BY DEF Types
<1>3. enabled' = enabled
  BY NextCases
<1>4. ASSUME NEW t \in Tasks, Advances(t) PROVE TaskType'
  BY <1>4 DEF Advances
<1>5. CASE \E t \in Tasks, src \in Sources : Spawn(t, src)
  <2>1. PICK t \in Tasks, src \in Sources : Spawn(t, src)
    BY <1>5
  <2>2. TaskType' /\ clock' = clock + 1
    BY <2>1, SpawnEffect
  <2>4. UNCHANGED <<labels, samples, connected, published, forwarded, crashed>>
    BY <2>1 DEF Spawn, prometheus, forward
  <2> QED
    BY <1>1, <1>3, <2>2, <2>4
<1>6. CASE \E t \in Tasks : Begin(t) \/ Parse(t) \/ Finish(t) \/ PublishSkipped(t)
  <2>1. PICK t \in Tasks : Begin(t) \/ Parse(t) \/ Finish(t) \/ PublishSkipped(t)
    BY <1>6
  <2>2. TaskType'
    <3>1. Advances(t)
      BY <2>1, StepAdvances
    <3> QED
      BY <1>4, <3>1
  <2>3. UNCHANGED <<labels, samples, clock, connected, published, forwarded, crashed>>
    BY <2>1 DEF Begin, Parse, Finish, PublishSkipped, prometheus, forward
  <2> QED
    BY <1>1, <1>3, <2>2, <2>3
<1>7. CASE \E t \in Tasks : RegisterOwn(t)
  <2>1. PICK t \in Tasks : RegisterOwn(t)
    BY <1>7
  <2>2. TaskType'
    <3>1. Advances(t)
      BY <2>1, StepAdvances
    <3> QED
      BY <1>4, <3>1
  <2>3. UNCHANGED <<samples, clock, connected, published, forwarded>>
    BY <2>1 DEF RegisterOwn, forward
  <2>4. LabelsType' /\ crashed' \in BOOLEAN
    BY <2>1, RegisterOwnCall, RegisterEffect
  <2> QED
    BY <1>1, <1>3, <2>2, <2>3, <2>4
<1>8. CASE \E t \in Tasks : WriteOwn(t)
  <2>1. PICK t \in Tasks : WriteOwn(t)
    BY <1>8
  <2>2. TaskType'
    <3>1. Advances(t)
      BY <2>1, StepAdvances
    <3> QED
      BY <1>4, <3>1
  <2>3. UNCHANGED <<labels, clock, connected, published, forwarded>>
    BY <2>1 DEF WriteOwn, forward
  <2>4. SamplesType' /\ crashed' \in BOOLEAN
    BY <2>1, WriteOwnCall, WriteEffect
  <2> QED
    BY <1>1, <1>3, <2>2, <2>3, <2>4
<1>9. CASE \E t \in Tasks : Publish(t)
  <2>1. PICK t \in Tasks : Publish(t)
    BY <1>9
  <2>2. TaskType'
    <3>1. Advances(t)
      BY <2>1, StepAdvances
    <3> QED
      BY <1>4, <3>1
  <2>3. /\ UNCHANGED <<labels, samples, clock, connected, crashed>>
        /\ published' \in [ForwardTopics -> Nat] /\ forwarded' = forwarded \cup {t}
    BY <2>1, TakeEffect
  <2> QED
    BY <1>1, <1>3, <2>2, <2>3
<1>10. CASE \E t \in Tasks, l \in AllLeaves : RegisterLeaf(t, l)
  <2>1. PICK t \in Tasks, l \in AllLeaves : RegisterLeaf(t, l)
    BY <1>10
  <2>2. TaskType'
    <3>1. Advances(t)
      BY <2>1, StepAdvances
    <3> QED
      BY <1>4, <3>1
  <2>3. UNCHANGED <<samples, clock, connected, published, forwarded>>
    BY <2>1 DEF RegisterLeaf, forward
  <2>4. LabelsType' /\ crashed' \in BOOLEAN
    BY <2>1, RegisterLeafCall, RegisterEffect
  <2> QED
    BY <1>1, <1>3, <2>2, <2>3, <2>4
<1>11. CASE \E t \in Tasks, l \in AllLeaves : WriteLeaf(t, l)
  <2>1. PICK t \in Tasks, l \in AllLeaves : WriteLeaf(t, l)
    BY <1>11
  <2>2. TaskType'
    <3>1. Advances(t)
      BY <2>1, StepAdvances
    <3> QED
      BY <1>4, <3>1
  <2>3. UNCHANGED <<labels, clock, connected, published, forwarded>>
    BY <2>1 DEF WriteLeaf, forward
  <2>4. SamplesType' /\ crashed' \in BOOLEAN
    BY <2>1, WriteLeafCall, WriteEffect
  <2> QED
    BY <1>1, <1>3, <2>2, <2>3, <2>4
<1>12. CASE ForwardConnect \/ ForwardLost
  <2>1. /\ UNCHANGED <<labels, samples, clock, task, published, forwarded, crashed>>
        /\ connected' \in BOOLEAN
    BY <1>12 DEF ForwardConnect, ForwardLost, prometheus
  <2> QED
    BY <1>1, <1>3, <2>1
<1>13. CASE \E t \in Tasks : Deliver(t)
  <2>1. PICK t \in Tasks : Deliver(t)
    BY <1>13
  <2>2. task' = task
    BY <2>1 DEF Deliver
  <2>3. /\ UNCHANGED <<labels, samples, clock, connected, crashed>>
        /\ published' \in [ForwardTopics -> Nat] /\ forwarded' = forwarded \cup {t}
    BY <2>1, TakeEffect
  <2> QED
    BY <1>1, <1>3, <2>2, <2>3
<1> QED
  BY <1>5, <1>6, <1>7, <1>8, <1>9, <1>10, <1>11, <1>12, <1>13, NextCases

-----------------------------------------------------------------------------
(* What stays *)

LEMMA ReceivedIs ==
  /\ \A r \in Received : /\ r[1] \in Tasks /\ Known(r[1]) /\ r[2] \in Numbers(task[r[1]].payload)
                         /\ r = <<r[1], r[2]>>
  /\ \A t \in Tasks : \A l : Known(t) /\ l \in Numbers(task[t].payload) => <<t, l>> \in Received
  /\ \A t \in Tasks : \A l :
       Known(t)' /\ l \in Numbers(task'[t].payload) => <<t, l>> \in Received'
  BY DEF Received

(* Whatever a task was, it keeps its source, its number and the numbers it  *)
(* has received, and a metric keeps its labels.                             *)
LEMMA Stays ==
  ASSUME Types, Staged, Next
  PROVE  \A t \in Tasks : Known(t) =>
            /\ Known(t)' /\ task'[t].src = task[t].src /\ task'[t].number = task[t].number
            /\ Numbers(task[t].payload) \subseteq Numbers(task'[t].payload)
<1>1. SUFFICES ASSUME NEW t \in Tasks, Known(t)
               PROVE  /\ Known(t)' /\ task'[t].src = task[t].src
                      /\ task'[t].number = task[t].number
                      /\ Numbers(task[t].payload) \subseteq Numbers(task'[t].payload)
  OBVIOUS
<1>2. CASE task'[t] = task[t]
  BY <1>1, <1>2 DEF Known
<1>3. CASE Advances(t)
  <2>1. task'[t] \in TaskRecords /\ task'[t].pc \in Pcs
    BY <1>3 DEF Advances, TaskRecords
  <2>2. Known(t)'
    BY <2>1 DEF Known, Pcs, OwnMetrics
  <2>3. CASE task'[t].payload = task[t].payload
    BY <1>3, <2>2, <2>3 DEF Advances
  <2>4. CASE task[t].pc = "parse"
    <3>1. Numbers(task[t].payload) = {}
      BY <1>1, <2>4 DEF Staged, StagedTask, Numbers
    <3> QED
      BY <1>3, <2>2, <3>1 DEF Advances
  <2> QED
    BY <1>3, <2>3, <2>4 DEF Advances
<1>4. task'[t] = task[t] \/ Advances(t)
  <2>1. CASE \E u \in Tasks, src \in Sources : Spawn(u, src)
    <3>1. PICK u \in Tasks, src \in Sources : Spawn(u, src)
      BY <2>1
    <3>2. task[u] = Idle /\ \A v \in Tasks \ {u} : task'[v] = task[v]
      BY <3>1, SpawnEffect
    <3>3. u # t
      BY <1>1, <3>2 DEF Known, Idle
    <3> QED
      BY <3>2, <3>3
  <2>2. CASE \E u \in Tasks : Advances(u)
    BY <2>2 DEF Advances
  <2>3. CASE ForwardConnect \/ ForwardLost \/ \E u \in Tasks : Deliver(u)
    BY <2>3 DEF ForwardConnect, ForwardLost, Deliver
  <2>4. ASSUME NEW u \in Tasks,
               \/ Begin(u) \/ RegisterOwn(u) \/ WriteOwn(u) \/ Parse(u)
               \/ Publish(u) \/ PublishSkipped(u) \/ Finish(u)
        PROVE  Advances(u)
    BY <2>4, StepAdvances
  <2>5. ASSUME NEW u \in Tasks, NEW l \in AllLeaves, RegisterLeaf(u, l) \/ WriteLeaf(u, l)
        PROVE  Advances(u)
    BY <2>5, StepAdvances
  <2> QED
    BY <2>1, <2>2, <2>3, <2>4, <2>5, NextCases
<1> QED
  BY <1>2, <1>3, <1>4

LEMMA ReceivedStays ==
  ASSUME Types, Staged, Next
  PROVE  \A r \in Received : /\ r \in Received' /\ r[1] \in Tasks /\ Known(r[1])
                             /\ task'[r[1]].src = task[r[1]].src
                             /\ task'[r[1]].number = task[r[1]].number
<1>1. SUFFICES ASSUME NEW r \in Received
               PROVE  /\ r \in Received' /\ r[1] \in Tasks /\ Known(r[1])
                      /\ task'[r[1]].src = task[r[1]].src
                      /\ task'[r[1]].number = task[r[1]].number
  OBVIOUS
<1>2. PICK t \in Tasks : \E l : r = <<t, l>> /\ Known(t) /\ l \in Numbers(task[t].payload)
  BY ReceivedIs
<1>5. PICK l : r = <<t, l>> /\ Known(t) /\ l \in Numbers(task[t].payload)
  BY <1>2
<1>3. /\ Known(t)' /\ task'[t].src = task[t].src /\ task'[t].number = task[t].number
      /\ l \in Numbers(task'[t].payload)
  BY <1>5, Stays
<1>4. r \in Received'
  BY <1>5, <1>3, ReceivedIs
<1> QED
  BY <1>5, <1>3, <1>4

(* Which step touches the labels, the samples and the clock. *)
LEMMA LabelsStay ==
  ASSUME Types, Next
  PROVE  \A m \in Metrics : labels[m] # <<>> => labels'[m] = labels[m]
<1>1. ASSUME NEW t \in Tasks, RegisterOwn(t)
      PROVE  \A m \in Metrics : labels[m] # <<>> => labels'[m] = labels[m]
  BY <1>1, RegisterOwnCall, RegisterEffect
<1>2. ASSUME NEW t \in Tasks, NEW l \in AllLeaves, RegisterLeaf(t, l)
      PROVE  \A m \in Metrics : labels[m] # <<>> => labels'[m] = labels[m]
  BY <1>2, RegisterLeafCall, RegisterEffect
<1>3. CASE labels' = labels
  BY <1>3
<1>4. labels' = labels \/ (\E t \in Tasks : RegisterOwn(t))
                       \/ (\E t \in Tasks, l \in AllLeaves : RegisterLeaf(t, l))
  BY NextCases
     DEF Spawn, Begin, WriteOwn, Parse, Publish, Deliver, Take, PublishSkipped, Finish, WriteLeaf,
         ForwardConnect, ForwardLost, prometheus
<1> QED
  BY <1>1, <1>2, <1>3, <1>4

-----------------------------------------------------------------------------
(* Numbers *)

(* A step spawns a task, advances one, or is a step of the forward client.  *)
LEMMA Shapes ==
  ASSUME Types, Next
  PROVE  \/ \E t \in Tasks, src \in Sources : Spawn(t, src)
         \/ \E t \in Tasks :
              /\ Advances(t) /\ clock' = clock
              /\ Publish(t) \/ UNCHANGED <<published, forwarded>>
         \/ /\ UNCHANGED <<task, clock, labels, samples, crashed>>
            /\ (\E t \in Tasks : Deliver(t)) \/ UNCHANGED <<published, forwarded>>
<1>1. ASSUME NEW t \in Tasks,
             Begin(t) \/ RegisterOwn(t) \/ WriteOwn(t) \/ Parse(t) \/ PublishSkipped(t) \/ Finish(t)
      PROVE  Advances(t) /\ UNCHANGED <<clock, published, forwarded>>
  <2>1. Advances(t)
    BY <1>1, StepAdvances
  <2> QED
    BY <1>1, <2>1 DEF Begin, RegisterOwn, WriteOwn, Parse, PublishSkipped, Finish, forward
<1>2. ASSUME NEW t \in Tasks, Publish(t)
      PROVE  Advances(t) /\ clock' = clock
  <2>1. Advances(t)
    BY <1>2, StepAdvances
  <2> QED
    BY <1>2, <2>1, TakeEffect
<1>3. ASSUME NEW t \in Tasks, NEW l \in AllLeaves, RegisterLeaf(t, l) \/ WriteLeaf(t, l)
      PROVE  Advances(t) /\ UNCHANGED <<clock, published, forwarded>>
  <2>1. Advances(t)
    BY <1>3, StepAdvances
  <2> QED
    BY <1>3, <2>1 DEF RegisterLeaf, WriteLeaf, forward
<1>4. CASE ForwardConnect \/ ForwardLost \/ \E t \in Tasks : Deliver(t)
  BY <1>4, TakeEffect DEF ForwardConnect, ForwardLost, Deliver, prometheus
<1>5. CASE \E t \in Tasks, l \in AllLeaves : RegisterLeaf(t, l) \/ WriteLeaf(t, l)
  BY <1>3, <1>5
<1>6. CASE \E t \in Tasks : \/ Begin(t) \/ RegisterOwn(t) \/ WriteOwn(t) \/ Parse(t)
                            \/ Publish(t) \/ PublishSkipped(t) \/ Finish(t)
  BY <1>1, <1>2, <1>6
<1> QED
  BY <1>4, <1>5, <1>6, NextCases

LEMMA NumberedInit ==
  ASSUME Init
  PROVE  Numbered
<1>1. {t \in Tasks : Known(t)} = {}
  BY DEF Init, Known, Idle
<1>2. Cardinality({t \in Tasks : Known(t)}) = clock
  BY <1>1, FS_EmptySet DEF Init
<1>3. \A x \in ForwardTopics : published[x] <= clock
  BY DEF Init
<1>4. \A t \in Tasks : ~Known(t)
  BY <1>1
<1>5. forwarded = {}
  BY DEF Init
<1> QED
  BY <1>2, <1>3, <1>4, <1>5, Zenon DEF Numbered

LEMMA NumberedStep ==
  ASSUME Types, Numbered, Next
  PROVE  Numbered'
<1> DEFINE K == {t \in Tasks : Known(t)}
<1>1. Types' /\ clock \in Nat
  BY TypesStep DEF Types
<1>2. /\ Cardinality(K) = clock
      /\ \A t \in Tasks : Known(t) => task[t].number \in 1..clock /\ task[t].time \in 0..clock
      /\ \A x \in ForwardTopics : published[x] <= clock /\ published[x] \in Nat
      /\ \A t \in forwarded : Known(t) /\ t \in Tasks
  BY DEF Numbered, Types
<1>3. CASE \E t \in Tasks, src \in Sources : Spawn(t, src)
  <2>1. PICK t \in Tasks, src \in Sources : Spawn(t, src)
    BY <1>3
  <2>2. /\ ~Known(t) /\ clock' = clock + 1 /\ \A u \in Tasks \ {t} : task'[u] = task[u]
        /\ task'[t].number = clock + 1 /\ task'[t].time = 0 /\ Known(t)'
        /\ UNCHANGED <<published, forwarded>>
    <3>1. UNCHANGED <<published, forwarded>>
      BY <2>1 DEF Spawn, forward
    <3>2. /\ task[t] = Idle /\ clock' = clock + 1 /\ \A u \in Tasks \ {t} : task'[u] = task[u]
          /\ task'[t].number = clock + 1 /\ task'[t].time = 0 /\ task'[t].pc = "spawned"
      BY <2>1, SpawnEffect
    <3> QED
      BY <3>1, <3>2 DEF Known, Idle
  <2>3. K' = K \cup {t} /\ t \notin K
    BY <2>2 DEF Known
  <2>4. IsFiniteSet(K)
    BY MetricsAssumption, FS_Subset
  <2>5. Cardinality(K') = Cardinality(K) + 1
    BY <2>3, <2>4, FS_AddElement
  <2>6. \A u \in Tasks : Known(u)' => task'[u].number \in 1..(clock + 1) /\ task'[u].time \in 0..(clock + 1)
    BY <1>1, <1>2, <2>2 DEF Known
  <2>7. \A u \in forwarded' : Known(u)'
    BY <1>2, <2>2 DEF Known
  <2> QED
    BY <1>1, <1>2, <2>2, <2>5, <2>6, <2>7 DEF Numbered
<1>4. CASE \E t \in Tasks :
              /\ Advances(t) /\ clock' = clock
              /\ Publish(t) \/ UNCHANGED <<published, forwarded>>
  <2>1. PICK t \in Tasks : /\ Advances(t) /\ clock' = clock
                           /\ Publish(t) \/ UNCHANGED <<published, forwarded>>
    BY <1>4
  <2>2. /\ Known(t) /\ Known(t)' /\ \A u \in Tasks \ {t} : task'[u] = task[u]
        /\ task'[t].number = task[t].number
        /\ task'[t].time = task[t].time \/ task'[t].time = clock
    BY <1>1, <2>1, KnownPcs DEF Advances, Known, TaskRecords, Pcs, OwnMetrics
  <2>3. K' = K
    BY <2>2 DEF Known
  <2>4. \A u \in Tasks : Known(u)' => task'[u].number \in 1..clock /\ task'[u].time \in 0..clock
    BY <1>1, <1>2, <2>2 DEF Known
  <2>5. CASE Publish(t)
    <3>1. /\ published' = [published EXCEPT ![ForwardTopic(task[t].src)] = task[t].number]
          /\ forwarded' = forwarded \cup {t}
      BY <2>5, TakeEffect
    <3>2. \A x \in ForwardTopics : published'[x] <= clock
      BY <1>1, <1>2, <2>2, <3>1 DEF Types
    <3>3. \A u \in forwarded' : Known(u)'
      BY <1>2, <2>2, <3>1 DEF Known
    <3> QED
      BY <1>2, <2>1, <2>3, <2>4, <3>2, <3>3 DEF Numbered
  <2>6. CASE UNCHANGED <<published, forwarded>>
    <3>1. \A u \in forwarded' : Known(u)'
      BY <1>2, <2>2, <2>6 DEF Known
    <3> QED
      BY <1>2, <2>1, <2>3, <2>4, <2>6, <3>1 DEF Numbered
  <2> QED
    BY <2>1, <2>5, <2>6
<1>5. CASE UNCHANGED <<task, clock, published, forwarded>>
  BY <1>2, <1>5 DEF Numbered, Known
<1>6. CASE UNCHANGED <<task, clock>> /\ \E t \in Tasks : Deliver(t)
  <2>1. PICK t \in Tasks : Deliver(t)
    BY <1>6
  <2>2. /\ task[t] \in TaskRecords
        /\ published' = [published EXCEPT ![ForwardTopic(task[t].src)] = task[t].number]
        /\ forwarded' = forwarded \cup {t}
    BY <2>1, TakeEffect
  <2>3. Known(t)
    BY <2>2, KnownPcs
  <2>4. \A x \in ForwardTopics : published'[x] <= clock
    BY <1>1, <1>2, <2>2, <2>3 DEF Types
  <2>5. \A u \in forwarded' : Known(u)'
    BY <1>2, <1>6, <2>2, <2>3 DEF Known
  <2>6. K' = K /\ \A u \in Tasks : Known(u)' <=> Known(u)
    BY <1>6 DEF Known
  <2> QED
    BY <1>2, <1>6, <2>4, <2>5, <2>6 DEF Numbered
<1> QED
  BY <1>3, <1>4, <1>5, <1>6, Shapes

-----------------------------------------------------------------------------
(* Stages *)

(* What a step needs to know of the task before it. *)
LEMMA StagedOf ==
  ASSUME Types, Numbered, Staged, NEW t \in Tasks, task[t] \in TaskRecords
  PROVE  /\ StagedTask(task[t]) /\ task[t].number \in 1..clock
         /\ task[t].src \in Sources /\ task[t].src.kind \in {"message", "run"}
         /\ task[t].todo \subseteq Numbers(task[t].payload)
         /\ task[t].current \subseteq Numbers(task[t].payload)
<1>1. Known(t)
  BY KnownPcs
<1>2. task[t].src \in Sources
  BY DEF TaskRecords
<1>3. StagedTask(task[t]) /\ task[t].number \in 1..clock
  BY <1>1 DEF Staged, Numbered
<1> QED
  BY <1>2, <1>3, SourceType DEF StagedTask

LEMMA StagedStep ==
  ASSUME Types, Numbered, Staged, Next
  PROVE  Staged'
<1>1. Types' /\ clock \in Nat
  BY TypesStep DEF Types
<1>2. ASSUME NEW t \in Tasks, StagedTask(task'[t]), \A u \in Tasks \ {t} : task'[u] = task[u]
      PROVE  Staged'
  BY <1>2 DEF Staged, Known
<1>3. ASSUME NEW t \in Tasks, Advances(t), StagedTask(task'[t]) PROVE Staged'
  BY <1>2, <1>3 DEF Advances
<1>4. ASSUME NEW t \in Tasks, NEW src \in Sources, Spawn(t, src) PROVE Staged'
  <2>1. StagedTask(task'[t])
    BY <1>4, SpawnEffect DEF StagedTask, MessageMetrics, RunMetrics, Numbers
  <2> QED
    BY <1>2, <1>4, <2>1, SpawnEffect
<1>5. ASSUME NEW t \in Tasks, Begin(t) PROVE Staged'
  <2>1. task[t].pc = "spawned" /\ Advances(t)
    BY <1>5, StepAdvances DEF Begin
  <2>2. StagedTask(task[t]) /\ task[t].number \in 1..clock /\ task[t].src.kind \in {"message", "run"}
    BY <2>1, StagedOf DEF Advances
  <2>3. StagedTask(task'[t])
    BY <1>1, <1>5, <2>1, <2>2, BeginMoves
       DEF StagedTask, Moves, MessageMetrics, RunMetrics, OwnMetrics
  <2> QED
    BY <1>3, <2>1, <2>3
<1>6. ASSUME NEW t \in Tasks, RegisterOwn(t) PROVE Staged'
  <2>1. task[t].pc \in OwnMetrics /\ Advances(t)
    BY <1>6, StepAdvances DEF RegisterOwn
  <2>2. StagedTask(task[t])
    BY <2>1, StagedOf DEF Advances
  <2>3. StagedTask(task'[t])
    BY <1>6, <2>1, <2>2, RegisterOwnMoves DEF StagedTask, Moves
  <2> QED
    BY <1>3, <2>1, <2>3
<1>7. ASSUME NEW t \in Tasks, WriteOwn(t) PROVE Staged'
  <2>1. task[t].pc \in OwnMetrics /\ Advances(t)
    BY <1>7, StepAdvances DEF WriteOwn
  <2>2. StagedTask(task[t])
    BY <2>1, StagedOf DEF Advances
  <2>3. PICK pc : pc = After(task[t].pc)
    OBVIOUS
  <2>4. Moves(t, pc, task[t].time, FALSE, task[t].payload, task[t].todo, task[t].current)
    BY <1>7, <2>3, WriteOwnMoves
  <2>5. /\ task[t].pc = "received" => pc = "last"
        /\ task[t].pc = "last" => pc = "parse"
        /\ task[t].pc = "lastPayload" => pc = "leaves"
        /\ task[t].pc = "invocations" => pc = "invoked"
        /\ task[t].pc = "invoked" => pc = "parse"
    BY <2>1, <2>3, AfterType
  <2>6. StagedTask(task'[t])
    BY <2>1, <2>2, <2>4, <2>5
       DEF StagedTask, Moves, OwnMetrics, MessageMetrics, RunMetrics
  <2> QED
    BY <1>3, <2>1, <2>6
<1>8. ASSUME NEW t \in Tasks, Parse(t) PROVE Staged'
  <2>1. task[t].pc = "parse" /\ Advances(t)
    BY <1>8, StepAdvances DEF Parse
  <2>2. StagedTask(task[t])
    BY <2>1, StagedOf DEF Advances
  <2>3. /\ ~task[t].registered /\ task[t].payload = {} /\ task[t].current = {}
        /\ task[t].todo = {} /\ task[t].time >= task[t].number
    BY <2>1, <2>2 DEF StagedTask, OwnMetrics, Numbers
  <2>4. ASSUME Moves(t, "done", task[t].time, task[t].registered, task[t].payload,
                     task[t].todo, task[t].current)
        PROVE  StagedTask(task'[t])
    BY <2>3, <2>4 DEF StagedTask, Moves, MessageMetrics, RunMetrics, OwnMetrics, Numbers
  <2>5. ASSUME NEW P \in Payloads,
               Moves(t, "forward", task[t].time, task[t].registered, Leaves(P),
                     Numbers(Leaves(P)), task[t].current)
        PROVE  StagedTask(task'[t])
    BY <2>3, <2>5 DEF StagedTask, Moves, MessageMetrics, RunMetrics, OwnMetrics
  <2>6. StagedTask(task'[t])
    BY <1>8, <2>4, <2>5, ParseCases
  <2> QED
    BY <1>3, <2>1, <2>6
<1>9. ASSUME NEW t \in Tasks, Publish(t) \/ PublishSkipped(t) PROVE Staged'
  <2>1. task[t].pc = "forward" /\ AfterForward(t) /\ Advances(t)
    BY <1>9, StepAdvances DEF Publish, PublishSkipped
  <2>2. StagedTask(task[t]) /\ task[t].src.kind \in {"message", "run"}
    BY <2>1, StagedOf DEF Advances
  <2>3. /\ ~task[t].registered /\ task[t].current = {} /\ task[t].time >= task[t].number
        /\ task[t].todo \subseteq Numbers(task[t].payload)
        /\ task[t].payload = {} => task[t].todo = {}
    BY <2>1, <2>2 DEF StagedTask, OwnMetrics, Numbers
  <2>4. StagedTask(task'[t])
    BY <2>1, <2>2, <2>3, AfterForwardMoves
       DEF StagedTask, Moves, OwnMetrics, MessageMetrics, RunMetrics
  <2> QED
    BY <1>3, <2>1, <2>4
<1>10. ASSUME NEW t \in Tasks, Finish(t) PROVE Staged'
  <2>1. task[t].pc = "leaves" /\ Advances(t)
    BY <1>10, StepAdvances DEF Finish
  <2>2. StagedTask(task[t])
    BY <2>1, StagedOf DEF Advances
  <2>3. StagedTask(task'[t])
    BY <1>10, <2>1, <2>2, FinishMoves
       DEF StagedTask, Moves, MessageMetrics, RunMetrics, OwnMetrics
  <2> QED
    BY <1>3, <2>1, <2>3
<1>11. ASSUME NEW t \in Tasks, NEW l \in AllLeaves, RegisterLeaf(t, l) PROVE Staged'
  <2>1. task[t].pc = "leaves" /\ l \in task[t].todo /\ Advances(t)
    BY <1>11, StepAdvances DEF RegisterLeaf
  <2>2. StagedTask(task[t])
    BY <2>1, StagedOf DEF Advances
  <2>3. StagedTask(task'[t])
    BY <1>11, <2>1, <2>2, RegisterLeafMoves
       DEF StagedTask, Moves, MessageMetrics, RunMetrics, OwnMetrics
  <2> QED
    BY <1>3, <2>1, <2>3
<1>12. ASSUME NEW t \in Tasks, NEW l \in AllLeaves, WriteLeaf(t, l) PROVE Staged'
  <2>1. task[t].pc = "leaves" /\ Advances(t)
    BY <1>12, StepAdvances DEF WriteLeaf
  <2>2. StagedTask(task[t])
    BY <2>1, StagedOf DEF Advances
  <2>3. StagedTask(task'[t])
    BY <1>12, <2>1, <2>2, WriteLeafMoves
       DEF StagedTask, Moves, MessageMetrics, RunMetrics, OwnMetrics
  <2> QED
    BY <1>3, <2>1, <2>3
<1>13. CASE ForwardConnect \/ ForwardLost \/ \E t \in Tasks : Deliver(t)
  BY <1>13 DEF ForwardConnect, ForwardLost, Deliver, Staged, Known
<1> QED
  BY <1>4, <1>5, <1>6, <1>7, <1>8, <1>9, <1>10, <1>11, <1>12, <1>13, NextCases

-----------------------------------------------------------------------------
(* Registered metrics *)

LEMMA OwnAsWrittenStep ==
  ASSUME Types, Numbered, Staged, OwnAsWritten, Next
  PROVE  OwnAsWritten'
<1>1. SUFFICES ASSUME NEW m \in OwnMetrics
               PROVE  labels'[m] \in {<<>>, IF m \in MessageMetrics THEN <<"device", "topicKind">>
                                                                   ELSE <<"device", "kind", "id">>}
  BY DEF OwnAsWritten
<1>2. m \in Metrics /\ m \notin Keys
  BY KeysApart
<1>3. CASE labels'[m] = labels[m]
  BY <1>1, <1>3 DEF OwnAsWritten
<1>4. ASSUME NEW t \in Tasks, RegisterOwn(t), task[t].pc = m
      PROVE  labels'[m] \in {<<>>, IF m \in MessageMetrics THEN <<"device", "topicKind">>
                                                          ELSE <<"device", "kind", "id">>}
  <2>1. labels'[m] \in {labels[m], OwnLabels(task[t].src)}
    BY <1>4, RegisterOwnCall, RegisterEffect
  <2>2. StagedTask(task[t]) /\ task[t].src.kind \in {"message", "run"}
    BY <1>4, RegisterOwnCall, StagedOf
  <2>3. OwnLabels(task[t].src) = IF m \in MessageMetrics THEN <<"device", "topicKind">>
                                                          ELSE <<"device", "kind", "id">>
    BY <1>4, <2>2, KeysApart DEF OwnLabels, StagedTask
  <2> QED
    BY <1>1, <2>1, <2>3 DEF OwnAsWritten
<1>5. ASSUME NEW t \in Tasks, RegisterOwn(t), task[t].pc # m PROVE labels'[m] = labels[m]
  BY <1>2, <1>5, RegisterOwnCall, RegisterEffect
<1>6. ASSUME NEW t \in Tasks, NEW l \in AllLeaves, RegisterLeaf(t, l) PROVE labels'[m] = labels[m]
  BY <1>2, <1>6, RegisterLeafCall, RegisterEffect
<1>7. labels' = labels \/ (\E t \in Tasks : RegisterOwn(t))
                       \/ (\E t \in Tasks, l \in AllLeaves : RegisterLeaf(t, l))
  BY NextCases
     DEF Spawn, Begin, WriteOwn, Parse, Publish, Deliver, Take, PublishSkipped, Finish, WriteLeaf,
         ForwardConnect, ForwardLost, prometheus
<1> QED
  BY <1>3, <1>4, <1>5, <1>6, <1>7

LEMMA GaugesAsReceivedStep ==
  ASSUME Types, Numbered, Staged, GaugesAsReceived, Next
  PROVE  GaugesAsReceived'
<1>1. SUFFICES ASSUME NEW m \in Keys, labels'[m] # <<>>
               PROVE  \E r \in Received' : /\ r[2].key = m
                                           /\ labels'[m] \in LabelNames(task'[r[1]].src, r[2])
  BY DEF GaugesAsReceived
<1>2. m \in Metrics /\ m \notin OwnMetrics
  BY KeysApart
<1>3. CASE labels[m] # <<>>
  <2>1. labels'[m] = labels[m]
    BY <1>2, <1>3, LabelsStay
  <2>2. PICK r \in Received : r[2].key = m /\ labels[m] \in LabelNames(task[r[1]].src, r[2])
    BY <1>3 DEF GaugesAsReceived
  <2>3. r \in Received' /\ task'[r[1]].src = task[r[1]].src
    BY ReceivedStays
  <2> QED
    BY <2>1, <2>2, <2>3
<1>4. ASSUME labels[m] = <<>>, NEW t \in Tasks, NEW l \in AllLeaves, RegisterLeaf(t, l)
      PROVE  \E r \in Received' : /\ r[2].key = m
                                  /\ labels'[m] \in LabelNames(task'[r[1]].src, r[2])
  <2>1. PICK names \in LabelNames(task[t].src, l) :
           names \in Seq(LabelKinds) /\ names # <<>> /\ Register(l.key, names)
    BY <1>4, RegisterLeafCall
  <2>2. l.key \in Metrics /\ l \in task[t].todo /\ task[t] \in TaskRecords
    BY <1>4, RegisterLeafCall
  <2>3. l.key = m
    BY <1>1, <1>2, <1>4, <2>1, <2>2, RegisterEffect
  <2>4. labels'[m] = names
    BY <1>1, <1>4, <2>1, <2>2, <2>3, RegisterEffect
  <2>5. l \in Numbers(task[t].payload) /\ Known(t)
    BY <2>2, StagedOf, KnownPcs
  <2>6. <<t, l>> \in Received' /\ task'[t].src = task[t].src
    BY <2>5, Stays, ReceivedIs
  <2>7. <<t, l>>[1] = t /\ <<t, l>>[2] = l
    OBVIOUS
  <2> QED
    BY <2>3, <2>4, <2>6, <2>7
<1>5. ASSUME NEW t \in Tasks, RegisterOwn(t) PROVE labels'[m] = labels[m]
  BY <1>2, <1>5, RegisterOwnCall, RegisterEffect
<1>6. labels' = labels \/ (\E t \in Tasks : RegisterOwn(t))
                       \/ (\E t \in Tasks, l \in AllLeaves : RegisterLeaf(t, l))
  BY NextCases
     DEF Spawn, Begin, WriteOwn, Parse, Publish, Deliver, Take, PublishSkipped, Finish, WriteLeaf,
         ForwardConnect, ForwardLost, prometheus
<1> QED
  BY <1>1, <1>3, <1>4, <1>5, <1>6

(* Writing needs no more than a metric that is registered: only the tasks   *)
(* that register or are about to write have something to show.              *)
LEMMA ReadyStays ==
  ASSUME Types, Numbered, Staged, RegisteredFirst, Next,
         NEW u \in Tasks, Known(u), task'[u] = task[u]
  PROVE  /\ task[u].registered => labels'[task[u].pc] # <<>>
         /\ \A l \in task[u].current :
              /\ labels'[l.key] # <<>> /\ labels'[l.key] = labels[l.key]
              /\ Elements(labels'[l.key]) \subseteq LabelSet(task[u].src, l)
<1>1. ~crashed /\ Ready(task[u]) /\ StagedTask(task[u]) /\ task[u] \in TaskRecords
  BY NextCases, KnownType DEF RegisteredFirst, Staged
<1>2. \A l \in task[u].current : l.key \in Metrics
  BY <1>1, LeafType, KeysApart DEF TaskRecords
<1>3. task[u].registered => task[u].pc \in Metrics
  BY <1>1, KeysApart DEF StagedTask
<1> QED
  BY <1>1, <1>2, <1>3, LabelsStay DEF Ready

LEMMA ReadyStep ==
  ASSUME Types, Numbered, Staged, RegisteredFirst, Next, ~crashed'
  PROVE  \A u \in Tasks : Known(u)' =>
           /\ task'[u].registered => labels'[task'[u].pc] # <<>>
           /\ \A l \in task'[u].current :
                /\ labels'[l.key] # <<>>
                /\ Elements(labels'[l.key]) \subseteq LabelSet(task'[u].src, l)
<1> SUFFICES ASSUME NEW u \in Tasks, Known(u)'
             PROVE  /\ task'[u].registered => labels'[task'[u].pc] # <<>>
                    /\ \A l \in task'[u].current :
                         /\ labels'[l.key] # <<>>
                         /\ Elements(labels'[l.key]) \subseteq LabelSet(task'[u].src, l)
  OBVIOUS
<1>1. CASE task'[u] = task[u]
  <2>1. Known(u)
    BY <1>1 DEF Known
  <2> QED
    BY <1>1, <2>1, ReadyStays
<1>2. CASE task'[u].registered = FALSE /\ task'[u].current = {}
  BY <1>2
<1>3. ASSUME NEW t \in Tasks, \A v \in Tasks \ {t} : task'[v] = task[v],
             task'[t].registered = FALSE /\ task'[t].current = {}
      PROVE  task'[u] = task[u] \/ (task'[u].registered = FALSE /\ task'[u].current = {})
  BY <1>3
<1>4. ASSUME NEW t \in Tasks, NEW src \in Sources, Spawn(t, src)
      PROVE  task'[u] = task[u] \/ (task'[u].registered = FALSE /\ task'[u].current = {})
  BY <1>4, SpawnEffect
<1>5. ASSUME NEW t \in Tasks, task[t] \in TaskRecords, task[t].pc \notin OwnMetrics
      PROVE  task[t].registered = FALSE
  <2>1. StagedTask(task[t])
    BY <1>5, StagedOf
  <2>2. task[t].registered \in BOOLEAN
    BY <1>5 DEF TaskRecords
  <2> QED
    BY <1>5, <2>1, <2>2 DEF StagedTask
<1>6. ASSUME NEW t \in Tasks, task[t] \in TaskRecords, task[t].pc # "leaves"
      PROVE  task[t].current = {}
  BY <1>6, StagedOf DEF StagedTask
<1>7. ASSUME NEW t \in Tasks, Begin(t)
      PROVE  task'[u] = task[u] \/ (task'[u].registered = FALSE /\ task'[u].current = {})
  <2>1. task[t].pc = "spawned"
    BY <1>7 DEF Begin
  <2> QED
    BY <1>5, <1>6, <1>7, <2>1, BeginMoves DEF Moves, OwnMetrics
<1>8. ASSUME NEW t \in Tasks, WriteOwn(t)
      PROVE  task'[u] = task[u] \/ (task'[u].registered = FALSE /\ task'[u].current = {})
  <2>1. task[t].pc # "leaves"
    BY <1>8 DEF WriteOwn, OwnMetrics
  <2> QED
    BY <1>6, <1>8, <2>1, WriteOwnMoves DEF Moves
<1>9. ASSUME NEW t \in Tasks, Parse(t)
      PROVE  task'[u] = task[u] \/ (task'[u].registered = FALSE /\ task'[u].current = {})
  <2>1. task[t].pc = "parse"
    BY <1>9 DEF Parse
  <2> QED
    BY <1>5, <1>6, <1>9, <2>1, ParseCases DEF Moves, OwnMetrics
<1>10. ASSUME NEW t \in Tasks, Publish(t) \/ PublishSkipped(t)
       PROVE  task'[u] = task[u] \/ (task'[u].registered = FALSE /\ task'[u].current = {})
  <2>1. task[t].pc = "forward" /\ AfterForward(t)
    BY <1>10 DEF Publish, PublishSkipped
  <2> QED
    BY <1>5, <1>6, <2>1, AfterForwardMoves DEF Moves, OwnMetrics
<1>11. ASSUME NEW t \in Tasks, Finish(t)
       PROVE  task'[u] = task[u] \/ (task'[u].registered = FALSE /\ task'[u].current = {})
  <2>1. task[t].pc = "leaves"
    BY <1>11 DEF Finish
  <2> QED
    BY <1>5, <1>11, <2>1, FinishMoves DEF Moves, OwnMetrics
<1>12. ASSUME NEW t \in Tasks, NEW l \in AllLeaves, WriteLeaf(t, l)
       PROVE  task'[u] = task[u] \/ (task'[u].registered = FALSE /\ task'[u].current = {})
  <2>1. task[t].pc = "leaves"
    BY <1>12 DEF WriteLeaf
  <2> QED
    BY <1>5, <1>12, <2>1, WriteLeafMoves DEF Moves, OwnMetrics
<1>13. ASSUME NEW t \in Tasks, RegisterOwn(t), u = t
       PROVE  task'[u].current = {} /\ labels'[task'[u].pc] # <<>>
  <2>1. labels'[task[t].pc] # <<>> /\ task[t].pc # "leaves"
    BY <1>13, RegisterOwnCall, RegisterEffect DEF OwnMetrics
  <2> QED
    BY <1>6, <1>13, <2>1, RegisterOwnMoves DEF Moves
<1>14. ASSUME NEW t \in Tasks, NEW l \in AllLeaves, RegisterLeaf(t, l), u = t
       PROVE  /\ task'[u].registered = FALSE /\ task'[u].current = {l}
              /\ labels'[l.key] # <<>>
              /\ Elements(labels'[l.key]) \subseteq LabelSet(task'[u].src, l)
  <2>1. task[t].pc = "leaves"
    BY <1>14 DEF RegisterLeaf
  <2>2. PICK names \in LabelNames(task[t].src, l) :
           /\ names \in Seq(LabelKinds) /\ names # <<>>
           /\ Elements(names) = LabelSet(task[t].src, l) /\ Register(l.key, names)
    BY <1>14, RegisterLeafCall
  <2>3. labels'[l.key] # <<>> /\ Elements(labels'[l.key]) \subseteq LabelSet(task[t].src, l)
    BY <1>14, <2>2, RegisterLeafCall, RegisterEffect
  <2> QED
    BY <1>5, <1>14, <2>1, <2>3, RegisterLeafMoves DEF Moves, OwnMetrics
<1>15. ASSUME NEW t \in Tasks, RegisterOwn(t), u # t PROVE task'[u] = task[u]
  BY <1>15, RegisterOwnMoves DEF Moves
<1>16. ASSUME NEW t \in Tasks, NEW l \in AllLeaves, RegisterLeaf(t, l), u # t
       PROVE  task'[u] = task[u]
  BY <1>16, RegisterLeafMoves DEF Moves
<1>17. CASE \E t \in Tasks : RegisterOwn(t)
  BY <1>1, <1>13, <1>15, <1>17
<1>18. CASE \E t \in Tasks, l \in AllLeaves : RegisterLeaf(t, l)
  BY <1>1, <1>14, <1>16, <1>18
<1>19. CASE ForwardConnect \/ ForwardLost \/ \E t \in Tasks : Deliver(t)
  <2>1. task'[u] = task[u]
    BY <1>19 DEF ForwardConnect, ForwardLost, Deliver
  <2> QED
    BY <1>1, <2>1
<1> QED
  BY <1>1, <1>2, <1>4, <1>7, <1>8, <1>9, <1>10, <1>11, <1>12, <1>17, <1>18, <1>19, NextCases

(* What becomes of the samples: one is written, or nothing is.              *)
LEMMA SamplesStep ==
  ASSUME Types, Next
  PROVE  \/ samples' = samples
         \/ /\ labels' = labels
            /\ \E m \in Metrics : \E values \in Seq(Values) : \E v \in Nat :
                 /\ Len(values) = Len(labels[m]) /\ labels[m] # <<>>
                 /\ samples' = (samples \ SampleAt(m, values))
                                 \cup {[metric |-> m, values |-> values, value |-> v]}
<1>1. ASSUME NEW m \in Metrics, NEW values \in Seq(Values), NEW v \in Nat, Write(m, values, v),
             labels' = labels
      PROVE  \/ samples' = samples
             \/ /\ labels' = labels
                /\ \E k \in Metrics : \E vs \in Seq(Values) : \E n \in Nat :
                     /\ Len(vs) = Len(labels[k]) /\ labels[k] # <<>>
                     /\ samples' = (samples \ SampleAt(k, vs))
                                     \cup {[metric |-> k, values |-> vs, value |-> n]}
  <2> DEFINE n == NewValue(m, values, v)
  <2>1. n \in Nat
    BY <1>1, WriteEffect
  <2>2. CASE Len(values) = Len(labels[m]) /\ labels[m] # <<>>
    <3>1. samples' = (samples \ SampleAt(m, values)) \cup {[metric |-> m, values |-> values, value |-> n]}
      BY <1>1, <2>2, WriteEffect
    <3> HIDE DEF n
    <3> QED
      BY <1>1, <2>1, <2>2, <3>1, Zenon
  <2>3. CASE ~(Len(values) = Len(labels[m]) /\ labels[m] # <<>>)
    BY <1>1, <2>3, WriteEffect
  <2> QED
    BY <2>2, <2>3
<1>2. CASE \E t \in Tasks : WriteOwn(t)
  <2>1. PICK t \in Tasks : WriteOwn(t)
    BY <1>2
  <2>2. labels' = labels
    BY <2>1 DEF WriteOwn
  <2> QED
    BY <1>1, <2>1, <2>2, WriteOwnCall
<1>3. CASE \E t \in Tasks, l \in AllLeaves : WriteLeaf(t, l)
  <2>1. PICK t \in Tasks, l \in AllLeaves : WriteLeaf(t, l)
    BY <1>3
  <2>2. labels' = labels
    BY <2>1 DEF WriteLeaf
  <2>3. /\ l.key \in Metrics /\ task[t].number \in Nat
        /\ \E values \in Seq(Values) : Write(l.key, values, task[t].number)
    BY <2>1, WriteLeafCall
  <2> QED
    BY <1>1, <2>2, <2>3
<1>4. samples' = samples \/ (\E t \in Tasks : WriteOwn(t))
                         \/ (\E t \in Tasks, l \in AllLeaves : WriteLeaf(t, l))
  BY NextCases
     DEF Spawn, Begin, RegisterOwn, Parse, Publish, Deliver, Take, PublishSkipped, Finish, RegisterLeaf,
         ForwardConnect, ForwardLost, prometheus
<1> QED
  BY <1>2, <1>3, <1>4

LEMMA LabelsNil ==
  ASSUME Types, Next, ~enabled
  PROVE  labels' = labels
<1>1. ASSUME NEW t \in Tasks, RegisterOwn(t) PROVE labels' = labels
  BY <1>1, RegisterOwnCall, RegisterEffect
<1>2. ASSUME NEW t \in Tasks, NEW l \in AllLeaves, RegisterLeaf(t, l) PROVE labels' = labels
  BY <1>2, RegisterLeafCall, RegisterEffect
<1>3. labels' = labels \/ (\E t \in Tasks : RegisterOwn(t))
                       \/ (\E t \in Tasks, l \in AllLeaves : RegisterLeaf(t, l))
  BY NextCases
     DEF Spawn, Begin, WriteOwn, Parse, Publish, Deliver, Take, PublishSkipped, Finish, WriteLeaf,
         ForwardConnect, ForwardLost, prometheus
<1> QED
  BY <1>1, <1>2, <1>3

LEMMA RegisteredFirstStep ==
  ASSUME Types, Numbered, Staged, RegisteredFirst, Next
  PROVE  RegisteredFirst'
<1>1. ~crashed' => \A t \in Tasks : Known(t)' => Ready(task[t])'
  BY ReadyStep DEF Ready
<1>2. \A s \in samples' : labels'[s.metric] # <<>> /\ Len(s.values) = Len(labels'[s.metric])
  <2>1. \A s \in samples : /\ s.metric \in Metrics /\ labels[s.metric] # <<>>
                           /\ Len(s.values) = Len(labels[s.metric])
    BY DEF RegisteredFirst, Types
  <2>2. CASE samples' = samples
    <3>1. SUFFICES ASSUME NEW s \in samples
                   PROVE  labels'[s.metric] # <<>> /\ Len(s.values) = Len(labels'[s.metric])
      BY <2>2
    <3>2. labels'[s.metric] = labels[s.metric]
      BY <2>1, LabelsStay
    <3> QED
      BY <2>1, <3>2
  <2>3. ASSUME labels' = labels, NEW m \in Metrics, NEW values \in Seq(Values), NEW v \in Nat,
               Len(values) = Len(labels[m]), labels[m] # <<>>,
               samples' = (samples \ SampleAt(m, values))
                            \cup {[metric |-> m, values |-> values, value |-> v]}
        PROVE  \A s \in samples' : labels'[s.metric] # <<>> /\ Len(s.values) = Len(labels'[s.metric])
    <3> SUFFICES ASSUME NEW s \in samples'
                 PROVE  labels[s.metric] # <<>> /\ Len(s.values) = Len(labels[s.metric])
      BY <2>3
    <3>1. s \in samples \/ (s.metric = m /\ s.values = values)
      BY <2>3
    <3> QED
      BY <2>1, <2>3, <3>1
  <2> QED
    BY <2>2, <2>3, SamplesStep, Zenon
<1>3. ~enabled' => labels' = [m \in Metrics |-> <<>>]
  BY NextCases, LabelsNil DEF RegisteredFirst
<1> QED
  BY <1>1, <1>2, <1>3 DEF RegisteredFirst

-----------------------------------------------------------------------------
(* Tasks at work together *)

LEMMA BesideStep ==
  ASSUME Types, Numbered, Staged, Beside, Next
  PROVE  Beside'
<1>1. ASSUME NEW v \in Tasks, Known(v)
      PROVE  /\ task[v].number \in 1..clock /\ clock \in Nat /\ Known(v)'
             /\ task[v].beside \subseteq Tasks
  BY <1>1, Stays, KnownType DEF Numbered, Types, TaskRecords
<1>2. SUFFICES ASSUME NEW t \in Tasks, Known(t)'
               PROVE  /\ \A u \in task'[t].beside : Known(u)'
                      /\ \A u \in Tasks :
                           Active(u)' /\ ForwardTopic(task'[u].src) = ForwardTopic(task'[t].src)
                             => task'[u].number >= task'[t].number \/ u \in task'[t].beside
  BY DEF Beside
<1>3. ASSUME NEW v \in Tasks, NEW src \in Sources, Spawn(v, src)
      PROVE  /\ \A u \in task'[t].beside : Known(u)'
             /\ \A u \in Tasks :
                  Active(u)' /\ ForwardTopic(task'[u].src) = ForwardTopic(task'[t].src)
                    => task'[u].number >= task'[t].number \/ u \in task'[t].beside
  <2>1. /\ task[v] = Idle /\ \A w \in Tasks \ {v} : task'[w] = task[w]
        /\ task'[v].src = src /\ task'[v].number = clock + 1
        /\ task'[v].beside = {u \in Tasks : /\ Active(u)
                                            /\ ForwardTopic(task[u].src) = ForwardTopic(src)}
    BY <1>3, SpawnEffect
  <2>2. CASE t = v
    <3>1. \A u \in task'[t].beside : Known(u)'
      BY <1>1, <2>1, <2>2 DEF Active, Known
    <3>2. ASSUME NEW u \in Tasks, Active(u)', u # v,
                 ForwardTopic(task'[u].src) = ForwardTopic(task'[t].src)
          PROVE  u \in task'[t].beside
      BY <2>1, <2>2, <3>2 DEF Active
    <3>3. clock \in Nat
      BY DEF Types
    <3> QED
      BY <2>1, <2>2, <3>1, <3>2, <3>3
  <2>3. CASE t # v
    <3>1. Known(t) /\ task'[t] = task[t]
      BY <1>2, <2>1, <2>3 DEF Known
    <3>2. \A u \in task'[t].beside : Known(u)'
      BY <1>1, <3>1 DEF Beside
    <3>3. ASSUME NEW u \in Tasks, Active(u)', u # v,
                 ForwardTopic(task'[u].src) = ForwardTopic(task'[t].src)
          PROVE  task'[u].number >= task'[t].number \/ u \in task'[t].beside
      BY <2>1, <3>1, <3>3 DEF Beside, Active
    <3>4. task'[v].number >= task'[t].number
      BY <1>1, <2>1, <3>1
    <3> QED
      BY <3>2, <3>3, <3>4
  <2> QED
    BY <2>2, <2>3
<1>4. ASSUME NEW v \in Tasks, Advances(v)
      PROVE  /\ \A u \in task'[t].beside : Known(u)'
             /\ \A u \in Tasks :
                  Active(u)' /\ ForwardTopic(task'[u].src) = ForwardTopic(task'[t].src)
                    => task'[u].number >= task'[t].number \/ u \in task'[t].beside
  <2>1. /\ \A w \in Tasks \ {v} : task'[w] = task[w]
        /\ task'[v].src = task[v].src /\ task'[v].number = task[v].number
        /\ task'[v].beside = task[v].beside /\ Active(v)
    BY <1>4 DEF Advances
  <2>2. Known(t) /\ task'[t].src = task[t].src /\ task'[t].number = task[t].number
        /\ task'[t].beside = task[t].beside
    BY <1>2, <2>1 DEF Active, Known
  <2>3. \A u \in task'[t].beside : Known(u)'
    BY <1>1, <2>2 DEF Beside
  <2>4. ASSUME NEW u \in Tasks, Active(u)'
        PROVE  Active(u) /\ task'[u].src = task[u].src /\ task'[u].number = task[u].number
    BY <2>1, <2>4 DEF Active
  <2> QED
    BY <2>2, <2>3, <2>4 DEF Beside
<1>5. ASSUME UNCHANGED task
      PROVE  /\ \A u \in task'[t].beside : Known(u)'
             /\ \A u \in Tasks :
                  Active(u)' /\ ForwardTopic(task'[u].src) = ForwardTopic(task'[t].src)
                    => task'[u].number >= task'[t].number \/ u \in task'[t].beside
  BY <1>2, <1>5 DEF Beside, Known, Active
<1> QED
  BY <1>3, <1>4, <1>5, Shapes

(* A task that writes or forwards is at least as new as another one of its  *)
(* forward topic, or it was beside it.                                      *)
LEMMA WriterIsNewest ==
  ASSUME Types, Beside, NEW t \in Tasks, Active(t),
         NEW u \in Tasks, Known(u), ForwardTopic(task[u].src) = ForwardTopic(task[t].src)
  PROVE  task[t].number >= task[u].number \/ t \in task[u].beside
  BY DEF Beside

(* What a task has beside it stays, and they are tasks that stay.           *)
LEMMA BesideStays ==
  ASSUME Types, Staged, Beside, Next, NEW t \in Tasks, Known(t)
  PROVE  /\ task'[t].beside = task[t].beside
         /\ \A u \in task[t].beside :
              /\ u \in Tasks /\ Known(u)
              /\ task'[u].number = task[u].number
              /\ task[u].pc # "spawned" => task'[u].pc # "spawned" /\ task'[u].time = task[u].time
<1>1. ASSUME NEW u \in Tasks, Known(u)
      PROVE  /\ task'[u].beside = task[u].beside /\ task'[u].number = task[u].number
             /\ task[u].pc # "spawned" => task'[u].pc # "spawned" /\ task'[u].time = task[u].time
  <2>1. CASE task'[u] = task[u]
    BY <2>1
  <2>2. CASE Advances(u)
    BY <2>2 DEF Advances
  <2>3. ASSUME NEW v \in Tasks, NEW src \in Sources, Spawn(v, src) PROVE task'[u] = task[u]
    <3>1. task[v] = Idle /\ \A w \in Tasks \ {v} : task'[w] = task[w]
      BY <2>3, SpawnEffect
    <3> QED
      BY <1>1, <3>1 DEF Known, Idle
  <2>4. ASSUME NEW v \in Tasks, Advances(v), v # u PROVE task'[u] = task[u]
    BY <2>4 DEF Advances
  <2> QED
    BY <2>1, <2>2, <2>3, <2>4, Shapes
<1>2. \A u \in task[t].beside : u \in Tasks /\ Known(u)
  BY KnownType DEF Beside, TaskRecords
<1> QED
  BY <1>1, <1>2

-----------------------------------------------------------------------------
(* The invariant *)

LEMMA InvInit == Init => Inv
<1> SUFFICES ASSUME Init PROVE Inv
  OBVIOUS
<1>1. Types /\ Numbered
  BY TypesInit, NumberedInit
<1>2. \A t \in Tasks : ~Known(t)
  BY DEF Init, Known, Idle
<1>3. OwnAsWritten /\ GaugesAsReceived
  BY KeysApart DEF Init, OwnAsWritten, GaugesAsReceived
<1>4. RegisteredFirst
  BY <1>2 DEF Init, RegisteredFirst
<1> QED
  BY <1>1, <1>2, <1>3, <1>4 DEF Inv, Staged, Beside

LEMMA InvStep == Inv /\ [Next]_vars => Inv'
<1>1. ASSUME Inv, Next PROVE Inv'
  BY <1>1, TypesStep, NumberedStep, StagedStep, OwnAsWrittenStep, GaugesAsReceivedStep,
     RegisteredFirstStep, BesideStep DEF Inv
<1>2. ASSUME Inv, UNCHANGED vars PROVE Inv'
  <2>1. UNCHANGED <<enabled, labels, samples, clock, task, connected, published, forwarded,
                    crashed>>
    BY <1>2 DEF vars, prometheus, forward
  <2>2. Types' /\ Numbered' /\ Staged'
    BY <1>2, <2>1 DEF Inv, Types, Numbered, Staged, Known
  <2>3. OwnAsWritten' /\ GaugesAsReceived'
    BY <1>2, <2>1 DEF Inv, OwnAsWritten, GaugesAsReceived, Received, Known
  <2>4. RegisteredFirst' /\ Beside'
    BY <1>2, <2>1 DEF Inv, RegisteredFirst, Beside, Ready, Known, Active
  <2> QED
    BY <2>2, <2>3, <2>4 DEF Inv
<1> QED
  BY <1>1, <1>2

(* The invariant holds however many messages and runs interleave.           *)
THEOREM Invariance == Spec => []Inv
  BY InvInit, InvStep, PTL DEF Spec

(* Types: what is registered, exported and published, and where every       *)
(* message and run is.                                                      *)
THEOREM TypeCorrect == Spec => []TypeOK
<1>1. ASSUME Inv PROVE TypeOK
  <2>1. Types /\ Numbered /\ Staged /\ RegisteredFirst
    BY <1>1 DEF Inv
  <2>2. clock \in 0..Cardinality(Tasks)
    <3>1. {t \in Tasks : Known(t)} \subseteq Tasks /\ IsFiniteSet(Tasks)
      BY MetricsAssumption
    <3>2. /\ Cardinality({t \in Tasks : Known(t)}) <= Cardinality(Tasks)
          /\ Cardinality(Tasks) \in Nat
      BY <3>1, FS_Subset, FS_CardinalityType
    <3> QED
      BY <2>1, <3>2 DEF Types, Numbered
  <2>3. \A s \in samples : s.metric \in Metrics /\ Len(s.values) = Len(labels[s.metric])
    BY <2>1 DEF Types, RegisteredFirst
  <2>4. published \in [ForwardTopics -> 0..clock]
    <3>1. /\ published \in [ForwardTopics -> Nat] /\ clock \in Nat
          /\ \A x \in ForwardTopics : published[x] <= clock
      BY <2>1 DEF Types, Numbered
    <3>2. \A x \in ForwardTopics : published[x] \in 0..clock
      BY <3>1
    <3> QED
      BY <3>1, <3>2
  <2>5. ASSUME NEW t \in Tasks, task[t] # Idle
        PROVE  /\ task[t].pc \in OwnMetrics \cup {"spawned", "parse", "forward", "leaves", "done"}
               /\ task[t].src \in Sources
               /\ task[t].number \in 1..clock /\ task[t].time \in 0..clock
               /\ task[t].todo \cup task[t].current \subseteq task[t].payload
               /\ Cardinality(task[t].current) <= 1
               /\ task[t].beside \subseteq Tasks
    <3>1. task[t] \in TaskRecords
      BY <2>1, <2>5, KnownPcs
    <3>2. Known(t) /\ task[t].pc \in Pcs /\ task[t].src \in Sources
      BY <2>1, <3>1, KnownPcs DEF TaskRecords
    <3>3. task[t].number \in 1..clock /\ task[t].time \in 0..clock /\ StagedTask(task[t])
      BY <2>1, <3>2 DEF Numbered, Staged
    <3>4. task[t].todo \cup task[t].current \subseteq task[t].payload
      BY <3>3 DEF StagedTask, Numbers
    <3>5. Cardinality(task[t].current) <= 1
      <4>1. CASE task[t].current = {}
        BY <4>1, FS_EmptySet
      <4>2. CASE task[t].current # {}
        <5>1. PICK l : l \in task[t].current
          BY <4>2
        <5>2. task[t].current = {l}
          BY <3>3, <5>1 DEF StagedTask
        <5>3. Cardinality({l}) = 1
          BY FS_Singleton
        <5> QED
          BY <5>2, <5>3
      <4> QED
        BY <4>1, <4>2
    <3>6. task[t].beside \subseteq Tasks
      BY <3>1 DEF TaskRecords
    <3> QED
      BY <3>2, <3>3, <3>4, <3>5, <3>6 DEF Pcs
  <2>6. /\ enabled \in BOOLEAN /\ DOMAIN labels = Metrics
        /\ \A m \in Metrics : labels[m] \in Seq(LabelKinds)
        /\ crashed \in BOOLEAN /\ connected \in BOOLEAN
        /\ forwarded \subseteq Tasks
    BY <2>1 DEF Types
  <2> QED
    BY <2>2, <2>3, <2>4, <2>5, <2>6 DEF TypeOK
<1> QED
  BY <1>1, Invariance, PTL

-----------------------------------------------------------------------------
(* Forwarding *)

(* The broker takes the payload of t: for the tasks it took one of before,  *)
(* and for t, what it holds is new enough.                                  *)
LEMMA TakenLast ==
  ASSUME Inv, NewestForwarded, NEW t \in Tasks, Publish(t) \/ Deliver(t), NEW u \in forwarded'
  PROVE  \/ published'[ForwardTopic(task[u].src)] >= task[u].number
         \/ \E w \in task[u].beside : published'[ForwardTopic(task[u].src)] = task[w].number
<1>1. /\ Types /\ Numbered /\ Beside
      /\ \A v \in forwarded : v \in Tasks /\ Known(v)
  BY DEF Inv, Numbered, Types
<1>2. /\ task[t] \in TaskRecords /\ task[t].pc = "forward"
      /\ published' = [published EXCEPT ![ForwardTopic(task[t].src)] = task[t].number]
      /\ ForwardTopic(task[t].src) \in ForwardTopics
      /\ forwarded' = forwarded \cup {t}
  BY <1>1, TakeEffect
<1>3. Active(t) /\ Known(t)
  BY <1>2 DEF Active, Known
<1>4. u \in Tasks /\ Known(u) /\ (u \in forwarded \/ u = t)
  BY <1>1, <1>2, <1>3
<1>5. published \in [ForwardTopics -> Nat] /\ ForwardTopic(task[u].src) \in ForwardTopics
  <2>1. task[u].src \in Sources
    BY <1>1, <1>4, KnownType DEF TaskRecords
  <2> QED
    BY <1>1, <2>1, SourceType DEF Types
<1>6. CASE ForwardTopic(task[u].src) = ForwardTopic(task[t].src)
  <2>1. task[t].number >= task[u].number \/ t \in task[u].beside
    BY <1>1, <1>3, <1>4, <1>6, WriterIsNewest
  <2>2. published'[ForwardTopic(task[u].src)] = task[t].number
    BY <1>2, <1>5, <1>6
  <2> QED
    BY <2>1, <2>2
<1>7. CASE ForwardTopic(task[u].src) # ForwardTopic(task[t].src)
  <2>1. published'[ForwardTopic(task[u].src)] = published[ForwardTopic(task[u].src)]
    BY <1>2, <1>5, <1>7
  <2>2. u \in forwarded
    BY <1>4, <1>7
  <2> QED
    BY <2>1, <2>2 DEF NewestForwarded
<1> QED
  BY <1>6, <1>7

LEMMA NewestForwardedStep ==
  ASSUME Inv, NewestForwarded, Next
  PROVE  NewestForwarded'
<1>1. /\ Types /\ Numbered /\ Staged /\ Beside
      /\ \A u \in forwarded : u \in Tasks /\ Known(u)
  BY DEF Inv, Numbered, Types
<1>2. SUFFICES ASSUME NEW u \in forwarded'
               PROVE  \/ published'[ForwardTopic(task'[u].src)] >= task'[u].number
                      \/ \E w \in task'[u].beside :
                           published'[ForwardTopic(task'[u].src)] = task'[w].number
  BY DEF NewestForwarded
<1>3. \/ published'[ForwardTopic(task[u].src)] >= task[u].number
      \/ \E w \in task[u].beside : published'[ForwardTopic(task[u].src)] = task[w].number
  <2>1. CASE UNCHANGED <<published, forwarded>>
    BY <1>2, <2>1 DEF NewestForwarded
  <2>2. ASSUME NEW t \in Tasks, NEW src \in Sources, Spawn(t, src)
        PROVE  UNCHANGED <<published, forwarded>>
    BY <2>2 DEF Spawn, forward
  <2>3. CASE \E t \in Tasks : Publish(t) \/ Deliver(t)
    BY <2>3, TakenLast
  <2> QED
    BY <1>1, <2>1, <2>2, <2>3, Shapes
<1>4. u \in Tasks /\ Known(u)
  <2>1. ASSUME NEW t \in Tasks, Publish(t) \/ Deliver(t)
        PROVE  forwarded' = forwarded \cup {t} /\ Known(t)
    BY <1>1, <2>1, TakeEffect, KnownPcs
  <2>2. ASSUME NEW t \in Tasks, NEW src \in Sources, Spawn(t, src)
        PROVE  UNCHANGED <<published, forwarded>>
    BY <2>2 DEF Spawn, forward
  <2> QED
    BY <1>1, <2>1, <2>2, Shapes
<1>5. task'[u].src = task[u].src /\ task'[u].number = task[u].number
  BY <1>1, <1>4, Stays
<1>6. /\ task'[u].beside = task[u].beside
      /\ \A w \in task[u].beside : task'[w].number = task[w].number
  BY <1>1, <1>4, BesideStays
<1> QED
  BY <1>3, <1>5, <1>6

(* However often the connection is lost and a payload sent again, the       *)
(* forward broker never holds an older message or run than one it took,     *)
(* unless that one was still at work when the newer one came, for every     *)
(* number of devices, messages and runs.                                    *)
THEOREM ForwardedIsNewest == Spec => []NewestForwarded
<1>1. Init => NewestForwarded
  BY DEF Init, NewestForwarded
<1>2. Inv /\ NewestForwarded /\ [Next]_vars => NewestForwarded'
  <2>1. ASSUME NewestForwarded, UNCHANGED vars PROVE NewestForwarded'
    BY <2>1 DEF NewestForwarded, vars, forward
  <2> QED
    BY <2>1, NewestForwardedStep
<1> QED
  BY <1>1, <1>2, Invariance, PTL DEF Spec

-----------------------------------------------------------------------------
(* What stops the process *)

LEMMA ClashStays ==
  ASSUME Types, Staged, Next, NEW m, Clash(m)
  PROVE  Clash(m)'
<1>1. PICK r \in Received, s \in Received :
         /\ r[2].key = m /\ s[2].key = m
         /\ LabelSet(task[r[1]].src, r[2]) # LabelSet(task[s[1]].src, s[2])
  BY DEF Clash
<1>2. /\ r \in Received' /\ task'[r[1]].src = task[r[1]].src
      /\ s \in Received' /\ task'[s[1]].src = task[s[1]].src
  BY ReceivedStays
<1> QED
  BY <1>1, <1>2 DEF Clash

(* Registering the gauge of a number with labels that it does not have, or  *)
(* writing one that has other labels, means that two numbers clash.         *)
LEMMA RegisterLeafCrash ==
  ASSUME Types, Numbered, Staged, GaugesAsReceived, enabled, ~crashed,
         NEW t \in Tasks, NEW l \in AllLeaves, RegisterLeaf(t, l), crashed'
  PROVE  Clash(l.key)
<1>1. PICK names \in LabelNames(task[t].src, l) :
         /\ names \in Seq(LabelKinds) /\ names # <<>>
         /\ Elements(names) = LabelSet(task[t].src, l) /\ Register(l.key, names)
  BY RegisterLeafCall
<1>2. /\ l.key \in Keys /\ l.key \in Metrics /\ l \in task[t].todo
      /\ task[t] \in TaskRecords
  BY RegisterLeafCall
<1>3. labels[l.key] # <<>> /\ ~(Elements(labels[l.key]) \subseteq LabelSet(task[t].src, l))
  BY <1>1, <1>2, RegisterEffect
<1>4. PICK r \in Received : r[2].key = l.key /\ labels[l.key] \in LabelNames(task[r[1]].src, r[2])
  BY <1>2, <1>3 DEF GaugesAsReceived
<1>5. r[2] \in AllLeaves /\ task[r[1]].src \in Sources
  <2>1. r[1] \in Tasks /\ Known(r[1]) /\ r[2] \in Numbers(task[r[1]].payload)
    BY ReceivedIs
  <2> QED
    BY <2>1, KnownType DEF TaskRecords, Numbers
<1>6. Elements(labels[l.key]) = LabelSet(task[r[1]].src, r[2])
  BY <1>4, <1>5, NamesOfLeaf
<1>7. <<t, l>> \in Received
  BY <1>2, StagedOf, KnownPcs, ReceivedIs
<1>8. <<t, l>>[1] = t /\ <<t, l>>[2] = l
  OBVIOUS
<1> QED
  BY <1>3, <1>4, <1>6, <1>7, <1>8, Zenon DEF Clash

LEMMA WriteLeafMismatch ==
  ASSUME Types, Numbered, Staged, GaugesAsReceived, RegisteredFirst, ~crashed,
         NEW t \in Tasks, NEW l \in AllLeaves, task[t] \in TaskRecords, task[t].current = {l},
         Len(labels[l.key]) # PrefixLength(task[t].src) + Len(l.indices)
  PROVE  Clash(l.key)
<1>1. l.key \in Keys /\ l.key \in Metrics /\ task[t].src \in Sources
  BY LeafType, KeysApart DEF TaskRecords
<1>2. labels[l.key] # <<>> /\ Elements(labels[l.key]) \subseteq LabelSet(task[t].src, l)
  <2>1. Known(t) /\ l \in task[t].current
    BY KnownPcs
  <2> QED
    BY <2>1 DEF RegisteredFirst, Ready
<1>3. PICK r \in Received : r[2].key = l.key /\ labels[l.key] \in LabelNames(task[r[1]].src, r[2])
  BY <1>1, <1>2 DEF GaugesAsReceived
<1> DEFINE src == task[r[1]].src
           k == r[2]
<1>4. k \in AllLeaves /\ src \in Sources
  <2>1. r[1] \in Tasks /\ Known(r[1]) /\ r[2] \in Numbers(task[r[1]].payload)
    BY ReceivedIs
  <2> QED
    BY <2>1, KnownType DEF TaskRecords, Numbers
<1>5. /\ Elements(labels[l.key]) = LabelSet(src, k)
      /\ Len(labels[l.key]) = PrefixLength(src) + Len(k.indices)
  BY <1>3, <1>4, NamesOfLeaf
<1>6. <<t, l>> \in Received
  <2>1. l \in Numbers(task[t].payload) /\ Known(t)
    BY StagedOf, KnownPcs
  <2> QED
    BY <2>1, ReceivedIs
<1>7. <<t, l>>[1] = t /\ <<t, l>>[2] = l
  OBVIOUS
<1>8. LabelSet(src, k) # LabelSet(task[t].src, l)
  <2> SUFFICES ASSUME LabelSet(src, k) = LabelSet(task[t].src, l) PROVE FALSE
    OBVIOUS
  <2> HIDE DEF src, k
  <2>1. /\ src.kind = "run" <=> task[t].src.kind = "run"
        /\ Len(k.indices) <= Len(l.indices) /\ Len(l.indices) <= Len(k.indices)
    BY <1>1, <1>4, SameLabels
  <2>2. PICK i \in 0..3, j \in 0..3 : Len(k.indices) = i /\ Len(l.indices) = j
    BY <1>4, LeafType
  <2>3. src.kind \in {"message", "run"} /\ task[t].src.kind \in {"message", "run"}
    BY <1>1, <1>4, SourceType
  <2>4. PrefixLength(src) = PrefixLength(task[t].src)
    BY <2>1, <2>3 DEF PrefixLength
  <2>5. i = j
    BY <2>1, <2>2
  <2> QED
    BY <1>5, <2>2, <2>4, <2>5
<1> QED
  BY <1>3, <1>6, <1>7, <1>8, Zenon DEF Clash

(* A metric of a task's own is written with as many values as it has labels.*)
LEMMA OwnFits ==
  ASSUME Types, Numbered, Staged, OwnAsWritten, RegisteredFirst, ~crashed,
         NEW t \in Tasks, WriteOwn(t)
  PROVE  /\ labels[task[t].pc] # <<>>
         /\ Len(OwnValues(task[t].src)) = Len(labels[task[t].pc])
<1>1. /\ task[t] \in TaskRecords /\ task[t].src \in Sources /\ task[t].pc \in OwnMetrics
      /\ task[t].registered
  BY WriteOwnCall
<1>2. labels[task[t].pc] # <<>>
  BY <1>1, KnownPcs DEF RegisteredFirst, Ready
<1>3. StagedTask(task[t]) /\ task[t].src.kind \in {"message", "run"}
  BY <1>1, StagedOf
<1>4. labels[task[t].pc] = OwnLabels(task[t].src)
  BY <1>1, <1>2, <1>3, KeysApart DEF OwnAsWritten, OwnLabels, StagedTask
<1> QED
  BY <1>1, <1>2, <1>4, OwnType

LEMMA CrashStep ==
  ASSUME Inv, CrashNeedsClash, Next
  PROVE  CrashNeedsClash'
<1>1. /\ Types /\ Numbered /\ Staged /\ OwnAsWritten /\ GaugesAsReceived /\ RegisteredFirst
      /\ ~crashed /\ enabled' = enabled
  BY NextCases DEF Inv
<1>2. SUFFICES ASSUME crashed'
               PROVE  \/ enabled /\ \E m \in Keys : Clash(m)'
                      \/ ~enabled /\ labels' = [m \in Metrics |-> <<>>] /\ samples' = {}
  BY <1>1 DEF CrashNeedsClash
<1>3. CASE ~enabled
  <2>1. labels = [m \in Metrics |-> <<>>] /\ labels' = labels
    BY <1>1, <1>3, LabelsNil DEF RegisteredFirst
  <2>2. \A m \in Metrics : labels[m] = <<>>
    BY <2>1
  <2>3. samples = {}
    BY <1>1, <2>2 DEF RegisteredFirst, Types
  <2>4. samples' = samples
    BY <1>1, <2>2, SamplesStep
  <2> QED
    BY <1>3, <2>1, <2>3, <2>4
<1>4. CASE enabled
  <2>1. ASSUME NEW t \in Tasks, RegisterOwn(t) PROVE FALSE
    <3>1. /\ labels[task[t].pc] # <<>>
          /\ ~(Elements(labels[task[t].pc]) \subseteq Elements(OwnLabels(task[t].src)))
      BY <1>1, <1>2, <1>4, <2>1, RegisterOwnCall, RegisterEffect
    <3>2. task[t] \in TaskRecords /\ task[t].pc \in OwnMetrics
      BY <1>1, <2>1, RegisterOwnCall
    <3>3. StagedTask(task[t]) /\ task[t].src.kind \in {"message", "run"}
      BY <1>1, <3>2, StagedOf
    <3>4. labels[task[t].pc] = OwnLabels(task[t].src)
      BY <1>1, <3>1, <3>2, <3>3, KeysApart DEF OwnAsWritten, OwnLabels, StagedTask
    <3> QED
      BY <3>1, <3>4
  <2>2. ASSUME NEW t \in Tasks, WriteOwn(t) PROVE FALSE
    BY <1>1, <1>2, <2>2, OwnFits, WriteOwnCall, WriteEffect
  <2>3. ASSUME NEW t \in Tasks, NEW l \in AllLeaves, RegisterLeaf(t, l)
        PROVE  \E m \in Keys : Clash(m)
    BY <1>1, <1>2, <1>4, <2>3, RegisterLeafCrash, LeafType
  <2>4. ASSUME NEW t \in Tasks, NEW l \in AllLeaves, WriteLeaf(t, l)
        PROVE  \E m \in Keys : Clash(m)
    <3>1. PICK values \in LabelValues(task[t].src, l) :
            /\ values \in Seq(Values) /\ Len(values) = PrefixLength(task[t].src) + Len(l.indices)
            /\ Write(l.key, values, task[t].number)
      BY <1>1, <2>4, WriteLeafCall
    <3>2. /\ l.key \in Metrics /\ task[t].number \in Nat /\ task[t] \in TaskRecords
          /\ task[t].current = {l}
      BY <1>1, <2>4, WriteLeafCall
    <3>3. ~(Len(values) = Len(labels[l.key]) /\ labels[l.key] # <<>>)
      BY <1>1, <1>2, <3>1, <3>2, WriteEffect
    <3>4. labels[l.key] # <<>>
      <4>1. Known(t) /\ l \in task[t].current
        BY <1>1, <3>2, KnownPcs
      <4> QED
        BY <1>1, <4>1 DEF RegisteredFirst, Ready
    <3>5. Len(labels[l.key]) # PrefixLength(task[t].src) + Len(l.indices)
      BY <3>1, <3>3, <3>4
    <3> QED
      BY <1>1, <3>2, <3>5, WriteLeafMismatch, LeafType
  <2>5. crashed' = crashed \/ (\E t \in Tasks : RegisterOwn(t) \/ WriteOwn(t))
          \/ (\E t \in Tasks, l \in AllLeaves : RegisterLeaf(t, l) \/ WriteLeaf(t, l))
    BY <1>1, NextCases
       DEF Spawn, Begin, Parse, Publish, Deliver, Take, PublishSkipped, Finish, ForwardConnect, ForwardLost
  <2>6. \E m \in Keys : Clash(m)
    BY <1>1, <1>2, <2>1, <2>2, <2>3, <2>4, <2>5
  <2> QED
    BY <1>1, <1>4, <2>6, ClashStays
<1> QED
  BY <1>3, <1>4

(* Nothing but gauges used with different labels stops the process, however *)
(* many messages and runs interleave and whatever their payloads are;       *)
(* without Prometheus it stops before anything is exported.                 *)
THEOREM OnlyClashesStop == Spec => []CrashNeedsClash
<1>1. Init => CrashNeedsClash
  BY DEF Init, CrashNeedsClash
<1>2. Inv /\ CrashNeedsClash /\ [Next]_vars => CrashNeedsClash'
  <2>1. ASSUME CrashNeedsClash, UNCHANGED vars PROVE CrashNeedsClash'
    BY <2>1 DEF CrashNeedsClash, Clash, Received, Known, vars, prometheus
  <2> QED
    BY <2>1, CrashStep
<1> QED
  BY <1>1, <1>2, Invariance, PTL DEF Spec

-----------------------------------------------------------------------------
(* What is exported *)

(* The labels of a gauge are those of every number, unless numbers clash.   *)
LEMMA UnlessClash ==
  ASSUME Types, Staged, GaugesAsReceived, NEW t \in Tasks, Known(t),
         NEW l \in Numbers(task[t].payload), ~Clash(l.key)
  PROVE  /\ l \in AllLeaves /\ task[t].src \in Sources
         /\ \A u \in Tasks : \A k \in Numbers(task[u].payload) : Known(u) /\ k.key = l.key =>
              /\ k \in AllLeaves /\ task[u].src \in Sources
              /\ LabelSet(task[u].src, k) = LabelSet(task[t].src, l)
         /\ labels[l.key] # <<>> =>
              \E r \in Received :
                /\ r[2] \in AllLeaves /\ task[r[1]].src \in Sources
                /\ labels[l.key] \in LabelNames(task[r[1]].src, r[2])
                /\ LabelSet(task[r[1]].src, r[2]) = LabelSet(task[t].src, l)
<1>1. ASSUME NEW u \in Tasks, Known(u), NEW k \in Numbers(task[u].payload)
      PROVE  k \in AllLeaves /\ task[u].src \in Sources
  BY <1>1, KnownType DEF TaskRecords, Numbers
<1>2. <<t, l>> \in Received /\ <<t, l>>[1] = t /\ <<t, l>>[2] = l
  BY ReceivedIs
<1>3. ASSUME NEW r \in Received, r[2].key = l.key
      PROVE  /\ r[2] \in AllLeaves /\ task[r[1]].src \in Sources
             /\ LabelSet(task[r[1]].src, r[2]) = LabelSet(task[t].src, l)
  <2>1. r[1] \in Tasks /\ Known(r[1]) /\ r[2] \in Numbers(task[r[1]].payload)
    BY ReceivedIs
  <2>2. LabelSet(task[r[1]].src, r[2]) = LabelSet(task[t].src, l)
    BY <1>2, <1>3 DEF Clash
  <2> QED
    BY <1>1, <2>1, <2>2
<1>4. ASSUME NEW u \in Tasks, NEW k \in Numbers(task[u].payload), Known(u), k.key = l.key
      PROVE  LabelSet(task[u].src, k) = LabelSet(task[t].src, l)
  <2>1. <<u, k>> \in Received /\ <<u, k>>[1] = u /\ <<u, k>>[2] = k
    BY <1>4, ReceivedIs
  <2> QED
    BY <1>3, <1>4, <2>1
<1>5. l.key \in Keys
  BY <1>1, LeafType
<1>6. labels[l.key] # <<>> =>
        \E r \in Received : r[2].key = l.key /\ labels[l.key] \in LabelNames(task[r[1]].src, r[2])
  BY <1>5 DEF GaugesAsReceived
<1> QED
  BY <1>1, <1>3, <1>4, <1>6

LEMMA MisplacedStep ==
  ASSUME Inv, MisplacedNeedsTwoIndices, Next
  PROVE  MisplacedNeedsTwoIndices'
<1>1. /\ Types /\ Numbered /\ Staged /\ OwnAsWritten /\ GaugesAsReceived /\ RegisteredFirst
      /\ ~crashed
  BY NextCases DEF Inv
<1> DEFINE Deep(m) == \E r \in Received : r[2].key = m /\ Len(r[2].indices) >= 2
<1>2. ASSUME NEW s \in samples, s.metric \in Keys
      PROVE  Placed(s)' \/ \E r \in Received' : r[2].key = s.metric /\ Len(r[2].indices) >= 2
  <2>1. labels'[s.metric] = labels[s.metric]
    BY <1>1, <1>2, LabelsStay, KeysApart DEF RegisteredFirst
  <2>2. CASE Placed(s)
    <3>1. PICK r \in Received : Shows(s, r)
      BY <2>2 DEF Placed
    <3>2. /\ r \in Received' /\ task'[r[1]].src = task[r[1]].src
          /\ task'[r[1]].number = task[r[1]].number
      BY <1>1, ReceivedStays
    <3> QED
      BY <2>1, <3>1, <3>2 DEF Placed, Shows
  <2>3. CASE ~Placed(s)
    <3>1. PICK r \in Received : r[2].key = s.metric /\ Len(r[2].indices) >= 2
      BY <1>2, <2>3 DEF MisplacedNeedsTwoIndices
    <3> QED
      BY <1>1, <3>1, ReceivedStays
  <2> QED
    BY <2>2, <2>3
<1>3. ASSUME NEW t \in Tasks, WriteOwn(t), NEW s \in samples' \ samples PROVE s.metric \notin Keys
  <2>1. /\ labels[task[t].pc] # <<>> /\ Len(OwnValues(task[t].src)) = Len(labels[task[t].pc])
        /\ task[t].pc \in OwnMetrics
    BY <1>1, <1>3, OwnFits, WriteOwnCall
  <2>2. s.metric = task[t].pc
    BY <1>1, <1>3, <2>1, WriteOwnCall, WriteEffect
  <2> QED
    BY <2>1, <2>2, KeysApart
<1>4. ASSUME NEW t \in Tasks, NEW l \in AllLeaves, WriteLeaf(t, l), NEW s \in samples' \ samples
      PROVE  Placed(s)' \/ \E r \in Received' : r[2].key = s.metric /\ Len(r[2].indices) >= 2
  <2>1. PICK values \in LabelValues(task[t].src, l) :
          /\ values \in Seq(Values) /\ Len(values) = PrefixLength(task[t].src) + Len(l.indices)
          /\ Write(l.key, values, task[t].number)
    BY <1>1, <1>4, WriteLeafCall
  <2>2. /\ l.key \in Metrics /\ l.key \in Keys /\ task[t].number \in Nat
        /\ task[t] \in TaskRecords /\ task[t].src \in Sources /\ task[t].current = {l}
    BY <1>1, <1>4, WriteLeafCall
  <2>3. NewValue(l.key, values, task[t].number) = task[t].number
    BY <2>2, KeysApart DEF NewValue
  <2>4. /\ Len(values) = Len(labels[l.key])
        /\ s = [metric |-> l.key, values |-> values, value |-> task[t].number]
    BY <1>1, <1>4, <2>1, <2>2, <2>3, WriteEffect
  <2>5. s.metric = l.key /\ s.values = values /\ s.value = task[t].number
    BY <2>4
  <2>6. l \in Numbers(task[t].payload) /\ Known(t)
    BY <1>1, <2>2, StagedOf, KnownPcs
  <2>7. <<t, l>> \in Received /\ <<t, l>>[1] = t /\ <<t, l>>[2] = l
    BY <2>6, ReceivedIs
  <2>8. /\ <<t, l>> \in Received' /\ task'[t].src = task[t].src /\ task'[t].number = task[t].number
    BY <1>1, <2>7, ReceivedStays
  <2>9. labels[l.key] # <<>> /\ Elements(labels[l.key]) \subseteq LabelSet(task[t].src, l)
    BY <1>1, <2>2, <2>6 DEF RegisteredFirst, Ready
  <2>10. PICK r \in Received :
           r[2].key = l.key /\ labels[l.key] \in LabelNames(task[r[1]].src, r[2])
    BY <1>1, <2>2, <2>9 DEF GaugesAsReceived
  <2>11. r[2] \in AllLeaves /\ task[r[1]].src \in Sources /\ r \in Received'
    <3>1. r[1] \in Tasks /\ Known(r[1]) /\ r[2] \in Numbers(task[r[1]].payload)
      BY ReceivedIs
    <3> QED
      BY <1>1, <3>1, KnownType, ReceivedStays DEF TaskRecords, Numbers
  <2>12. CASE Len(l.indices) < 2 /\ Len(r[2].indices) < 2
    <3>1. Elements(labels[l.key]) = LabelSet(task[r[1]].src, r[2])
      BY <2>10, <2>11, NamesOfLeaf
    <3>2. Labelled(labels[l.key], values) = TrueLabels(task[t].src, l)
      BY <2>1, <2>2, <2>4, <2>9, <2>10, <2>11, <2>12, <3>1, ShallowIsPlaced
    <3>3. labels' = labels
      BY <1>4 DEF WriteLeaf
    <3>4. Shows(s, <<t, l>>)'
      BY <2>5, <2>7, <2>8, <3>2, <3>3 DEF Shows
    <3> QED
      BY <2>8, <3>4 DEF Placed
  <2>13. CASE Len(l.indices) >= 2
    BY <2>5, <2>7, <2>8, <2>13
  <2>14. CASE Len(r[2].indices) >= 2
    BY <2>5, <2>10, <2>11, <2>14
  <2>15. PICK i \in 0..3, j \in 0..3 : Len(l.indices) = i /\ Len(r[2].indices) = j
    BY <2>11, LeafType
  <2> QED
    BY <2>12, <2>13, <2>14, <2>15
<1>5. samples' = samples \/ (\E t \in Tasks : WriteOwn(t))
                         \/ (\E t \in Tasks, l \in AllLeaves : WriteLeaf(t, l))
  BY <1>1, NextCases
     DEF Spawn, Begin, RegisterOwn, Parse, Publish, Deliver, Take, PublishSkipped, Finish, RegisterLeaf,
         ForwardConnect, ForwardLost, prometheus
<1>6. SUFFICES ASSUME NEW s \in samples', s.metric \in Keys
               PROVE  Placed(s)' \/ \E r \in Received' : r[2].key = s.metric /\ Len(r[2].indices) >= 2
  BY DEF MisplacedNeedsTwoIndices
<1> QED
  BY <1>2, <1>3, <1>4, <1>5, <1>6

(* A sample whose labels were not received with its value has at least two  *)
(* indices, or shares its gauge with one that has: with fewer, the orders   *)
(* of a Go map have nothing to confuse.                                     *)
THEOREM OnlyDeepIsMisplaced == Spec => []MisplacedNeedsTwoIndices
<1>1. Init => MisplacedNeedsTwoIndices
  BY DEF Init, MisplacedNeedsTwoIndices
<1>2. Inv /\ MisplacedNeedsTwoIndices /\ [Next]_vars => MisplacedNeedsTwoIndices'
  <2>1. ASSUME MisplacedNeedsTwoIndices, UNCHANGED vars PROVE MisplacedNeedsTwoIndices'
    BY <2>1 DEF MisplacedNeedsTwoIndices, Placed, Shows, Received, Known, vars, prometheus
  <2> QED
    BY <2>1, MisplacedStep
<1> QED
  BY <1>1, <1>2, Invariance, PTL DEF Spec

(* What a write does to the samples of another place, and to its own.       *)
LEMMA WrittenAt ==
  ASSUME Types, NEW m \in Metrics, NEW values \in Seq(Values), NEW v \in Nat,
         m \notin Counters, Write(m, values, v)
  PROVE  /\ \A s \in samples : s \in samples' \/ /\ s.metric = m /\ s.values = values
                                                 /\ \E n \in samples' :
                                                      n.metric = m /\ n.values = values /\ n.value = v
         /\ Len(values) = Len(labels[m]) /\ labels[m] # <<>> =>
              \E n \in samples' : n.metric = m /\ n.values = values /\ n.value = v
<1>1. CASE Len(values) = Len(labels[m]) /\ labels[m] # <<>>
  <2>1. NewValue(m, values, v) = v
    BY DEF NewValue
  <2>2. samples' = (samples \ SampleAt(m, values))
                     \cup {[metric |-> m, values |-> values, value |-> v]}
    BY <1>1, <2>1, WriteEffect
  <2>3. PICK n : n = [metric |-> m, values |-> values, value |-> v]
    OBVIOUS
  <2>4. n.metric = m /\ n.values = values /\ n.value = v
    BY <2>3
  <2>5. n \in samples' /\ \A s \in samples : s \in samples' \/ (s.metric = m /\ s.values = values)
    BY <2>2, <2>3 DEF SampleAt
  <2> QED
    BY <2>4, <2>5
<1>2. CASE ~(Len(values) = Len(labels[m]) /\ labels[m] # <<>>)
  BY <1>2, WriteEffect
<1> QED
  BY <1>1, <1>2

(* A task changes by its own steps only. *)
LEMMA OwnSteps ==
  ASSUME Types, Next, NEW t \in Tasks, task[t] \in TaskRecords
  PROVE  \/ task'[t] = task[t]
         \/ Begin(t) \/ RegisterOwn(t) \/ WriteOwn(t) \/ Parse(t)
         \/ Publish(t) \/ PublishSkipped(t) \/ Finish(t)
         \/ \E l \in AllLeaves : RegisterLeaf(t, l) \/ WriteLeaf(t, l)
<1>1. ASSUME NEW u \in Tasks, NEW src \in Sources, Spawn(u, src) PROVE task'[t] = task[t]
  <2>1. task[t].pc # "idle" /\ Idle.pc = "idle"
    BY KnownPcs DEF Known, Idle
  <2>2. task[u] = Idle /\ \A w \in Tasks \ {u} : task'[w] = task[w]
    BY <1>1, SpawnEffect
  <2> QED
    BY <2>1, <2>2
<1>2. ASSUME NEW u \in Tasks, u # t, Advances(u) PROVE task'[t] = task[t]
  BY <1>2 DEF Advances
<1>3. ASSUME NEW u \in Tasks, u # t,
             \/ Begin(u) \/ RegisterOwn(u) \/ WriteOwn(u) \/ Parse(u)
             \/ Publish(u) \/ PublishSkipped(u) \/ Finish(u)
      PROVE  task'[t] = task[t]
  BY <1>2, <1>3, StepAdvances
<1>4. ASSUME NEW u \in Tasks, u # t, NEW l \in AllLeaves, RegisterLeaf(u, l) \/ WriteLeaf(u, l)
      PROVE  task'[t] = task[t]
  BY <1>2, <1>4, StepAdvances
<1>5. CASE ForwardConnect \/ ForwardLost \/ \E u \in Tasks : Deliver(u)
  BY <1>5 DEF ForwardConnect, ForwardLost, Deliver
<1>6. CASE \E u \in Tasks : \/ Begin(u) \/ RegisterOwn(u) \/ WriteOwn(u) \/ Parse(u)
                            \/ Publish(u) \/ PublishSkipped(u) \/ Finish(u)
  BY <1>3, <1>6
<1>7. CASE \E u \in Tasks, l \in AllLeaves : RegisterLeaf(u, l) \/ WriteLeaf(u, l)
  BY <1>4, <1>7
<1> QED
  BY <1>1, <1>5, <1>6, <1>7, NextCases

LEMMA FirstSteps ==
  ASSUME Types, Next, NEW t \in Tasks, task[t] \in TaskRecords, task[t].src.kind = "message"
  PROVE  /\ task[t].pc = "spawned" => task'[t].pc \in {"spawned", "received"}
         /\ task[t].pc = "received" => task'[t].pc \in {"received", "last"}
         /\ task[t].pc = "last" /\ task'[t].pc # "last" => WriteOwn(t)
<1>1. CASE task'[t] = task[t]
  BY <1>1
<1>2. CASE Begin(t)
  BY <1>2, BeginMoves DEF Moves, Begin
<1>3. CASE RegisterOwn(t)
  BY <1>3, RegisterOwnMoves DEF Moves
<1>4. CASE WriteOwn(t)
  <2>1. task[t].pc \in OwnMetrics
    BY <1>4 DEF WriteOwn
  <2>2. task'[t].pc = After(task[t].pc)
    BY <1>4, WriteOwnMoves DEF Moves
  <2> QED
    BY <1>4, <2>1, <2>2, AfterType DEF OwnMetrics
<1>5. CASE \/ Parse(t) \/ Publish(t) \/ PublishSkipped(t) \/ Finish(t)
           \/ \E l \in AllLeaves : RegisterLeaf(t, l) \/ WriteLeaf(t, l)
  BY <1>5 DEF Parse, Publish, PublishSkipped, Finish, RegisterLeaf, WriteLeaf
<1> QED
  BY <1>1, <1>2, <1>3, <1>4, <1>5, OwnSteps

LEMMA EnoughStays ==
  ASSUME Types, Staged, Beside, Next, NEW t \in Tasks, Known(t), NEW v
  PROVE  /\ TimeEnough(t, v) => TimeEnough(t, v)'
         /\ NumberEnough(t, v) => NumberEnough(t, v)'
<1>1. /\ task'[t].number = task[t].number /\ task'[t].beside = task[t].beside
      /\ \A u \in task[t].beside :
           /\ task'[u].number = task[u].number
           /\ task[u].pc # "spawned" => task'[u].pc # "spawned" /\ task'[u].time = task[u].time
  BY Stays, BesideStays
<1> QED
  BY <1>1 DEF TimeEnough, NumberEnough

LEMMA LastWrittenStep ==
  ASSUME Inv, LastWritten, Next
  PROVE  LastWritten'
<1>1. /\ Types /\ Numbered /\ Staged /\ OwnAsWritten /\ GaugesAsReceived /\ RegisteredFirst
      /\ Beside /\ ~crashed
  BY NextCases DEF Inv
<1>2. "last" \in Metrics /\ "last" \notin Counters /\ "last" \notin Keys
  BY KeysApart DEF OwnMetrics, Counters
<1>3. SUFFICES ASSUME NEW t \in Tasks, Known(t)', task'[t].src.kind = "message",
                      task'[t].pc \notin {"spawned", "received", "last"}
               PROVE  \E s \in samples' : /\ s.metric = "last"
                                          /\ s.values = OwnValues(task'[t].src)
                                          /\ TimeEnough(t, s.value)'
  BY DEF LastWritten, SampleAt
<1>4. /\ task[t] \in TaskRecords /\ Known(t)
      /\ task'[t].src = task[t].src /\ task'[t].number = task[t].number
      /\ task[t].src \in Sources
  <2>1. ASSUME NEW u \in Tasks, NEW src \in Sources, Spawn(u, src) PROVE Known(t)
    <3>1. task'[u].pc = "spawned" /\ \A w \in Tasks \ {u} : task'[w] = task[w]
      BY <1>1, <2>1, SpawnEffect
    <3> QED
      BY <1>3, <3>1 DEF Known
  <2>2. ASSUME NEW u \in Tasks, Advances(u) PROVE Known(t)
    <3>1. Active(u) /\ \A w \in Tasks \ {u} : task'[w] = task[w]
      BY <2>2 DEF Advances
    <3> QED
      BY <1>3, <3>1 DEF Known, Active
  <2>3. ASSUME UNCHANGED task PROVE Known(t)
    BY <1>3, <2>3 DEF Known
  <2>4. Known(t)
    BY <1>1, <2>1, <2>2, <2>3, Shapes
  <2>5. task[t] \in TaskRecords
    BY <1>1, <2>4, KnownType
  <2>6. task'[t].src = task[t].src /\ task'[t].number = task[t].number
    BY <1>1, <2>4, Stays
  <2> QED
    BY <2>4, <2>5, <2>6 DEF TaskRecords
<1> DEFINE Shown(s) == /\ s.metric = "last" /\ s.values = OwnValues(task[t].src)
                       /\ TimeEnough(t, s.value)
<1>8. SUFFICES \E s \in samples' : Shown(s)
  <2>1. ASSUME NEW s \in samples', Shown(s)
        PROVE  s.metric = "last" /\ s.values = OwnValues(task'[t].src) /\ TimeEnough(t, s.value)'
    BY <1>1, <1>4, <2>1, EnoughStays
  <2> QED
    BY <2>1
<1>5. CASE task[t].pc \notin {"spawned", "received", "last"}
  <2>1. PICK s \in samples : Shown(s)
    BY <1>3, <1>4, <1>5 DEF LastWritten, SampleAt
  <2>2. CASE s \in samples'
    BY <2>1, <2>2
  <2>3. ASSUME s \notin samples', NEW u \in Tasks, WriteOwn(u)
        PROVE  \E n \in samples' : Shown(n)
    <3>1. /\ task[u] \in TaskRecords /\ task[u].src \in Sources /\ task[u].pc \in OwnMetrics
          /\ task[u].pc \in Metrics /\ task[u].time \in Nat
          /\ OwnValues(task[u].src) \in Seq(Values)
          /\ Write(task[u].pc, OwnValues(task[u].src), task[u].time)
      BY <1>1, <2>3, WriteOwnCall
    <3>2. task[u].pc = "last" /\ OwnValues(task[u].src) = OwnValues(task[t].src)
          /\ \E n \in samples' : /\ n.metric = "last" /\ n.values = OwnValues(task[u].src)
                                 /\ n.value = task[u].time
      <4>1. CASE task[u].pc \notin Counters
        BY <1>1, <2>1, <2>3, <3>1, <4>1, WrittenAt
      <4>2. CASE task[u].pc \in Counters
        <5>1. s \notin SampleAt(task[u].pc, OwnValues(task[u].src))
          BY <1>2, <2>1, <4>2 DEF SampleAt
        <5>2. s \in samples'
          BY <1>1, <2>1, <2>3, <3>1, <5>1, WriteEffect
        <5> QED
          BY <2>3, <5>2
      <4> QED
        BY <4>1, <4>2
    <3>3. task[u].src.kind = "message" /\ task[u].time >= task[u].number
      BY <1>1, <3>1, <3>2, StagedOf DEF StagedTask, MessageMetrics
    <3>4. task[u].src = task[t].src
      <4>1. task[u].src.device = task[t].src.device
        BY <1>3, <1>4, <3>2, <3>3 DEF OwnValues
      <4> QED
        BY <1>3, <1>4, <3>1, <3>3, <4>1, MessageSource
    <3>5. TimeEnough(t, task[u].time)
      <4>1. Active(u) /\ task[u].pc # "spawned"
        BY <3>2 DEF Active
      <4>2. task[u].number >= task[t].number \/ u \in task[t].beside
        BY <1>1, <1>4, <3>4, <4>1, WriterIsNewest
      <4>3. task[t].number \in Nat /\ task[u].number \in Nat
        BY <1>4, <3>1 DEF TaskRecords
      <4> QED
        BY <3>1, <3>3, <4>1, <4>2, <4>3 DEF TimeEnough
    <3> QED
      BY <3>2, <3>4, <3>5
  <2>4. ASSUME NEW u \in Tasks, NEW l \in AllLeaves, WriteLeaf(u, l) PROVE s \in samples'
    BY <1>1, <1>2, <2>1, <2>4, WriteLeafCall, WrittenAt, KeysApart
  <2>5. samples' = samples \/ (\E u \in Tasks : WriteOwn(u))
                           \/ (\E u \in Tasks, l \in AllLeaves : WriteLeaf(u, l))
    BY <1>1, NextCases
       DEF Spawn, Begin, RegisterOwn, Parse, Publish, Deliver, Take, PublishSkipped, Finish, RegisterLeaf,
           ForwardConnect, ForwardLost, prometheus
  <2>6. s \notin samples' => \E u \in Tasks : WriteOwn(u)
    BY <2>4, <2>5
  <2> QED
    BY <2>2, <2>3, <2>6
<1>6. CASE task[t].pc = "last"
  <2>1. ASSUME WriteOwn(t) PROVE \E n \in samples' : Shown(n)
    <3>1. /\ Write("last", OwnValues(task[t].src), task[t].time) /\ task[t].time \in Nat
          /\ OwnValues(task[t].src) \in Seq(Values)
          /\ Len(OwnValues(task[t].src)) = Len(labels["last"]) /\ labels["last"] # <<>>
      BY <1>1, <1>6, <2>1, WriteOwnCall, OwnFits
    <3>2. \E n \in samples' : /\ n.metric = "last" /\ n.values = OwnValues(task[t].src)
                              /\ n.value = task[t].time
      BY <1>1, <1>2, <3>1, WrittenAt
    <3>3. TimeEnough(t, task[t].time)
      BY <1>1, <1>4, <1>6, StagedOf DEF StagedTask, TimeEnough
    <3> QED
      BY <3>2, <3>3
  <2>2. WriteOwn(t)
    BY <1>1, <1>3, <1>4, <1>6, FirstSteps
  <2> QED
    BY <2>1, <2>2
<1>7. CASE task[t].pc \in {"spawned", "received"}
  BY <1>1, <1>3, <1>4, <1>7, FirstSteps
<1> QED
  BY <1>5, <1>6, <1>7

LEMMA LeavesWrittenStep ==
  ASSUME Inv, LeavesWritten, Next
  PROVE  LeavesWritten'
<1>1. /\ Types /\ Numbered /\ Staged /\ OwnAsWritten /\ GaugesAsReceived /\ RegisteredFirst
      /\ Beside /\ ~crashed
  BY NextCases DEF Inv
<1>2. SUFFICES ASSUME NEW t \in Tasks, Known(t)', task'[t].src.kind = "message",
                      NEW l \in Numbers(task'[t].payload), l \notin task'[t].todo,
                      l \notin task'[t].current, ~Clash(l.key)'
               PROVE  \E s \in samples' : /\ s.metric = l.key /\ NumberEnough(t, s.value)'
                                          /\ s.values \in LabelValues(task'[t].src, l)
  BY DEF LeavesWritten
<1>3. ~Clash(l.key)
  BY <1>1, <1>2, ClashStays
<1>4. ASSUME ~Known(t) PROVE task'[t].payload = {}
  <2>1. ASSUME NEW u \in Tasks, NEW src \in Sources, Spawn(u, src) PROVE task'[t].payload = {}
    BY <1>1, <1>2, <1>4, <2>1, SpawnEffect DEF Known
  <2>2. ASSUME NEW u \in Tasks, Advances(u) PROVE FALSE
    BY <1>2, <1>4, <2>2 DEF Known, Advances, Active
  <2>3. ASSUME UNCHANGED task PROVE FALSE
    BY <1>2, <1>4, <2>3 DEF Known
  <2> QED
    BY <1>1, <2>1, <2>2, <2>3, Shapes
<1>5. Known(t) /\ task[t] \in TaskRecords /\ task[t].src \in Sources /\ task[t].number \in Nat
  <2>1. Known(t)
    BY <1>2, <1>4 DEF Numbers
  <2> QED
    BY <1>1, <2>1, KnownType DEF TaskRecords
<1>6. task'[t].src = task[t].src /\ task'[t].number = task[t].number
  BY <1>1, <1>5, Stays
<1> DEFINE Shown(s) == /\ s.metric = l.key /\ NumberEnough(t, s.value)
                       /\ s.values \in LabelValues(task[t].src, l)
<1>7. SUFFICES \E s \in samples' : Shown(s)
  <2>1. ASSUME NEW s \in samples', Shown(s)
        PROVE  /\ s.metric = l.key /\ NumberEnough(t, s.value)'
               /\ s.values \in LabelValues(task'[t].src, l)
    BY <1>1, <1>5, <1>6, <2>1, EnoughStays
  <2> QED
    BY <2>1
<1>8. CASE /\ l \in Numbers(task[t].payload)
           /\ l \notin task[t].todo /\ l \notin task[t].current
  <2>1. PICK s \in samples : Shown(s)
    BY <1>2, <1>3, <1>5, <1>6, <1>8 DEF LeavesWritten
  <2>3. ASSUME NEW u \in Tasks, NEW k \in AllLeaves, WriteLeaf(u, k), s \notin samples'
        PROVE  \E n \in samples' : Shown(n)
    <3>1. PICK values \in LabelValues(task[u].src, k) :
            /\ values \in Seq(Values) /\ Len(values) = PrefixLength(task[u].src) + Len(k.indices)
            /\ Write(k.key, values, task[u].number)
      BY <1>1, <2>3, WriteLeafCall
    <3>2. /\ task[u] \in TaskRecords /\ task[u].src \in Sources /\ task[u].number \in Nat
          /\ task[u].current = {k} /\ k.key \in Metrics /\ k.key \notin Counters
      BY <1>1, <2>3, WriteLeafCall, KeysApart DEF TaskRecords
    <3>3. /\ k.key = l.key /\ s.values = values
          /\ \E n \in samples' : n.metric = l.key /\ n.values = s.values /\ n.value = task[u].number
      BY <1>1, <2>1, <2>3, <3>1, <3>2, WrittenAt
    <3>4. Known(u) /\ k \in Numbers(task[u].payload)
      BY <1>1, <3>2, StagedOf, KnownPcs
    <3>5. LabelSet(task[u].src, k) = LabelSet(task[t].src, l) /\ l \in AllLeaves
      BY <1>1, <1>3, <1>5, <1>8, <3>3, <3>4, UnlessClash
    <3>6. task[u].src.kind = "message" /\ task[t].src.kind = "message"
      <4>1. task[u].src.kind = "run" => task[t].src.kind = "run"
        BY <1>5, <3>2, <3>5, SameLabels
      <4> QED
        BY <1>2, <1>6, <3>2, <4>1, SourceType
    <3>7. task[u].src = task[t].src
      <4>1. values[1] = task[u].src.device
        BY <3>1, <3>2, <3>6, ValuesOfLeaf
      <4>2. s.values[1] = task[t].src.device
        BY <1>5, <2>1, <3>5, <3>6, ValuesOfLeaf
      <4> QED
        BY <1>5, <3>2, <3>3, <3>6, <4>1, <4>2, MessageSource
    <3>8. NumberEnough(t, task[u].number)
      <4>1. Active(u)
        BY <2>3 DEF WriteLeaf, Active
      <4> QED
        BY <1>1, <1>5, <3>7, <4>1, WriterIsNewest DEF NumberEnough
    <3>9. PICK n \in samples' : n.metric = l.key /\ n.values = s.values /\ n.value = task[u].number
      BY <3>3
    <3> QED
      BY <2>1, <3>8, <3>9
  <2>4. ASSUME NEW u \in Tasks, WriteOwn(u) PROVE s \in samples'
    <3>1. task[u].pc # s.metric
      <4>1. l \in AllLeaves
        BY <1>1, <1>3, <1>5, <1>8, UnlessClash
      <4> QED
        BY <1>1, <2>1, <2>4, <4>1, WriteOwnCall, LeafType, KeysApart
    <3>2. s \notin SampleAt(task[u].pc, OwnValues(task[u].src))
      BY <3>1 DEF SampleAt
    <3> QED
      BY <1>1, <2>1, <2>4, <3>2, WriteOwnCall, WriteEffect
  <2>5. samples' = samples \/ (\E u \in Tasks : WriteOwn(u))
                           \/ (\E u \in Tasks, k \in AllLeaves : WriteLeaf(u, k))
    BY <1>1, NextCases
       DEF Spawn, Begin, RegisterOwn, Parse, Publish, Deliver, Take, PublishSkipped, Finish, RegisterLeaf,
           ForwardConnect, ForwardLost, prometheus
  <2> QED
    BY <2>1, <2>3, <2>4, <2>5
<1>9. CASE WriteLeaf(t, l) /\ l \in AllLeaves
  <2>1. PICK values \in LabelValues(task[t].src, l) :
          /\ values \in Seq(Values) /\ Len(values) = PrefixLength(task[t].src) + Len(l.indices)
          /\ Write(l.key, values, task[t].number)
    BY <1>1, <1>9, WriteLeafCall
  <2>2. /\ l.key \in Metrics /\ l.key \notin Counters /\ task[t].current = {l}
    BY <1>1, <1>9, WriteLeafCall, KeysApart
  <2>3. Len(labels[l.key]) = PrefixLength(task[t].src) + Len(l.indices)
    BY <1>1, <1>3, <1>5, <1>9, <2>2, WriteLeafMismatch
  <2>4. labels[l.key] # <<>>
    <3>1. l \in task[t].current
      BY <2>2
    <3> QED
      BY <1>1, <1>5, <3>1 DEF RegisteredFirst, Ready
  <2>5. \E n \in samples' : n.metric = l.key /\ n.values = values /\ n.value = task[t].number
    BY <1>1, <1>5, <2>1, <2>2, <2>3, <2>4, WrittenAt
  <2>6. NumberEnough(t, task[t].number)
    BY <1>5 DEF NumberEnough
  <2> QED
    BY <2>1, <2>5, <2>6
<1>10. \/ l \in Numbers(task[t].payload) /\ l \notin task[t].todo /\ l \notin task[t].current
       \/ WriteLeaf(t, l) /\ l \in AllLeaves
  <2>1. CASE task'[t] = task[t]
    BY <1>2, <2>1
  <2>2. CASE Begin(t)
    BY <1>1, <1>2, <2>2, BeginMoves DEF Moves
  <2>3. CASE RegisterOwn(t)
    BY <1>1, <1>2, <2>3, RegisterOwnMoves DEF Moves
  <2>4. CASE WriteOwn(t)
    BY <1>1, <1>2, <2>4, WriteOwnMoves DEF Moves
  <2>5. CASE Parse(t)
    <3>1. task[t].current = {}
      BY <1>1, <1>5, <2>5, StagedOf DEF StagedTask, Parse
    <3> QED
      BY <1>1, <1>2, <2>5, <3>1, ParseCases DEF Moves
  <2>6. CASE Publish(t) \/ PublishSkipped(t)
    <3>1. task[t].pc = "forward" /\ AfterForward(t)
      BY <2>6 DEF Publish, PublishSkipped
    <3> QED
      BY <1>1, <1>2, <3>1, AfterForwardMoves DEF Moves
  <2>7. CASE Finish(t)
    <3>1. task[t].todo = {} /\ task[t].current = {}
      BY <2>7 DEF Finish
    <3> QED
      BY <1>1, <1>2, <2>7, <3>1, FinishMoves DEF Moves
  <2>8. ASSUME NEW k \in AllLeaves, RegisterLeaf(t, k)
        PROVE  l \in Numbers(task[t].payload) /\ l \notin task[t].todo /\ l \notin task[t].current
    <3>1. task[t].current = {}
      BY <2>8 DEF RegisterLeaf
    <3> QED
      BY <1>1, <1>2, <2>8, <3>1, RegisterLeafMoves DEF Moves
  <2>9. ASSUME NEW k \in AllLeaves, WriteLeaf(t, k)
        PROVE  \/ l \in Numbers(task[t].payload) /\ l \notin task[t].todo /\ l \notin task[t].current
               \/ WriteLeaf(t, l) /\ l \in AllLeaves
    <3>1. task[t].current = {k}
      BY <2>9 DEF WriteLeaf
    <3>2. CASE l = k
      BY <2>9, <3>2
    <3>3. CASE l # k
      BY <1>1, <1>2, <2>9, <3>1, <3>3, WriteLeafMoves DEF Moves
    <3> QED
      BY <3>2, <3>3
  <2> QED
    BY <1>1, <1>5, <2>1, <2>2, <2>3, <2>4, <2>5, <2>6, <2>7, <2>8, <2>9, OwnSteps
<1> QED
  BY <1>8, <1>9, <1>10

LEMMA NewestOf ==
  ASSUME Inv, LastWritten, LeavesWritten
  PROVE  NewestUnlessOverlapped
<1>1. Types /\ Numbered /\ Staged /\ GaugesAsReceived /\ RegisteredFirst
  BY DEF Inv
<1>2. SUFFICES ASSUME NEW t \in Tasks, Known(t), task[t].pc = "done",
                      task[t].src.kind = "message"
               PROVE  /\ \E s \in SampleAt("last", OwnValues(task[t].src)) :
                           \/ s.value >= task[t].number
                           \/ \E u \in task[t].beside : s.value = task[u].time
                      /\ \A l \in Numbers(task[t].payload) :
                           Len(l.indices) < 2 /\ ~Clash(l.key) =>
                             \E s \in samples :
                               /\ s.metric = l.key
                               /\ Labelled(labels[l.key], s.values) = TrueLabels(task[t].src, l)
                               /\ NumberEnough(t, s.value)
  BY DEF NewestUnlessOverlapped, NumberEnough
<1>3. \E s \in SampleAt("last", OwnValues(task[t].src)) :
        \/ s.value >= task[t].number
        \/ \E u \in task[t].beside : s.value = task[u].time
  <2>1. PICK s \in SampleAt("last", OwnValues(task[t].src)) : TimeEnough(t, s.value)
    BY <1>2 DEF LastWritten
  <2> QED
    BY <2>1 DEF TimeEnough
<1>4. ASSUME NEW l \in Numbers(task[t].payload), Len(l.indices) < 2, ~Clash(l.key)
      PROVE  \E s \in samples :
               /\ s.metric = l.key
               /\ Labelled(labels[l.key], s.values) = TrueLabels(task[t].src, l)
               /\ NumberEnough(t, s.value)
  <2>1. task[t].todo = {} /\ task[t].current = {}
    BY <1>1, <1>2 DEF Staged, StagedTask
  <2>2. PICK s \in samples : /\ s.metric = l.key /\ NumberEnough(t, s.value)
                             /\ s.values \in LabelValues(task[t].src, l)
    BY <1>2, <1>4, <2>1 DEF LeavesWritten
  <2>3. labels[l.key] # <<>> /\ Len(s.values) = Len(labels[l.key])
    BY <1>1, <2>2 DEF RegisteredFirst
  <2>4. PICK r \in Received : /\ r[2] \in AllLeaves /\ task[r[1]].src \in Sources
                              /\ labels[l.key] \in LabelNames(task[r[1]].src, r[2])
                              /\ LabelSet(task[r[1]].src, r[2]) = LabelSet(task[t].src, l)
    BY <1>1, <1>2, <1>4, <2>3, UnlessClash
  <2>5. l \in AllLeaves /\ task[t].src \in Sources
    BY <1>1, <1>2, <1>4, UnlessClash
  <2>6. Len(r[2].indices) < 2
    <3>1. Len(r[2].indices) <= Len(l.indices)
      BY <2>4, <2>5, SameLabels
    <3>2. PICK i \in 0..3, j \in 0..3 : Len(l.indices) = i /\ Len(r[2].indices) = j
      BY <2>4, <2>5, LeafType
    <3> QED
      BY <1>4, <3>1, <3>2
  <2>7. Labelled(labels[l.key], s.values) = TrueLabels(task[t].src, l)
    <3>1. PICK names : names = labels[l.key]
      OBVIOUS
    <3>2. Labelled(names, s.values) = TrueLabels(task[t].src, l)
      BY <1>4, <2>2, <2>3, <2>4, <2>5, <2>6, <3>1, ShallowIsPlaced
    <3> QED
      BY <3>1, <3>2
  <2> QED
    BY <2>2, <2>7
<1> QED
  BY <1>3, <1>4

(* What is exported of a device is never older than a message that is done  *)
(* (its timestamp, and every number without lists in lists where no gauge   *)
(* has clashing labels), unless an older message wrote it that was still at *)
(* work when this one came, for every number of messages, runs and devices. *)
THEOREM ExportedIsNewest == Spec => []NewestUnlessOverlapped
<1>1. Init => LastWritten /\ LeavesWritten
  BY DEF Init, LastWritten, LeavesWritten, Known, Idle
<1>2. Inv /\ LastWritten /\ LeavesWritten /\ [Next]_vars => LastWritten' /\ LeavesWritten'
  <2>1. ASSUME LastWritten, LeavesWritten, UNCHANGED vars PROVE LastWritten' /\ LeavesWritten'
    <3>1. UNCHANGED <<enabled, labels, samples, task>>
      BY <2>1 DEF vars, prometheus
    <3>2. LastWritten'
      BY <2>1, <3>1 DEF LastWritten, TimeEnough, SampleAt, Known
    <3>3. LeavesWritten'
      BY <2>1, <3>1 DEF LeavesWritten, NumberEnough, Clash, Received, Known
    <3> QED
      BY <3>2, <3>3
  <2> QED
    BY <2>1, LastWrittenStep, LeavesWrittenStep
<1>3. Inv /\ LastWritten /\ LeavesWritten => NewestUnlessOverlapped
  BY NewestOf
<1> QED
  BY <1>1, <1>2, <1>3, Invariance, PTL DEF Spec

-----------------------------------------------------------------------------
(* Counting *)

(* The counter of a source's tasks, and the tasks it has counted. *)
CounterOf(src) == IF src.kind = "message" THEN "received" ELSE "invocations"
IsCounted(t, src) == /\ Known(t) /\ task[t].src = src
                     /\ task[t].pc \notin {"spawned", CounterOf(src)}
CountedTasks(src) == {t \in Tasks : IsCounted(t, src)}

CountedAt(src) ==
  IF CountedTasks(src) = {} THEN SampleAt(CounterOf(src), OwnValues(src)) = {}
  ELSE {s.value : s \in SampleAt(CounterOf(src), OwnValues(src))}
         = {Cardinality(CountedTasks(src))}

LEMMA CountedOnceIs == CountedOnce <=> (~crashed => \A src \in Sources : CountedAt(src))
  BY DEF CountedOnce, CountedAt, CountedTasks, IsCounted, CounterOf

(* A task that is counted stays so, and becomes so by writing the counter.  *)
LEMMA CountedBySteps ==
  ASSUME Types, Numbered, Staged, Next, NEW src \in Sources, NEW t \in Tasks
  PROVE  \/ IsCounted(t, src)' <=> IsCounted(t, src)
         \/ /\ WriteOwn(t) /\ task[t].src = src /\ task[t].pc = CounterOf(src)
            /\ ~IsCounted(t, src) /\ IsCounted(t, src)'
<1>1. CASE ~Known(t)
  <2>1. ASSUME NEW u \in Tasks, NEW other \in Sources, Spawn(u, other) PROVE ~IsCounted(t, src)'
    <3>1. task'[u].pc = "spawned" /\ \A w \in Tasks \ {u} : task'[w] = task[w]
      BY <2>1, SpawnEffect
    <3> QED
      BY <1>1, <3>1 DEF IsCounted, Known
  <2>2. ASSUME NEW u \in Tasks, Advances(u) PROVE ~IsCounted(t, src)'
    <3>1. t # u /\ \A w \in Tasks \ {u} : task'[w] = task[w]
      BY <1>1, <2>2 DEF Advances, Active, Known
    <3> QED
      BY <1>1, <3>1 DEF IsCounted, Known
  <2>3. ASSUME UNCHANGED task PROVE ~IsCounted(t, src)'
    BY <1>1, <2>3 DEF IsCounted, Known
  <2>4. ~IsCounted(t, src)'
    BY <2>1, <2>2, <2>3, Shapes
  <2> QED
    BY <1>1, <2>4 DEF IsCounted
<1>2. CASE Known(t)
  <2>1. /\ task[t] \in TaskRecords /\ Known(t)' /\ task'[t].src = task[t].src
        /\ StagedTask(task[t]) /\ task[t].src.kind \in {"message", "run"}
    BY <1>2, KnownType, Stays, StagedOf
  <2>2. CASE task'[t] = task[t]
    BY <1>2, <2>1, <2>2 DEF IsCounted
  <2>3. CASE Begin(t)
    <3>1. task[t].pc = "spawned"
      BY <2>3 DEF Begin
    <3>2. task'[t].pc = IF task[t].src.kind = "message" THEN "received" ELSE "invocations"
      BY <2>3, BeginMoves DEF Moves
    <3> QED
      BY <2>1, <3>1, <3>2 DEF IsCounted, CounterOf
  <2>4. CASE RegisterOwn(t)
    <3>1. task'[t].pc = task[t].pc
      BY <2>4, RegisterOwnMoves DEF Moves
    <3> QED
      BY <1>2, <2>1, <3>1 DEF IsCounted
  <2>5. CASE WriteOwn(t)
    <3>1. task[t].pc \in OwnMetrics
      BY <2>5 DEF WriteOwn
    <3>2. task'[t].pc = After(task[t].pc)
      BY <2>5, WriteOwnMoves DEF Moves
    <3>3. task'[t].pc \in {"last", "parse", "leaves", "invoked"} /\ task[t].pc # "spawned"
      BY <3>1, <3>2, AfterType DEF OwnMetrics
    <3> QED
      BY <1>2, <2>1, <2>5, <3>1, <3>3 DEF IsCounted, CounterOf
  <2>6. ASSUME task[t].pc \in {"parse", "forward", "leaves"},
               task'[t].pc \in {"forward", "done", "lastPayload", "leaves"}
        PROVE  IsCounted(t, src)' <=> IsCounted(t, src)
    BY <1>2, <2>1, <2>6 DEF IsCounted, CounterOf
  <2>7. CASE Parse(t)
    BY <2>6, <2>7, ParseCases DEF Moves
  <2>8. CASE Publish(t) \/ PublishSkipped(t)
    <3>1. task[t].pc = "forward" /\ AfterForward(t)
      BY <2>8 DEF Publish, PublishSkipped
    <3>2. task'[t].pc \in {"done", "lastPayload", "leaves"}
      BY <3>1, AfterForwardMoves DEF Moves
    <3> QED
      BY <2>6, <3>1, <3>2
  <2>9. CASE Finish(t)
    <3>1. task[t].pc = "leaves" /\ task'[t].pc = "done"
      BY <2>9, FinishMoves DEF Moves, Finish
    <3> QED
      BY <2>6, <3>1
  <2>10. ASSUME NEW l \in AllLeaves, RegisterLeaf(t, l) \/ WriteLeaf(t, l)
         PROVE  IsCounted(t, src)' <=> IsCounted(t, src)
    <3>1. task[t].pc = "leaves" /\ task'[t].pc = "leaves"
      BY <2>10, RegisterLeafMoves, WriteLeafMoves DEF Moves, RegisterLeaf, WriteLeaf
    <3> QED
      BY <2>6, <3>1
  <2> QED
    BY <2>1, <2>2, <2>3, <2>4, <2>5, <2>7, <2>8, <2>9, <2>10, OwnSteps
<1> QED
  BY <1>1, <1>2

(* The places of two sources' counters are apart. *)
LEMMA CountersApart ==
  ASSUME NEW src \in Sources, NEW other \in Sources, CounterOf(src) = CounterOf(other),
         OwnValues(src) = OwnValues(other)
  PROVE  src = other
<1>1. src.kind \in {"message", "run"} /\ other.kind \in {"message", "run"}
  BY SourceType
<1>2. src.kind = other.kind
  BY <1>1 DEF CounterOf
<1>3. CASE src.kind = "message"
  <2>1. src.device = other.device
    BY <1>2, <1>3 DEF OwnValues
  <2> QED
    BY <1>2, <1>3, <2>1, MessageSource
<1>4. CASE src.kind = "run"
  <2>1. src.device = other.device /\ src.id = other.id
    BY <1>2, <1>4 DEF OwnValues
  <2> QED
    BY <1>2, <1>4, <2>1, RunSource
<1> QED
  BY <1>1, <1>3, <1>4

LEMMA CountedStep ==
  ASSUME Inv, CountedOnce, Next
  PROVE  CountedOnce'
<1>1. /\ Types /\ Numbered /\ Staged /\ OwnAsWritten /\ GaugesAsReceived /\ RegisteredFirst
      /\ Beside /\ ~crashed
  BY NextCases DEF Inv
<1>2. CountedOnce' <=> (~crashed' => \A src \in Sources : CountedAt(src)')
  BY DEF CountedOnce, CountedAt, CountedTasks, IsCounted, CounterOf
<1>3. SUFFICES ASSUME NEW src \in Sources
               PROVE  CountedAt(src)'
  BY <1>2
<1> DEFINE m == CounterOf(src)
           vs == OwnValues(src)
<1>4. m \in {"received", "invocations"} /\ m \in Counters /\ m \in Metrics /\ m \notin Keys
  BY KeysApart DEF CounterOf, Counters
<1>5. vs \in Seq(Values)
  BY OwnType
<1>6. CountedAt(src)
  BY <1>1, CountedOnceIs
<1> HIDE DEF m, vs
<1>7. CASE ~\E t \in Tasks : WriteOwn(t) /\ task[t].src = src /\ task[t].pc = m
  <2>1. CountedTasks(src)' = CountedTasks(src)
    <3>1. \A t \in Tasks : IsCounted(t, src)' <=> IsCounted(t, src)
      BY <1>1, <1>7, CountedBySteps DEF m
    <3> QED
      BY <3>1 DEF CountedTasks
  <2>2. SampleAt(m, vs)' = SampleAt(m, vs)
    <3>1. ASSUME NEW k \in Metrics, NEW values \in Seq(Values), NEW v \in Nat, Write(k, values, v),
                 k # m \/ values # vs
          PROVE  SampleAt(m, vs)' = SampleAt(m, vs)
      <4> DEFINE new == [metric |-> k, values |-> values, value |-> NewValue(k, values, v)]
      <4>1. samples' = samples \/ samples' = (samples \ SampleAt(k, values)) \cup {new}
        BY <1>1, <3>1, WriteEffect
      <4>2. new.metric = k /\ new.values = values
        OBVIOUS
      <4> HIDE DEF new
      <4> QED
        BY <3>1, <4>1, <4>2 DEF SampleAt
    <3>2. ASSUME NEW t \in Tasks, WriteOwn(t) PROVE SampleAt(m, vs)' = SampleAt(m, vs)
      <4>1. /\ task[t] \in TaskRecords /\ task[t].src \in Sources /\ task[t].pc \in Metrics
            /\ task[t].time \in Nat /\ OwnValues(task[t].src) \in Seq(Values)
            /\ Write(task[t].pc, OwnValues(task[t].src), task[t].time)
        BY <1>1, <3>2, WriteOwnCall
      <4>2. task[t].pc # m \/ OwnValues(task[t].src) # vs
        <5>1. SUFFICES ASSUME task[t].pc = m, OwnValues(task[t].src) = vs PROVE FALSE
          OBVIOUS
        <5>2. StagedTask(task[t]) /\ task[t].src.kind \in {"message", "run"}
          BY <1>1, <4>1, StagedOf
        <5>3. CounterOf(task[t].src) = m
          BY <1>4, <5>1, <5>2 DEF StagedTask, MessageMetrics, RunMetrics, CounterOf
        <5>4. task[t].src = src
          BY <4>1, <5>1, <5>3, CountersApart DEF m, vs
        <5> QED
          BY <1>7, <3>2, <5>1, <5>4
      <4> QED
        BY <3>1, <4>1, <4>2
    <3>3. ASSUME NEW t \in Tasks, NEW l \in AllLeaves, WriteLeaf(t, l)
          PROVE  SampleAt(m, vs)' = SampleAt(m, vs)
      <4>1. /\ l.key \in Keys /\ l.key \in Metrics /\ task[t].number \in Nat
            /\ \E values \in Seq(Values) : Write(l.key, values, task[t].number)
        BY <1>1, <3>3, WriteLeafCall
      <4> QED
        BY <1>4, <3>1, <4>1
    <3>4. samples' = samples \/ (\E t \in Tasks : WriteOwn(t))
                             \/ (\E t \in Tasks, l \in AllLeaves : WriteLeaf(t, l))
      BY <1>1, NextCases
         DEF Spawn, Begin, RegisterOwn, Parse, Publish, Deliver, Take, PublishSkipped, Finish, RegisterLeaf,
             ForwardConnect, ForwardLost, prometheus
    <3>5. CASE samples' = samples
      BY <3>5 DEF SampleAt
    <3> QED
      BY <3>2, <3>3, <3>4, <3>5
  <2> QED
    BY <1>6, <2>1, <2>2 DEF CountedAt, m, vs
<1>8. CASE \E t \in Tasks : WriteOwn(t) /\ task[t].src = src /\ task[t].pc = m
  <2>1. PICK t \in Tasks : WriteOwn(t) /\ task[t].src = src /\ task[t].pc = m
    BY <1>8
  <2>2. /\ ~IsCounted(t, src) /\ IsCounted(t, src)'
        /\ \A u \in Tasks \ {t} : IsCounted(u, src)' <=> IsCounted(u, src)
    <3>1. ~IsCounted(t, src)
      BY <2>1 DEF IsCounted, m
    <3>2. \A u \in Tasks \ {t} : task'[u] = task[u]
      BY <1>1, <2>1, WriteOwnMoves DEF Moves
    <3>3. /\ task'[t].pc = After(m) /\ After(m) \in {"last", "invoked"}
          /\ task'[t].src = task[t].src
      BY <1>1, <1>4, <2>1, WriteOwnMoves, AfterType DEF Moves, OwnMetrics
    <3>4. IsCounted(t, src)'
      BY <1>4, <2>1, <3>3 DEF IsCounted, m, Known
    <3> QED
      BY <3>1, <3>2, <3>4 DEF IsCounted, Known
  <2>3. CountedTasks(src)' = CountedTasks(src) \cup {t} /\ t \notin CountedTasks(src)
    BY <2>2 DEF CountedTasks
  <2>4. /\ IsFiniteSet(CountedTasks(src)) /\ Cardinality(CountedTasks(src)) \in Nat
        /\ Cardinality(CountedTasks(src)') = Cardinality(CountedTasks(src)) + 1
        /\ CountedTasks(src) = {} => Cardinality(CountedTasks(src)) = 0
    <3>1. IsFiniteSet(CountedTasks(src))
      BY MetricsAssumption, FS_Subset DEF CountedTasks
    <3> QED
      BY <2>3, <3>1, FS_AddElement, FS_CardinalityType, FS_EmptySet
  <2>5. /\ Write(m, vs, task[t].time) /\ task[t].time \in Nat
        /\ Len(vs) = Len(labels[m]) /\ labels[m] # <<>>
    BY <1>1, <2>1, WriteOwnCall, OwnFits DEF vs
  <2>6. samples' = (samples \ SampleAt(m, vs))
                     \cup {[metric |-> m, values |-> vs, value |-> NewValue(m, vs, task[t].time)]}
    BY <1>1, <1>4, <1>5, <2>5, WriteEffect
  <2>7. NewValue(m, vs, task[t].time) = Cardinality(CountedTasks(src)')
    <3>1. CASE CountedTasks(src) = {}
      <4>1. SampleAt(m, vs) = {}
        BY <1>6, <3>1 DEF CountedAt, m, vs
      <4> QED
        BY <1>4, <2>4, <3>1, <4>1 DEF NewValue
    <3>2. CASE CountedTasks(src) # {}
      <4>1. {s.value : s \in SampleAt(m, vs)} = {Cardinality(CountedTasks(src))}
        BY <1>6, <3>2 DEF CountedAt, m, vs
      <4>2. SampleAt(m, vs) # {}
        BY <4>1
      <4>3. PICK c : c = CHOOSE s \in SampleAt(m, vs) : TRUE
        OBVIOUS
      <4>4. c \in SampleAt(m, vs)
        BY <4>2, <4>3
      <4>5. c.value = Cardinality(CountedTasks(src))
        BY <4>1, <4>4
      <4>6. NewValue(m, vs, task[t].time) = 1 + c.value
        BY <1>4, <4>2, <4>3 DEF NewValue
      <4> QED
        BY <2>4, <4>5, <4>6
    <3> QED
      BY <3>1, <3>2
  <2>8. {s.value : s \in SampleAt(m, vs)'} = {Cardinality(CountedTasks(src)')}
    <3>1. PICK n : n = [metric |-> m, values |-> vs, value |-> NewValue(m, vs, task[t].time)]
      OBVIOUS
    <3>2. n.metric = m /\ n.values = vs /\ n.value = Cardinality(CountedTasks(src)')
      BY <2>7, <3>1
    <3>3. SampleAt(m, vs)' = {n}
      BY <2>6, <3>1, <3>2 DEF SampleAt
    <3> QED
      BY <3>2, <3>3
  <2> QED
    BY <2>3, <2>8 DEF CountedAt, m, vs
<1> QED
  BY <1>7, <1>8

(* Messages and runs are counted, none twice, for every number of them and  *)
(* however they interleave.                                                 *)
THEOREM EachIsCounted == Spec => []CountedOnce
<1>1. Init => CountedOnce
  <2>1. ASSUME Init, NEW src \in Sources PROVE CountedAt(src)
    BY <2>1 DEF Init, CountedAt, CountedTasks, IsCounted, SampleAt, Known, Idle
  <2> QED
    BY <2>1, CountedOnceIs
<1>2. Inv /\ CountedOnce /\ [Next]_vars => CountedOnce'
  <2>1. ASSUME CountedOnce, UNCHANGED vars PROVE CountedOnce'
    BY <2>1 DEF CountedOnce, SampleAt, Known, vars, prometheus
  <2> QED
    BY <2>1, CountedStep
<1> QED
  BY <1>1, <1>2, Invariance, PTL DEF Spec
-----------------------------------------------------------------------------
(* The parser                                                               *)

LEMMA PathsAreSteps ==
  ASSUME NEW p \in Paths
  PROVE  \E k \in Nat : k # 0 /\ p \in [1..k -> Steps] /\ p[1].of = "object"
<1>1. p \in SeqOf(Steps, MaxDepth) /\ p # <<>> /\ p[1].of = "object"
  BY DEF Paths
<1>2. PICK k \in 0..MaxDepth : p \in [1..k -> Steps]
  BY <1>1 DEF SeqOf
<1>3. k \in Nat
  <2>1. MaxDepth \in Nat
    BY ParserAssumption, Zenon
  <2> QED
    BY <1>2, <2>1
<1>4. k # 0
  <2>1. ASSUME k = 0 PROVE p = <<>>
    BY <1>2, <2>1
  <2> QED
    BY <1>1, <2>1
<1> QED
  BY <1>1, <1>2, <1>3, <1>4

LEMMA PlainPathsAreParsed == ParsedAsDocumented
<1>1. ASSUME NEW q \in ParsedPaths, Plain(q.path), NoListInList(q.path)
      PROVE  q.parsed = Expected(q.path)
  <2>1. PICK p \in Paths : q = [path |-> p, parsed |-> Parsed(p)]
    BY <1>1, Zenon DEF ParsedPaths
  <2>2. q.path = p /\ q.parsed = Parsed(p)
    BY <2>1
  <2>3. PICK k \in Nat : k # 0 /\ p \in [1..k -> Steps] /\ p[1].of = "object"
    BY PathsAreSteps, Zenon
  <2>4. Plain(p) /\ NoListInList(p)
    BY <1>1, <2>2, Zenon
  <2>5. Parsed(p) = Expected(p)
    BY <2>3, <2>4, PlainIsParsed, Zenon
  <2> QED
    BY <2>2, <2>5, Zenon
<1> QED
  BY <1>1, Zenon DEF ParsedAsDocumented

(* Whatever is nested in what, and however deep, a number gets the names on *)
(* its path as key and its positions as indices, unless a list is directly  *)
(* in a list or a name has underscores or numerals like those of a          *)
(* position (ecoflow_parser.go:22-52).                                      *)
THEOREM PlainAsDocumented == Spec => []ParsedAsDocumented
  BY PlainPathsAreParsed, PTL
=============================================================================
