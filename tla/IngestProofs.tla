---------------------------- MODULE IngestProofs ----------------------------
(***************************************************************************)
(* Proofs about Ingest, for any finite set of PVs, any capacities and any  *)
(* bounds: the types, EveryUpdateCounted, RowsInOrder and HeartbeatRepeats;*)
(* and about Metadata, for any types: MetadataFollows.                     *)
(***************************************************************************)
EXTENDS Ingest, Metadata, TLAPS, FiniteSetTheorems

-----------------------------------------------------------------------------
(* Sequences.                                                              *)

LEMMA AppendFacts ==
  ASSUME NEW S, NEW s \in Seq(S), NEW e \in S
  PROVE  /\ Append(s, e) \in Seq(S) /\ Len(Append(s, e)) = Len(s) + 1
         /\ \A i \in 1..Len(s) : Append(s, e)[i] = s[i]
         /\ Append(s, e)[Len(s) + 1] = e
         /\ Len(s) \in Nat
OBVIOUS

LEMMA TailFacts ==
  ASSUME NEW S, NEW s \in Seq(S), s # << >>
  PROVE  /\ Head(s) \in S /\ Head(s) = s[1] /\ Tail(s) \in Seq(S)
         /\ Len(s) \in Nat \ {0} /\ Len(Tail(s)) = Len(s) - 1
         /\ \A i \in 1..(Len(s) - 1) : Tail(s)[i] = s[i + 1]
OBVIOUS

LEMMA ConcatFacts ==
  ASSUME NEW S, NEW s \in Seq(S), NEW t \in Seq(S)
  PROVE  /\ s \o t \in Seq(S) /\ Len(s \o t) = Len(s) + Len(t)
         /\ Len(s) \in Nat /\ Len(t) \in Nat
         /\ \A i \in 1..Len(s) : (s \o t)[i] = s[i]
         /\ \A i \in 1..Len(t) : (s \o t)[Len(s) + i] = t[i]
OBVIOUS

\* The scan's order lists the firing PVs and nothing else.
LEMMA FiringListed ==
  /\ SetToSeq(Firing) \in Seq(Firing)
  /\ Len(SetToSeq(Firing)) \in Nat
  /\ \A i \in 1..Len(SetToSeq(Firing)) : SetToSeq(Firing)[i] \in Firing
<1>1. IsFiniteSet(Firing)
  <2>1. Firing \in SUBSET PVs /\ IsFiniteSet(PVs)
    BY IngestAssumption DEF Firing, Watched
  <2> QED
    BY <2>1, FS_Subset
<1>2. Cardinality(Firing) \in Nat /\ ExistsBijection(1..Cardinality(Firing), Firing)
  BY <1>1, FS_CardinalityType
<1> DEFINE n == Cardinality(Firing)
           F == Firing
<1> HIDE DEF n, F
<1>3. PICK f \in [1..n -> F] : \A a, b \in 1..n : f[a] = f[b] => a = b
  BY <1>2 DEF n, F, ExistsBijection, Bijection, Injection, Surjection, IsInjective
<1>4. \E g \in [1..n -> F] : IsInjective(g)
  BY <1>3 DEF IsInjective
<1>5. SetToSeq(F) \in [1..n -> F]
  BY <1>4 DEF SetToSeq, n, F
<1>6. n \in Nat
  BY <1>2 DEF n
<1>7. SetToSeq(F) \in Seq(F) /\ Len(SetToSeq(F)) = n
  BY <1>5, <1>6
<1> QED
  BY <1>5, <1>6, <1>7 DEF F

-----------------------------------------------------------------------------
(* Types.                                                                  *)

\* What the heartbeat scan reads and writes is typed.
LEMMA ScanTyped ==
  ASSUME TypeOK
  PROVE  /\ \A p \in PVs : Reloaded[p] \in Beats
         /\ Override \in BOOLEAN
         /\ \A p \in Firing : p \in PVs /\ Heartbeat(p) \in Row /\ beat[p].severity >= 0
<1>1. \A p \in PVs : Reloaded[p] \in Beats
  BY DEF TypeOK, Reloaded, Entry
<1>2. Override \in BOOLEAN
  BY DEF TypeOK, Override
<1>3. \A p \in Firing : p \in PVs /\ Heartbeat(p) \in Row /\ beat[p].severity >= 0
  BY DEF TypeOK, Firing, Watched, Heartbeat, Row, Entry
<1> QED
  BY <1>1, <1>2, <1>3

\* The rows a scan offers.
Beating == [i \in 1..Len(SetToSeq(Firing)) |-> Heartbeat(SetToSeq(Firing)[i])]

LEMMA BeatingTyped ==
  ASSUME TypeOK
  PROVE  /\ Beating \in Seq(Row) /\ Len(Beating) = Len(SetToSeq(Firing))
         /\ \A i \in 1..Len(Beating) :
               \E p \in Firing : Beating[i] = Heartbeat(p)
<1> DEFINE q == SetToSeq(Firing)
<1>1. Len(q) \in Nat /\ \A i \in 1..Len(q) : q[i] \in Firing
  BY FiringListed
<1>2. \A p \in Firing : Heartbeat(p) \in Row
  BY ScanTyped
<1>3. Beating = [i \in 1..Len(q) |-> Heartbeat(q[i])]
  BY DEF Beating
<1> HIDE DEF q
<1>4. Beating \in [1..Len(q) -> Row]
  BY <1>1, <1>2, <1>3
<1>5. Beating \in Seq(Row) /\ Len(Beating) = Len(q)
  BY <1>1, <1>4
<1> QED
  BY <1>1, <1>3, <1>5 DEF q

\* The sessions' and the main loop's actions but MonitorUpdate, and the clock.
Quiet == \/ \E p \in PVs : MonitorRemoved(p) \/ MonitorRestored(p)
         \/ SessionsClosed \/ MainLoop \/ Tick

LEMMA OpsTyped == TypeOK /\ ops < MaxOps /\ ops' = ops + 1 => ops' \in 0..MaxOps
BY IngestAssumption DEF TypeOK

LEMMA MainTyped ==
  ASSUME TypeOK, NEW p \in PVs \cup {Nobody},
         NEW pc \in {"idle", "subscribe", "refresh", "forget", "closing", "joining",
                     "joined"},
         MainStep(pc, p)
  PROVE  main' \in Main /\ main'.pc = pc /\ main'.pv = p
BY DEF TypeOK, MainStep, Main

LEMMA QuietTyped == TypeOK /\ Quiet => TypeOK'
<1> SUFFICES ASSUME TypeOK, Quiet PROVE TypeOK'
  OBVIOUS
<1>1. ASSUME NEW p \in PVs, MonitorRemoved(p) PROVE TypeOK'
  BY <1>1 DEF MonitorRemoved, TypeOK, NoMonitor, Monitor
<1>2. ASSUME NEW p \in PVs, MonitorRestored(p) PROVE TypeOK'
  BY <1>2 DEF MonitorRestored, TypeOK, NewMonitor, Monitor
<1>3. CASE SessionsClosed
  BY <1>3 DEF SessionsClosed, TypeOK, NoMonitor, Monitor
<1>4. CASE Tick
  BY <1>4, IngestAssumption DEF Tick, TypeOK
<1>5. ASSUME NEW p \in PVs, PreRegister(p) PROVE TypeOK'
  <2>1. main' \in Main /\ main'.pv = p
    BY <1>5, MainTyped DEF PreRegister
  <2>2. ops' \in 0..MaxOps
    BY <1>5, OpsTyped DEF PreRegister
  <2> QED
    BY <1>5, <2>1, <2>2 DEF PreRegister, TypeOK
<1>6. ASSUME NEW p \in PVs, UnsubscribeSend(p) PROVE TypeOK'
  <2>1. monitors' \in [PVs -> Monitor]
    BY <1>6 DEF UnsubscribeSend, TypeOK, Monitor
  <2>2. main' \in Main /\ main'.pv = p
    BY <1>6, MainTyped DEF UnsubscribeSend
  <2>3. ops' \in 0..MaxOps
    BY <1>6, OpsTyped DEF UnsubscribeSend
  <2> QED
    BY <1>6, <2>1, <2>2, <2>3 DEF UnsubscribeSend, TypeOK
<1>7. ASSUME NEW lazy \in BOOLEAN, SubscribeOk(lazy) PROVE TypeOK'
  <2>1. NewMonitor(lazy) \in Monitor
    BY DEF NewMonitor, Monitor
  <2>2. monitors' \in [PVs -> Monitor]
    BY <1>7, <2>1 DEF SubscribeOk, TypeOK
  <2>3. main' \in Main /\ main'.pv \in PVs
    BY <1>7 DEF SubscribeOk, TypeOK, MainStep, Main
  <2> QED
    BY <1>7, <2>2, <2>3 DEF SubscribeOk, TypeOK
<1>8. CASE SubscribeFailed \/ ShutdownSessions \/ JoinIngest
  BY <1>8 DEF SubscribeFailed, ShutdownSessions, JoinIngest, TypeOK, MainStep, Main
<1>9. CASE RefreshCache
  BY <1>9 DEF RefreshCache, TypeOK, MainStep, Main
<1>10. CASE ForgetName
  BY <1>10 DEF ForgetName, TypeOK, MainStep, Main
<1>11. CASE ReloadConfig
  <2>1. PICK S \in SUBSET PVs : \E beats \in [S -> Beats] : \E seen \in BOOLEAN :
          heartbeat_config' = [beats |-> beats, seen |-> seen]
    BY <1>11 DEF ReloadConfig, TypeOK
  <2>2. heartbeat_config' \in [beats : UNION {[T -> Beats] : T \in SUBSET PVs},
                              seen : BOOLEAN]
    BY <2>1
  <2>3. ops' \in 0..MaxOps
    BY <1>11, IngestAssumption DEF ReloadConfig, TypeOK
  <2> QED
    BY <1>11, <2>2, <2>3 DEF ReloadConfig, TypeOK
<1>12. CASE StopIngest
  BY <1>12 DEF StopIngest, TypeOK, MainStep, Main
<1> QED
  BY <1>1, <1>2, <1>3, <1>4, <1>5, <1>6, <1>7, <1>8, <1>9, <1>10, <1>11, <1>12
     DEF Quiet, MainLoop


LEMMA UpdateTyped ==
  ASSUME TypeOK, NEW p \in PVs, NEW full \in BOOLEAN, NEW bits \in SUBSET FieldGroups,
         MonitorUpdate(p, full, bits)
  PROVE  TypeOK'
<1> DEFINE m == monitors[p]
           id == m.id \/ (m.lazy /\ p \in pv_cache)
           e == [pv |-> p, n |-> sent + 1, id |-> id, kind |-> Kind(p, full, bits),
                 converts |-> Converts(p, full, bits)]
<1>1. id \in BOOLEAN
  BY DEF TypeOK, Monitor
<1>2. Kind(p, full, bits) \in {"scalar", "string", "array", "value"}
  BY DEF Kind
<1>3. Converts(p, full, bits) \in BOOLEAN
  BY DEF Converts
<1>4. /\ sent < MaxUpdates /\ SendToShard(e) /\ sent' = sent + 1
      /\ monitors' = [monitors EXCEPT ![p].started = TRUE, ![p].id = id]
      /\ UNCHANGED << pv_cache, heartbeat_config, main, shutdown, shard,
                      beat, tracker, rows, ops, ticks >>
  BY DEF MonitorUpdate
<1>5. sent + 1 \in Update /\ sent' \in 0..MaxUpdates
  BY <1>4, IngestAssumption DEF TypeOK, Update
<1> HIDE DEF id
<1>6. e \in TaggedEvent
  BY <1>1, <1>2, <1>3, <1>5 DEF TaggedEvent
<1>7. monitors' \in [PVs -> Monitor]
  BY <1>1, <1>4 DEF TypeOK, Monitor
<1> HIDE DEF e
<1>8. /\ bus' \in Seq(TaggedEvent) /\ Len(bus') <= BusCap /\ metrics' \in Counters
  <2>1. bus \in Seq(TaggedEvent) /\ Len(bus) <= BusCap /\ BusCap \in Nat
    BY IngestAssumption DEF TypeOK
  <2>2. CASE Len(bus) < BusCap /\ bus' = Append(bus, e) /\ UNCHANGED metrics
    <3>1. /\ Append(bus, e) \in Seq(TaggedEvent) /\ Len(Append(bus, e)) = Len(bus) + 1
          /\ Len(bus) \in Nat
      BY <1>6, <2>1, AppendFacts
    <3> QED
      BY <2>1, <2>2, <3>1 DEF TypeOK
  <2>3. CASE metrics' = [metrics EXCEPT !.dropped = @ + 1] /\ UNCHANGED bus
    BY <2>1, <2>3 DEF TypeOK, Counters
  <2> QED
    BY <1>4, <2>2, <2>3 DEF SendToShard
<1> QED
  BY <1>4, <1>5, <1>7, <1>8 DEF TypeOK

\* The fields a shard keeps, apart from its batch.
LEMMA ShardKeeps ==
  ASSUME TypeOK, shard' \in Shard, Len(shard'.batch) <= DrainMax,
         UNCHANGED << monitors, pv_cache, heartbeat_config, main, shutdown, tracker,
                      sent, ops, ticks >>,
         bus' \in Seq(TaggedEvent), Len(bus') <= BusCap, beat' \in [PVs -> Entry],
         metrics' \in Counters, rows' \in Seq(Row)
  PROVE  TypeOK'
BY DEF TypeOK

LEMMA BatchFacts ==
  ASSUME TypeOK, Working
  PROVE  /\ Event \in TaggedEvent /\ Event = shard.batch[1]
         /\ shard.batch \in Seq(TaggedEvent)
         /\ Tail(shard.batch) \in Seq(TaggedEvent)
         /\ Len(shard.batch) \in Nat \ {0}
         /\ Len(Tail(shard.batch)) = Len(shard.batch) - 1
         /\ \A i \in 1..(Len(shard.batch) - 1) : Tail(shard.batch)[i] = shard.batch[i + 1]
<1>1. shard.batch \in Seq(TaggedEvent) /\ shard.batch # << >>
  BY DEF TypeOK, Shard, Working
<1> QED
  BY <1>1, TailFacts DEF Event

\* The steps that take one event from the batch.
Take == DropUnknown \/ ProcessScalarDelta \/ ProcessOtherDelta \/ ProcessValue

\* What such a step does: it offers a row and, on the scalar path, records it,
\* or counts the event.
LEMMA TakeEffect ==
  ASSUME TypeOK, Take
  PROVE  /\ Working /\ shard'.batch = Tail(shard.batch) /\ shard' \in Shard
         /\ UNCHANGED << Outside, bus, heartbeat_config, tracker, metrics >>
         /\ \/ /\ \E via \in {"scalar", "string", "array", "value"} :
                     /\ Offer(via)
                     /\ \/ via = "scalar" /\ RecordStore
                        \/ via # "scalar" /\ beat' = beat
               /\ shard'.skipped = shard.skipped /\ shard'.unknown = shard.unknown
            \/ /\ UNCHANGED << rows, beat >>
               /\ shard'.skipped + shard'.unknown = shard.skipped + shard.unknown + 1
<1>1. Working
  BY DEF Take, DropUnknown, ProcessScalarDelta, ProcessOtherDelta, ProcessValue
<1>2. Tail(shard.batch) \in Seq(TaggedEvent) /\ Event \in TaggedEvent
  BY <1>1, BatchFacts
<1>3. shard \in Shard
  BY DEF TypeOK
<1>4. ASSUME NEW c \in Shard, c.batch = shard.batch, Pop(c)
      PROVE  /\ shard' \in Shard /\ shard'.batch = Tail(shard.batch)
             /\ shard'.skipped = c.skipped /\ shard'.unknown = c.unknown
  BY <1>2, <1>4 DEF Pop, Shard
<1>5. CASE DropUnknown
  <2> DEFINE c == [shard EXCEPT !.unknown = @ + 1]
  <2>1. c \in Shard /\ c.batch = shard.batch /\ c.skipped = shard.skipped
        /\ c.unknown = shard.unknown + 1
    BY <1>3 DEF Shard
  <2>2. Pop(c) /\ UNCHANGED << Outside, bus, heartbeat_config, beat, tracker, metrics, rows >>
    BY <1>5 DEF DropUnknown
  <2>3. shard.skipped \in Nat /\ shard.unknown \in Nat
    BY <1>3 DEF Shard
  <2> HIDE DEF c
  <2> QED
    BY <1>1, <1>4, <2>1, <2>2, <2>3
<1>6. CASE ProcessScalarDelta
  <2> DEFINE c == [shard EXCEPT !.fast = @ + 1]
  <2>1. c \in Shard /\ c.batch = shard.batch /\ c.skipped = shard.skipped
        /\ c.unknown = shard.unknown
    BY <1>3 DEF Shard
  <2>2. /\ Pop(c) /\ Offer("scalar") /\ RecordStore
        /\ UNCHANGED << Outside, bus, heartbeat_config, tracker, metrics >>
    BY <1>6 DEF ProcessScalarDelta
  <2> HIDE DEF c
  <2> QED
    BY <1>1, <1>4, <2>1, <2>2
<1>7. CASE ProcessOtherDelta
  <2> DEFINE c == [shard EXCEPT !.fast = @ + 1]
  <2>1. c \in Shard /\ c.batch = shard.batch /\ c.skipped = shard.skipped
        /\ c.unknown = shard.unknown
    BY <1>3 DEF Shard
  <2>2. /\ Pop(c) /\ Offer(Event.kind) /\ Event.kind \in {"string", "array"}
        /\ UNCHANGED << Outside, bus, heartbeat_config, beat, tracker, metrics >>
    BY <1>7 DEF ProcessOtherDelta
  <2> HIDE DEF c
  <2> QED
    BY <1>1, <1>4, <2>1, <2>2
<1>8. CASE ProcessValue
  <2> DEFINE a == IF Sampled THEN shard.skipped ELSE shard.skipped + 1
             b == IF Sampled /\ ~Resolved THEN shard.unknown + 1 ELSE shard.unknown
             c == [shard EXCEPT !.slow = @ + 1,
                     !.skipped = IF Sampled THEN @ ELSE @ + 1,
                     !.unknown = IF Sampled /\ ~Resolved THEN @ + 1 ELSE @]
             slow == shard.slow + 1
             d == [shard EXCEPT !.slow = slow, !.skipped = a, !.unknown = b]
  <2>1. /\ c \in Shard /\ c.batch = shard.batch
        /\ c.skipped = IF Sampled THEN shard.skipped ELSE shard.skipped + 1
        /\ c.unknown = IF Sampled /\ ~Resolved THEN shard.unknown + 1 ELSE shard.unknown
    <3>1. c = d
      OBVIOUS
    <3>2. a \in Nat /\ b \in Nat /\ slow \in Nat
      <4>1. shard.skipped \in Nat /\ shard.unknown \in Nat /\ shard.slow \in Nat
        BY <1>3 DEF Shard
      <4> QED
        BY <4>1
    <3> HIDE DEF a, b, c, slow
    <3>3. d \in Shard /\ d.batch = shard.batch /\ d.skipped = a /\ d.unknown = b
      BY <1>3, <3>2 DEF Shard
    <3> QED
      BY <3>1, <3>3 DEF a, b
  <2>2. /\ Pop(c) /\ IF Sampled /\ Resolved THEN Offer("value") ELSE UNCHANGED rows
        /\ UNCHANGED << Outside, bus, heartbeat_config, beat, tracker, metrics >>
    BY <1>8 DEF ProcessValue
  <2>3. shard.skipped \in Nat /\ shard.unknown \in Nat
    BY <1>3 DEF Shard
  <2> HIDE DEF c
  <2>4. CASE Sampled /\ Resolved
    BY <1>1, <1>4, <2>1, <2>2, <2>4
  <2>5. CASE ~(Sampled /\ Resolved)
    <3>1. c.skipped + c.unknown = shard.skipped + shard.unknown + 1
      BY <2>1, <2>3, <2>5
    <3> QED
      BY <1>1, <1>4, <2>1, <2>2, <2>5, <3>1
  <2> QED
    BY <2>4, <2>5
<1> QED
  BY <1>5, <1>6, <1>7, <1>8 DEF Take

LEMMA OfferTyped ==
  ASSUME TypeOK, Working, NEW via \in {"scalar", "string", "array", "value"}, Offer(via)
  PROVE  /\ rows' \in Seq(Row) /\ Len(rows') = Len(rows) + 1 /\ Len(rows) \in Nat
         /\ \A i \in 1..Len(rows) : rows'[i] = rows[i]
         /\ rows'[Len(rows) + 1].pv = Event.pv /\ rows'[Len(rows) + 1].n = Event.n
         /\ rows'[Len(rows) + 1].via = via
<1> DEFINE r == [pv |-> Event.pv, n |-> Event.n, via |-> via]
<1>1. Event \in TaggedEvent
  BY BatchFacts
<1>2. r \in Row /\ r.pv = Event.pv /\ r.n = Event.n /\ r.via = via
  BY <1>1 DEF TaggedEvent, Row
<1>3. rows \in Seq(Row) /\ rows' = Append(rows, r)
  BY DEF TypeOK, Offer
<1> HIDE DEF r
<1> QED
  BY <1>2, <1>3, AppendFacts

LEMMA TakeTyped == TypeOK /\ Take => TypeOK'
<1> SUFFICES ASSUME TypeOK, Take PROVE TypeOK'
  OBVIOUS
<1>1. /\ Working /\ shard'.batch = Tail(shard.batch) /\ shard' \in Shard
      /\ UNCHANGED << Outside, bus, heartbeat_config, tracker, metrics >>
  BY TakeEffect
<1>2. Len(shard'.batch) <= DrainMax
  BY <1>1, BatchFacts, IngestAssumption DEF TypeOK
<1>3. Event \in TaggedEvent /\ shard.now \in Nat
  BY <1>1, BatchFacts DEF TypeOK, Shard
<1>4. RecordStore => beat' \in [PVs -> Entry]
  <2> SUFFICES ASSUME RecordStore PROVE beat' \in [PVs -> Entry]
    OBVIOUS
  <2>1. Event.pv \in PVs /\ Event.n \in Update \cup {0}
    BY <1>3 DEF TaggedEvent
  <2>2. /\ DOMAIN beat' = PVs
        /\ \A p \in PVs : p # Event.pv => beat'[p] = beat[p]
        /\ beat'[Event.pv] = [beat[Event.pv] EXCEPT !.n = Event.n, !.severity = 0,
                                                    !.last_store_at = shard.now]
    BY <2>1 DEF RecordStore, TypeOK
  <2>3. beat \in [PVs -> Entry]
    BY DEF TypeOK
  <2>4. beat'[Event.pv] \in Entry
    BY <1>3, <2>1, <2>2, <2>3 DEF Entry
  <2>5. beat' = [p \in PVs |-> beat'[p]]
    BY <2>2, <2>3 DEF RecordStore
  <2> QED
    BY <2>2, <2>3, <2>4, <2>5
<1>5. rows' \in Seq(Row) /\ beat' \in [PVs -> Entry]
  <2>1. CASE \E via \in {"scalar", "string", "array", "value"} :
               Offer(via) /\ (RecordStore \/ beat' = beat)
    BY <1>1, <1>4, <2>1, OfferTyped DEF TypeOK
  <2>2. CASE UNCHANGED << rows, beat >>
    BY <2>2 DEF TypeOK
  <2> QED
    BY <2>1, <2>2, TakeEffect
<1> QED
  BY <1>1, <1>2, <1>5, ShardKeeps DEF Outside, TypeOK

LEMMA RecvFacts ==
  ASSUME TypeOK, Recv
  PROVE  /\ bus \in Seq(TaggedEvent) /\ shard.batch \in Seq(TaggedEvent)
         /\ bus' \in Seq(TaggedEvent) /\ shard'.batch \in Seq(TaggedEvent)
         /\ Len(bus) \in Nat \ {0} /\ Len(shard.batch) \in Nat
         /\ Len(bus') = Len(bus) - 1 /\ Len(shard'.batch) = Len(shard.batch) + 1
         /\ \A i \in 1..(Len(bus) - 1) : bus'[i] = bus[i + 1]
         /\ \A i \in 1..Len(shard.batch) : shard'.batch[i] = shard.batch[i]
         /\ shard'.batch[Len(shard.batch) + 1] = bus[1]
         /\ shard' \in Shard /\ Len(shard.batch) < DrainMax
         /\ shard'.pc = shard.pc /\ shard.pc # "done"
         /\ shard'.discarded = shard.discarded
         /\ shard'.skipped = shard.skipped /\ shard'.unknown = shard.unknown
         /\ UNCHANGED << Outside, heartbeat_config, beat, tracker, metrics, rows >>
<1>1. /\ shard \in Shard /\ bus # << >> /\ bus \in Seq(TaggedEvent) /\ bus' = Tail(bus)
      /\ shard' = [shard EXCEPT !.batch = Append(@, Head(bus))]
      /\ Len(shard.batch) < DrainMax /\ shard.pc # "done"
      /\ UNCHANGED << Outside, heartbeat_config, beat, tracker, metrics, rows >>
  BY DEF Recv, TypeOK
<1>2. shard.batch \in Seq(TaggedEvent)
  BY <1>1 DEF Shard
<1>3. /\ Head(bus) \in TaggedEvent /\ Head(bus) = bus[1] /\ Tail(bus) \in Seq(TaggedEvent)
      /\ Len(bus) \in Nat \ {0} /\ Len(Tail(bus)) = Len(bus) - 1
      /\ \A i \in 1..(Len(bus) - 1) : Tail(bus)[i] = bus[i + 1]
  BY <1>1, TailFacts
<1> DEFINE b == Append(shard.batch, Head(bus))
<1>4. /\ b \in Seq(TaggedEvent) /\ Len(b) = Len(shard.batch) + 1
      /\ \A i \in 1..Len(shard.batch) : b[i] = shard.batch[i]
      /\ b[Len(shard.batch) + 1] = Head(bus)
      /\ Len(shard.batch) \in Nat
  BY <1>2, <1>3, AppendFacts
<1>5. shard' = [shard EXCEPT !.batch = b]
  BY <1>1
<1> HIDE DEF b
<1>6. /\ shard' \in Shard /\ shard'.batch = b
      /\ shard'.pc = shard.pc /\ shard'.discarded = shard.discarded
      /\ shard'.skipped = shard.skipped /\ shard'.unknown = shard.unknown
  BY <1>1, <1>4, <1>5 DEF Shard
<1> QED
  BY <1>1, <1>2, <1>3, <1>4, <1>6

\* The steps of an iteration that leave the batch, the rows and the tracker.
Phase == DrainEnd \/ (Idle /\ ~Ends) \/ Tally

LEMMA PhaseFacts ==
  ASSUME TypeOK, Phase
  PROVE  /\ shard' \in Shard /\ shard'.batch = shard.batch
         /\ shard'.discarded = shard.discarded
         /\ shard.pc # "done" /\ shard'.pc # "done"
         /\ metrics' \in Counters /\ metrics'.dropped = metrics.dropped
         /\ metrics'.skipped + shard'.skipped = metrics.skipped + shard.skipped
         /\ metrics'.unknown + shard'.unknown = metrics.unknown + shard.unknown
         /\ UNCHANGED << Outside, bus, heartbeat_config, beat, tracker, rows >>
<1>1. shard \in Shard /\ metrics \in Counters /\ ticks \in Nat /\ pv_cache \subseteq PVs
  BY IngestAssumption DEF TypeOK
<1>2. CASE DrainEnd
  BY <1>1, <1>2 DEF DrainEnd, Shard
<1>3. CASE Idle /\ ~Ends
  BY <1>1, <1>3 DEF Idle, Shard
<1>4. CASE Tally
  <2>1. /\ shard.skipped \in Nat /\ shard.unknown \in Nat
        /\ metrics.skipped \in Nat /\ metrics.unknown \in Nat
    BY <1>1 DEF Shard, Counters
  <2>2. /\ shard' \in Shard /\ shard'.batch = shard.batch
        /\ shard'.discarded = shard.discarded
        /\ shard.pc # "done" /\ shard'.pc # "done"
        /\ shard'.skipped = 0 /\ shard'.unknown = 0
    BY <1>1, <1>4 DEF Tally, Shard
  <2>3. metrics' = [metrics EXCEPT !.skipped = @ + shard.skipped,
                                   !.unknown = @ + shard.unknown]
    BY <1>4 DEF Tally
  <2>4. /\ metrics' \in Counters /\ metrics'.dropped = metrics.dropped
        /\ metrics'.skipped = metrics.skipped + shard.skipped
        /\ metrics'.unknown = metrics.unknown + shard.unknown
    <3> DEFINE x == metrics.skipped + shard.skipped
               y == metrics.unknown + shard.unknown
    <3>1. x \in Nat /\ y \in Nat
      BY <2>1
    <3>2. metrics' = [metrics EXCEPT !.skipped = x, !.unknown = y]
      BY <2>3
    <3> HIDE DEF x, y
    <3>3. /\ metrics' \in Counters /\ metrics'.dropped = metrics.dropped
          /\ metrics'.skipped = x /\ metrics'.unknown = y
      BY <1>1, <3>1, <3>2 DEF Counters
    <3> QED
      BY <3>3 DEF x, y
  <2>5. UNCHANGED << Outside, bus, heartbeat_config, beat, tracker, rows >>
    BY <1>4 DEF Tally
  <2> QED
    BY <2>1, <2>2, <2>4, <2>5
<1> QED
  BY <1>2, <1>3, <1>4 DEF Phase

\* The end of the thread.
Ending == Idle /\ Ends

LEMMA EndFacts ==
  ASSUME TypeOK, Ending
  PROVE  /\ shard' \in Shard /\ shard'.batch = shard.batch
         /\ shard'.skipped = shard.skipped /\ shard'.unknown = shard.unknown
         /\ shard'.discarded = Len(bus) /\ bus' = << >>
         /\ shard.pc = "idle" /\ shard'.pc = "done" /\ shutdown
         /\ Len(bus) \in Nat
         /\ UNCHANGED << Outside, heartbeat_config, beat, tracker, metrics, rows >>
<1>1. shard \in Shard /\ Len(bus) \in Nat
  BY DEF TypeOK
<1>2. /\ shard' = [shard EXCEPT !.pc = "done", !.discarded = Len(bus), !.fast = 0,
                                !.slow = 0, !.now = 0, !.cache = {}]
      /\ shard.pc = "idle" /\ shutdown /\ bus' = << >>
      /\ UNCHANGED << Outside, heartbeat_config, beat, tracker, metrics, rows >>
  BY DEF Ending, Idle, Ends
<1> QED
  BY <1>1, <1>2 DEF Shard

LEMMA EmitTyped == TypeOK /\ EmitHeartbeats => TypeOK'
<1> SUFFICES ASSUME TypeOK, EmitHeartbeats PROVE TypeOK'
  OBVIOUS
<1>1. ticks \in Nat
  BY IngestAssumption DEF TypeOK
<1>2. beat' \in [PVs -> Entry]
  BY <1>1, ScanTyped DEF EmitHeartbeats, TypeOK, Entry
<1>3. tracker' \in [loaded : BOOLEAN, has_explicit_override : BOOLEAN]
  BY ScanTyped DEF EmitHeartbeats
<1>4. heartbeat_config' \in [beats : UNION {[S -> Beats] : S \in SUBSET PVs},
                             seen : BOOLEAN]
  BY DEF EmitHeartbeats, TypeOK
<1>5. rows' = rows \o Beating
  BY DEF EmitHeartbeats, Beating
<1>6. rows' \in Seq(Row)
  <2>1. rows \in Seq(Row) /\ Beating \in Seq(Row)
    BY BeatingTyped DEF TypeOK
  <2> QED
    BY <1>5, <2>1, ConcatFacts
<1>7. shard' \in Shard /\ shard'.batch = shard.batch
  BY <1>1 DEF EmitHeartbeats, TypeOK, Shard
<1>8. UNCHANGED << monitors, pv_cache, main, shutdown, sent, ops, ticks, bus, metrics >>
  BY DEF EmitHeartbeats, Outside
<1> QED
  BY <1>2, <1>3, <1>4, <1>6, <1>7, <1>8 DEF TypeOK

LEMMA NextTyped == TypeOK /\ [Next]_vars => TypeOK'
<1> SUFFICES ASSUME TypeOK, [Next]_vars PROVE TypeOK'
  OBVIOUS
<1>1. CASE Recv
  <2>1. BusCap \in Nat /\ DrainMax \in Nat
    BY IngestAssumption
  <2>2. Len(bus') <= BusCap /\ Len(shard'.batch) <= DrainMax
    BY <1>1, <2>1, RecvFacts DEF TypeOK
  <2> QED
    BY <1>1, <2>2, RecvFacts, ShardKeeps DEF Outside, TypeOK
<1>2. CASE Phase
  BY <1>2, PhaseFacts, ShardKeeps DEF Outside, TypeOK
<1>e. CASE Ending
  <2>1. << >> \in Seq(TaggedEvent) /\ Len(<< >>) <= BusCap
    BY IngestAssumption
  <2> QED
    BY <1>e, <2>1, EndFacts, ShardKeeps DEF Outside, TypeOK
<1>3. CASE UNCHANGED vars
  BY <1>3 DEF vars, TypeOK
<1> QED
  BY <1>1, <1>2, <1>3, <1>e, QuietTyped, UpdateTyped, TakeTyped, EmitTyped
     DEF Next, SessionStep, ShardStep, Quiet, Take, Phase, Ending

LEMMA InitTyped == Init => TypeOK
<1> SUFFICES ASSUME Init PROVE TypeOK
  OBVIOUS
<1>1. monitors \in [PVs -> Monitor]
  BY DEF Init, NewMonitor, NoMonitor, Monitor
<1>2. heartbeat_config \in [beats : UNION {[S -> Beats] : S \in SUBSET PVs},
                            seen : BOOLEAN]
  <2>1. PICK h \in Beats : heartbeat_config \in [beats : {[p \in Initial |-> h]},
                                                 seen : {FALSE}]
    BY DEF Init
  <2>2. [p \in Initial |-> h] \in [Initial -> Beats] /\ Initial \in SUBSET PVs
    BY IngestAssumption
  <2> QED
    BY <2>1, <2>2
<1>3. shard \in Shard /\ Len(shard.batch) <= DrainMax
  BY IngestAssumption DEF Init, Shard
<1>4. beat \in [PVs -> Entry]
  BY IngestAssumption DEF Init, NewEntry, Entry
<1>5. main \in Main /\ main.pc = "idle"
  BY DEF Init, Main
<1>6. metrics \in Counters /\ tracker \in [loaded : BOOLEAN, has_explicit_override : BOOLEAN]
  BY DEF Init, Counters
<1>7. /\ bus \in Seq(TaggedEvent) /\ Len(bus) <= BusCap /\ rows \in Seq(Row)
      /\ sent \in 0 .. MaxUpdates /\ ops \in 0 .. MaxOps /\ ticks \in 0 .. MaxTicks
      /\ pv_cache \subseteq PVs /\ shutdown \in BOOLEAN
  <2>1. bus = << >> /\ rows = << >> /\ Len(<< >>) = 0
    BY DEF Init
  <2>2. 0 <= BusCap /\ 0 \in 0..MaxUpdates /\ 0 \in 0..MaxOps /\ 0 \in 0..MaxTicks
    BY IngestAssumption
  <2>3. /\ pv_cache \subseteq PVs /\ shutdown \in BOOLEAN
        /\ sent = 0 /\ ops = 0 /\ ticks = 0
    BY IngestAssumption DEF Init
  <2> QED
    BY <2>1, <2>2, <2>3
<1> QED
  BY <1>1, <1>2, <1>3, <1>4, <1>5, <1>6, <1>7 DEF TypeOK

(***************************************************************************)
(* Every reachable state is typed: in particular the shard's channel and   *)
(* its batch stay within their capacities.                                 *)
(***************************************************************************)
THEOREM IngestTypeCorrect == Spec => []TypeOK
BY InitTyped, NextTyped, PTL DEF Spec

-----------------------------------------------------------------------------
(* How the rows grow.                                                      *)

\* No step but those of the shard that offer rows, and MonitorUpdate, touches
\* what the three invariants speak of.
Still == UNCHANGED << bus, shard, beat, metrics, rows, sent >>

LEMMA QuietStill == Quiet \/ UNCHANGED vars => Still
BY DEF Quiet, MonitorRemoved, MonitorRestored, SessionsClosed, MainLoop, PreRegister,
       UnsubscribeSend, SubscribeOk, SubscribeFailed, RefreshCache, ForgetName,
       ReloadConfig, ShutdownSessions, StopIngest, JoinIngest, Tick, vars, Still

\* A scan appends heartbeats, each of a firing PV.
LEMMA EmitRows ==
  ASSUME TypeOK, EmitHeartbeats
  PROVE  /\ rows \in Seq(Row) /\ Len(rows) \in Nat /\ Len(rows') \in Nat
         /\ Len(rows) <= Len(rows') /\ rows' \in Seq(Row)
         /\ \A i \in 1..Len(rows) : rows'[i] = rows[i]
         /\ \A i \in (Len(rows) + 1)..Len(rows') :
               \E p \in Firing : rows'[i] = Heartbeat(p)
<1>1. rows' = rows \o Beating
  BY DEF EmitHeartbeats, Beating
<1>2. rows \in Seq(Row) /\ Beating \in Seq(Row)
  BY BeatingTyped DEF TypeOK
<1>3. /\ rows' \in Seq(Row) /\ Len(rows') = Len(rows) + Len(Beating)
      /\ Len(rows) \in Nat /\ Len(Beating) \in Nat
      /\ \A i \in 1..Len(rows) : rows'[i] = rows[i]
      /\ \A i \in 1..Len(Beating) : rows'[Len(rows) + i] = Beating[i]
  BY <1>1, <1>2, ConcatFacts
<1>4. ASSUME NEW i \in (Len(rows) + 1)..Len(rows')
      PROVE  \E p \in Firing : rows'[i] = Heartbeat(p)
  <2>1. i - Len(rows) \in 1..Len(Beating) /\ i = Len(rows) + (i - Len(rows))
    BY <1>3
  <2>2. rows'[i] = Beating[i - Len(rows)]
    BY <1>3, <2>1
  <2> QED
    BY <2>1, <2>2, BeatingTyped
<1> QED
  BY <1>2, <1>3, <1>4

-----------------------------------------------------------------------------
(* Every update is counted.                                                *)

LEMMA ValueRowsFinite ==
  ASSUME TypeOK
  PROVE  /\ IsFiniteSet(ValueRows) /\ Cardinality(ValueRows) \in Nat
         /\ DOMAIN rows = 1..Len(rows) /\ Len(rows) \in Nat
<1>1. rows \in Seq(Row)
  BY DEF TypeOK
<1>2. DOMAIN rows = 1..Len(rows) /\ Len(rows) \in Nat
  BY <1>1
<1>3. ValueRows \in SUBSET (1..Len(rows))
  BY <1>2 DEF ValueRows
<1>4. IsFiniteSet(1..Len(rows))
  BY <1>2, FS_Interval
<1>5. IsFiniteSet(ValueRows)
  BY <1>3, <1>4, FS_Subset
<1> QED
  BY <1>2, <1>5, FS_CardinalityType

LEMMA OfferCounts ==
  ASSUME TypeOK, Working, NEW via \in {"scalar", "string", "array", "value"}, Offer(via)
  PROVE  Cardinality(ValueRows)' = Cardinality(ValueRows) + 1
<1>1. /\ rows' \in Seq(Row) /\ Len(rows') = Len(rows) + 1 /\ Len(rows) \in Nat
      /\ \A i \in 1..Len(rows) : rows'[i] = rows[i]
      /\ rows'[Len(rows) + 1].via = via
  BY OfferTyped
<1>2. DOMAIN rows' = 1..Len(rows')
  BY <1>1
<1>3. 1..Len(rows') = 1..Len(rows) \cup {Len(rows) + 1}
  BY <1>1
<1>4. DOMAIN rows = 1..Len(rows)
  BY ValueRowsFinite
<1>5. ValueRows' = ValueRows \cup {Len(rows) + 1}
  BY <1>1, <1>2, <1>3, <1>4 DEF ValueRows
<1>6. Len(rows) + 1 \notin ValueRows
  BY <1>1, <1>4 DEF ValueRows
<1>7. Cardinality(ValueRows \cup {Len(rows) + 1}) = Cardinality(ValueRows) + 1
  BY <1>6, ValueRowsFinite, FS_AddElement
<1> QED
  BY <1>5, <1>7

LEMMA EmitCountsNone ==
  ASSUME TypeOK, EmitHeartbeats
  PROVE  ValueRows' = ValueRows
<1>1. /\ Len(rows) \in Nat /\ Len(rows') \in Nat /\ Len(rows) <= Len(rows')
      /\ rows' \in Seq(Row) /\ \A i \in 1..Len(rows) : rows'[i] = rows[i]
      /\ \A i \in (Len(rows) + 1)..Len(rows') : rows'[i].via = "heartbeat"
  <2>1. \A p : Heartbeat(p).via = "heartbeat"
    BY DEF Heartbeat
  <2> QED
    BY <2>1, EmitRows
<1>2. DOMAIN rows' = 1..Len(rows') /\ DOMAIN rows = 1..Len(rows)
  BY <1>1, ValueRowsFinite
<1>3. 1..Len(rows') = 1..Len(rows) \cup (Len(rows) + 1)..Len(rows')
  BY <1>1
<1>4. \A i \in 1..Len(rows) : i \in 1..Len(rows') /\ rows'[i].via = rows[i].via
  BY <1>1, <1>3
<1>5. \A i \in 1..Len(rows') : rows'[i].via # "heartbeat" => i \in 1..Len(rows)
  BY <1>1, <1>3
<1> QED
  BY <1>2, <1>4, <1>5 DEF ValueRows

\* The numbers the sum adds up.
LEMMA CountTypes ==
  ASSUME TypeOK
  PROVE  /\ Len(bus) \in Nat /\ Len(shard.batch) \in Nat /\ sent \in Nat
         /\ metrics.dropped \in Nat /\ metrics.skipped \in Nat /\ metrics.unknown \in Nat
         /\ shard.skipped \in Nat /\ shard.unknown \in Nat
         /\ Cardinality(ValueRows) \in Nat /\ shard.discarded \in Nat
<1>1. /\ bus \in Seq(TaggedEvent) /\ sent \in Nat
      /\ metrics \in Counters /\ shard \in Shard
  BY IngestAssumption DEF TypeOK
<1>2. /\ shard.batch \in Seq(TaggedEvent) /\ shard.skipped \in Nat
      /\ shard.unknown \in Nat /\ shard.discarded \in Nat
  BY <1>1 DEF Shard
<1>3. metrics.dropped \in Nat /\ metrics.skipped \in Nat /\ metrics.unknown \in Nat
  BY <1>1 DEF Counters
<1> QED
  BY <1>1, <1>2, <1>3, ValueRowsFinite

LEMMA SendEffect ==
  ASSUME TypeOK, NEW p \in PVs, NEW full \in BOOLEAN, NEW bits \in SUBSET FieldGroups,
         MonitorUpdate(p, full, bits)
  PROVE  /\ sent' = sent + 1 /\ UNCHANGED << shard, beat, rows >>
         /\ \/ /\ metrics' = metrics /\ Len(bus') = Len(bus) + 1
               /\ bus' \in Seq(TaggedEvent)
               /\ \A i \in 1..Len(bus) : bus'[i] = bus[i]
               /\ bus'[Len(bus) + 1].n = sent + 1
            \/ /\ bus' = bus /\ metrics'.dropped = metrics.dropped + 1
               /\ metrics'.skipped = metrics.skipped /\ metrics'.unknown = metrics.unknown
<1>1. TypeOK'
  BY UpdateTyped
<1>2. PICK id : \E kind, conv :
        /\ SendToShard([pv |-> p, n |-> sent + 1, id |-> id, kind |-> kind,
                        converts |-> conv])
        /\ sent' = sent + 1 /\ UNCHANGED << shard, beat, rows >>
  BY DEF MonitorUpdate
<1>3. PICK kind, conv :
        /\ SendToShard([pv |-> p, n |-> sent + 1, id |-> id, kind |-> kind,
                        converts |-> conv])
        /\ sent' = sent + 1 /\ UNCHANGED << shard, beat, rows >>
  BY <1>2
<1> DEFINE e == [pv |-> p, n |-> sent + 1, id |-> id, kind |-> kind, converts |-> conv]
<1>4. e.n = sent + 1 /\ SendToShard(e)
  BY <1>3
<1> HIDE DEF e
<1>5. CASE bus' = Append(bus, e) /\ UNCHANGED metrics
  <2>1. bus \in Seq(TaggedEvent) /\ bus' \in Seq(TaggedEvent)
    BY <1>1 DEF TypeOK
  <2>2. /\ Len(Append(bus, e)) = Len(bus) + 1
        /\ \A i \in 1..Len(bus) : Append(bus, e)[i] = bus[i]
        /\ Append(bus, e)[Len(bus) + 1] = e
    BY <2>1
  <2> QED
    BY <1>3, <1>4, <1>5, <2>1, <2>2
<1>6. CASE metrics' = [metrics EXCEPT !.dropped = @ + 1] /\ UNCHANGED bus
  BY <1>3, <1>6 DEF TypeOK, Counters
<1> QED
  BY <1>4, <1>5, <1>6 DEF SendToShard

\* The sum in four parts.
OnTheWay == Len(bus) + Len(shard.batch)
Skipped == metrics.skipped + shard.skipped
Unknown == metrics.unknown + shard.unknown

\* The sum of EveryUpdateCounted, with the counters of an iteration added to the
\* shared ones.
Balanced ==
    sent = OnTheWay + Cardinality(ValueRows) + metrics.dropped + Skipped + Unknown
             + shard.discarded

\* Events are discarded at the end only, and none come after it.
DiscardedAtEnd ==
    /\ shard.pc = "done" => bus = << >> /\ shutdown
    /\ shard.pc # "done" => shard.discarded = 0
    /\ shard.discarded <= BusCap

LEMMA CountSplit ==
  ASSUME TypeOK
  PROVE  /\ OnTheWay \in Nat /\ Skipped \in Nat /\ Unknown \in Nat
         /\ metrics.dropped \in Nat /\ Cardinality(ValueRows) \in Nat /\ sent \in Nat
         /\ shard.discarded \in Nat
         /\ Balanced /\ DiscardedAtEnd => EveryUpdateCounted
<1> DEFINE a == Len(bus)
           b == Len(shard.batch)
           c == Cardinality(ValueRows)
           d == metrics.dropped
           e == metrics.skipped
           f == shard.skipped
           g == metrics.unknown
           h == shard.unknown
           k == shard.discarded
<1>1. /\ a \in Nat /\ b \in Nat /\ c \in Nat /\ d \in Nat
      /\ e \in Nat /\ f \in Nat /\ g \in Nat /\ h \in Nat /\ k \in Nat /\ sent \in Nat
  BY CountTypes
<1>2. EveryUpdateCounted <=> /\ sent = a + b + c + d + e + f + g + h + k
                             /\ k > 0 => shard.pc = "done" /\ shutdown
                             /\ k <= BusCap
                             /\ shard.pc = "done" => bus = << >>
  BY DEF EveryUpdateCounted
<1>3. OnTheWay = a + b /\ Skipped = e + f /\ Unknown = g + h
  BY DEF OnTheWay, Skipped, Unknown
<1>4. Cardinality(ValueRows) = c /\ metrics.dropped = d /\ shard.discarded = k
  OBVIOUS
<1>7. DiscardedAtEnd => /\ k > 0 => shard.pc = "done" /\ shutdown
                        /\ k <= BusCap
                        /\ shard.pc = "done" => bus = << >>
  BY <1>1 DEF DiscardedAtEnd
<1> HIDE DEF a, b, c, d, e, f, g, h, k
<1>5. OnTheWay \in Nat /\ Skipped \in Nat /\ Unknown \in Nat
  BY <1>1, <1>3
<1>6. a + b + c + d + e + f + g + h + k = (a + b) + c + d + (e + f) + (g + h) + k
  BY <1>1
<1> QED
  BY <1>1, <1>2, <1>3, <1>4, <1>5, <1>6, <1>7 DEF Balanced

\* A step that sends one update more and counts it once, or moves one.
LEMMA CountBalance ==
  ASSUME TypeOK, Balanced,
         NEW way \in Int, NEW row \in Int, NEW drop \in Int, NEW skip \in Int,
         NEW unk \in Int,
         OnTheWay' = OnTheWay + way, Skipped' = Skipped + skip, Unknown' = Unknown + unk,
         Cardinality(ValueRows)' = Cardinality(ValueRows) + row,
         metrics'.dropped = metrics.dropped + drop,
         shard'.discarded = shard.discarded,
         sent' = sent + (way + row + drop + skip + unk)
  PROVE  Balanced'
<1> DEFINE a == OnTheWay
           b == Cardinality(ValueRows)
           c == metrics.dropped
           d == Skipped
           e == Unknown
           k == shard.discarded
<1>1. /\ a \in Nat /\ b \in Nat /\ c \in Nat /\ d \in Nat /\ e \in Nat /\ k \in Nat
      /\ sent \in Nat /\ sent = a + b + c + d + e + k
  BY CountSplit DEF Balanced
<1>2. Balanced' <=> sent' = OnTheWay' + Cardinality(ValueRows)'
                              + metrics'.dropped + Skipped' + Unknown'
                              + shard'.discarded
  BY DEF Balanced
<1>3. /\ OnTheWay' = a + way /\ Skipped' = d + skip /\ Unknown' = e + unk
      /\ Cardinality(ValueRows)' = b + row /\ metrics'.dropped = c + drop
      /\ shard'.discarded = k
  OBVIOUS
<1> HIDE DEF a, b, c, d, e, k
<1>4. sent + (way + row + drop + skip + unk)
        = (a + way) + (b + row) + (c + drop) + (d + skip) + (e + unk) + k
  BY <1>1
<1> QED
  BY <1>2, <1>3, <1>4

\* One event taken is none discarded.
LEMMA TakeKeeps ==
  ASSUME TypeOK, Take
  PROVE  shard.pc = "work" /\ shard'.pc = shard.pc /\ shard'.discarded = shard.discarded
<1>1. shard \in Shard
  BY DEF TypeOK
<1>2. ASSUME NEW c, c = [shard EXCEPT !.unknown = @ + 1]
                    \/ c = [shard EXCEPT !.fast = @ + 1]
                    \/ \E x, y : c = [shard EXCEPT !.slow = @ + 1, !.skipped = x, !.unknown = y],
             Pop(c)
      PROVE  shard'.pc = shard.pc /\ shard'.discarded = shard.discarded
  BY <1>1, <1>2 DEF Pop, Shard
<1>3. CASE DropUnknown
  BY <1>2, <1>3 DEF DropUnknown, Working
<1>4. CASE ProcessScalarDelta \/ ProcessOtherDelta
  BY <1>2, <1>4 DEF ProcessScalarDelta, ProcessOtherDelta, Working
<1>5. CASE ProcessValue
  BY <1>2, <1>5 DEF ProcessValue, Working
<1> QED
  BY <1>3, <1>4, <1>5 DEF Take

LEMMA DiscardedStep == TypeOK /\ DiscardedAtEnd /\ [Next]_vars => DiscardedAtEnd'
<1> SUFFICES ASSUME TypeOK, DiscardedAtEnd, [Next]_vars PROVE DiscardedAtEnd'
  OBVIOUS
<1> USE DEF DiscardedAtEnd
<1>1. ASSUME NEW p \in PVs, NEW full \in BOOLEAN, NEW bits \in SUBSET FieldGroups,
             MonitorUpdate(p, full, bits)
      PROVE  DiscardedAtEnd'
  <2>1. shard' = shard /\ shutdown' = shutdown
    BY <1>1 DEF MonitorUpdate
  <2>2. shard.pc = "done" => bus' = bus
    BY <1>1 DEF MonitorUpdate, SendToShard
  <2> QED
    BY <2>1, <2>2
<1>2. CASE Recv
  BY <1>2, RecvFacts
<1>3. CASE Phase
  BY <1>3, PhaseFacts
<1>4. CASE Ending
  BY <1>4, EndFacts DEF TypeOK, Outside
<1>5. CASE Take
  BY <1>5, TakeKeeps
<1>6. CASE EmitHeartbeats
  <2>1. shard.pc # "done" /\ shard'.pc # "done" /\ shard'.discarded = shard.discarded
    BY <1>6 DEF EmitHeartbeats, TypeOK, Shard
  <2> QED
    BY <2>1
<1>7. CASE Quiet \/ UNCHANGED vars
  <2>1. bus' = bus /\ shard' = shard
    BY <1>7, QuietStill DEF Still
  <2>2. shutdown => shutdown'
    BY <1>7 DEF Quiet, MonitorRemoved, MonitorRestored, SessionsClosed, MainLoop,
         PreRegister, UnsubscribeSend, SubscribeOk, SubscribeFailed, RefreshCache,
         ForgetName, ReloadConfig, ShutdownSessions, StopIngest, JoinIngest, Tick, vars
  <2> QED
    BY <2>1, <2>2
<1> QED
  BY <1>1, <1>2, <1>3, <1>4, <1>5, <1>6, <1>7
     DEF Next, SessionStep, ShardStep, Quiet, Take, Phase, Ending

LEMMA BalancedStep ==
  TypeOK /\ Balanced /\ DiscardedAtEnd /\ [Next]_vars => Balanced'
<1> SUFFICES ASSUME TypeOK, Balanced, DiscardedAtEnd, [Next]_vars PROVE Balanced'
  OBVIOUS
<1>0. /\ OnTheWay \in Nat /\ Skipped \in Nat /\ Unknown \in Nat
      /\ metrics.dropped \in Nat /\ Cardinality(ValueRows) \in Nat /\ sent \in Nat
  BY CountSplit
<1>1. ASSUME NEW p \in PVs, NEW full \in BOOLEAN, NEW bits \in SUBSET FieldGroups,
             MonitorUpdate(p, full, bits)
      PROVE  Balanced'
  <2>1. Cardinality(ValueRows)' = Cardinality(ValueRows)
        /\ shard'.discarded = shard.discarded
    BY <1>1, SendEffect DEF ValueRows
  <2>2. sent' = sent + 1 /\ Skipped' = Skipped /\ Unknown' = Unknown
    BY <1>1, SendEffect DEF Skipped, Unknown
  <2>3. \/ OnTheWay' = OnTheWay + 1 /\ metrics'.dropped = metrics.dropped
        \/ OnTheWay' = OnTheWay /\ metrics'.dropped = metrics.dropped + 1
    <3>1. CASE Len(bus') = Len(bus) + 1 /\ metrics' = metrics /\ shard' = shard
      <4>1. Len(bus) \in Nat /\ Len(shard.batch) \in Nat
        BY CountTypes
      <4>2. OnTheWay' = Len(bus') + Len(shard'.batch) /\ shard'.batch = shard.batch
        BY <3>1 DEF OnTheWay
      <4>3. OnTheWay' = (Len(bus) + 1) + Len(shard.batch)
        <5>1. Len(shard'.batch) = Len(shard.batch) /\ Len(bus') = Len(bus) + 1
          BY <3>1, <4>2
        <5> QED
          BY <4>2, <5>1
      <4>4. (Len(bus) + 1) + Len(shard.batch) = (Len(bus) + Len(shard.batch)) + 1
        <5> DEFINE a == Len(bus)
                   b == Len(shard.batch)
        <5>1. a \in Nat /\ b \in Nat
          BY <4>1
        <5> HIDE DEF a, b
        <5>2. (a + 1) + b = (a + b) + 1
          BY <5>1
        <5> QED
          BY <5>2 DEF a, b
      <4>5. OnTheWay = Len(bus) + Len(shard.batch)
        BY DEF OnTheWay
      <4> QED
        BY <3>1, <4>3, <4>4, <4>5
    <3>2. CASE bus' = bus /\ shard' = shard /\ metrics'.dropped = metrics.dropped + 1
      BY <3>2 DEF OnTheWay
    <3> QED
      BY <1>1, <3>1, <3>2, SendEffect
  <2>4. /\ Cardinality(ValueRows)' = Cardinality(ValueRows) + 0
        /\ Skipped' = Skipped + 0 /\ Unknown' = Unknown + 0
    BY <1>0, <2>1, <2>2
  <2>5. CASE OnTheWay' = OnTheWay + 1 /\ metrics'.dropped = metrics.dropped
    <3>1. metrics'.dropped = metrics.dropped + 0 /\ sent' = sent + (1 + 0 + 0 + 0 + 0)
      BY <1>0, <2>2, <2>5
    <3> QED
      BY <2>1, <2>4, <2>5, <3>1, CountBalance
  <2>6. CASE OnTheWay' = OnTheWay /\ metrics'.dropped = metrics.dropped + 1
    <3>1. OnTheWay' = OnTheWay + 0 /\ sent' = sent + (0 + 0 + 1 + 0 + 0)
      BY <1>0, <2>2, <2>6
    <3> QED
      BY <2>1, <2>4, <2>6, <3>1, CountBalance
  <2> QED
    BY <2>3, <2>5, <2>6
<1>2. CASE Recv
  <2>1. Cardinality(ValueRows)' = Cardinality(ValueRows)
    BY <1>2, RecvFacts DEF ValueRows
  <2>2. OnTheWay' = OnTheWay
    <3>1. /\ Len(bus') = Len(bus) - 1 /\ Len(shard'.batch) = Len(shard.batch) + 1
          /\ Len(bus) \in Nat /\ Len(shard.batch) \in Nat
      BY <1>2, RecvFacts
    <3>2. OnTheWay' = (Len(bus) - 1) + (Len(shard.batch) + 1)
      BY <3>1 DEF OnTheWay
    <3> QED
      BY <3>1, <3>2 DEF OnTheWay
  <2>3. /\ Skipped' = Skipped /\ Unknown' = Unknown
        /\ metrics' = metrics /\ sent' = sent /\ shard'.discarded = shard.discarded
    BY <1>2, RecvFacts DEF Outside, Skipped, Unknown
  <2> QED
    BY <1>0, <2>1, <2>2, <2>3, CountBalance
<1>e. CASE Ending
  <2>1. Cardinality(ValueRows)' = Cardinality(ValueRows)
    BY <1>e, EndFacts DEF ValueRows
  <2>2. /\ Skipped' = Skipped /\ Unknown' = Unknown /\ sent' = sent
        /\ metrics'.dropped = metrics.dropped
    BY <1>e, EndFacts DEF Outside, Skipped, Unknown
  <2>3. /\ OnTheWay = shard'.discarded + Len(shard.batch)
        /\ OnTheWay' = 0 + Len(shard.batch) /\ shard.discarded = 0
        /\ shard'.discarded \in Nat
    BY <1>e, EndFacts DEF OnTheWay, DiscardedAtEnd
  <2>4. Len(shard.batch) \in Nat
    BY CountTypes
  <2> DEFINE x == Len(shard.batch)
             c == Cardinality(ValueRows)
             d == metrics.dropped
             k == shard'.discarded
  <2>5. sent = (k + x) + c + d + Skipped + Unknown + 0
    BY <2>3 DEF Balanced
  <2>6. Balanced' <=> sent = (0 + x) + c + d + Skipped + Unknown + k
    BY <2>1, <2>2, <2>3 DEF Balanced
  <2>7. x \in Nat /\ c \in Nat /\ d \in Nat /\ k \in Nat
    BY <1>0, <2>3, <2>4
  <2> HIDE DEF x, c, d, k
  <2>8. (k + x) + c + d + Skipped + Unknown + 0 = (0 + x) + c + d + Skipped + Unknown + k
    BY <1>0, <2>7
  <2> QED
    BY <2>5, <2>6, <2>8
<1>3. CASE Phase
  <2>1. Cardinality(ValueRows)' = Cardinality(ValueRows)
    BY <1>3, PhaseFacts DEF ValueRows
  <2>2. /\ Skipped' = Skipped /\ Unknown' = Unknown /\ OnTheWay' = OnTheWay
        /\ metrics'.dropped = metrics.dropped /\ sent' = sent
        /\ shard'.discarded = shard.discarded
    BY <1>3, PhaseFacts DEF Outside, Skipped, Unknown, OnTheWay
  <2> QED
    BY <1>0, <2>1, <2>2, CountBalance
<1>4. CASE Take
  <2>1. /\ Working /\ shard'.batch = Tail(shard.batch) /\ shard' \in Shard
        /\ bus' = bus /\ sent' = sent /\ metrics' = metrics
        /\ shard'.discarded = shard.discarded
    BY <1>4, TakeEffect, TakeKeeps DEF Outside
  <2>2. OnTheWay' = OnTheWay - 1
    BY <2>1, BatchFacts, CountTypes DEF OnTheWay
  <2>3. shard'.skipped \in Nat /\ shard'.unknown \in Nat
    BY <2>1 DEF Shard
  <2>4. CASE \E via \in {"scalar", "string", "array", "value"} : Offer(via)
             /\ shard'.skipped = shard.skipped /\ shard'.unknown = shard.unknown
    <3>1. Cardinality(ValueRows)' = Cardinality(ValueRows) + 1
      BY <2>1, <2>4, OfferCounts
    <3>2. Skipped' = Skipped /\ Unknown' = Unknown /\ metrics'.dropped = metrics.dropped
      BY <2>1, <2>4 DEF Skipped, Unknown
    <3> QED
      BY <1>0, <2>1, <2>2, <3>1, <3>2, CountBalance
  <2>5. CASE rows' = rows
             /\ shard'.skipped + shard'.unknown = shard.skipped + shard.unknown + 1
    <3>1. Cardinality(ValueRows)' = Cardinality(ValueRows)
      BY <2>5 DEF ValueRows
    <3> DEFINE a == shard'.skipped - shard.skipped
               b == shard'.unknown - shard.unknown
    <3>2. /\ shard.skipped \in Nat /\ shard.unknown \in Nat
          /\ metrics.skipped \in Nat /\ metrics.unknown \in Nat
      BY CountTypes
    <3>3. /\ a \in Int /\ b \in Int /\ a + b = 1
          /\ shard'.skipped = shard.skipped + a /\ shard'.unknown = shard.unknown + b
      BY <2>3, <2>5, <3>2
    <3> HIDE DEF a, b
    <3>4. /\ Skipped' = metrics.skipped + (shard.skipped + a)
          /\ Unknown' = metrics.unknown + (shard.unknown + b)
      BY <2>1, <3>3 DEF Skipped, Unknown
    <3>5. Skipped' = Skipped + a /\ Unknown' = Unknown + b
      BY <3>2, <3>3, <3>4 DEF Skipped, Unknown
    <3>6. /\ OnTheWay' = OnTheWay + (0 - 1)
          /\ Cardinality(ValueRows)' = Cardinality(ValueRows) + 0
          /\ metrics'.dropped = metrics.dropped + 0
          /\ sent' = sent + ((0 - 1) + 0 + 0 + a + b)
      BY <1>0, <2>1, <2>2, <3>1, <3>3
    <3>7. 0 - 1 \in Int /\ 0 \in Int
      OBVIOUS
    <3> QED
      BY <2>1, <3>3, <3>5, <3>6, <3>7, CountBalance
  <2> QED
    BY <1>4, <2>4, <2>5, TakeEffect
<1>5. CASE EmitHeartbeats
  <2>1. Cardinality(ValueRows)' = Cardinality(ValueRows)
    BY <1>5, EmitCountsNone
  <2>2. /\ shard'.batch = shard.batch /\ shard'.skipped = shard.skipped
        /\ shard'.unknown = shard.unknown /\ bus' = bus /\ sent' = sent
        /\ metrics' = metrics /\ shard'.discarded = shard.discarded
    BY <1>5 DEF EmitHeartbeats, Outside, TypeOK, Shard
  <2>3. Skipped' = Skipped /\ Unknown' = Unknown /\ OnTheWay' = OnTheWay
    BY <2>2 DEF Skipped, Unknown, OnTheWay
  <2> QED
    BY <1>0, <2>1, <2>2, <2>3, CountBalance
<1>6. CASE Quiet \/ UNCHANGED vars
  BY <1>6, QuietStill DEF Still, Balanced, OnTheWay, Skipped, Unknown, ValueRows
<1> QED
  BY <1>1, <1>2, <1>3, <1>4, <1>5, <1>6, <1>e
     DEF Next, SessionStep, ShardStep, Quiet, Take, Phase, Ending

(***************************************************************************)
(* What the sessions sent is in the channel, in the batch, a row or in a   *)
(* counter of lost events, in every reachable state; once the thread has   *)
(* ended, also among the events, no more than a full channel of them, that *)
(* were in the channel then.                                               *)
(***************************************************************************)
THEOREM IngestEveryUpdateCounted == Spec => []EveryUpdateCounted
<1>1. Init => Balanced /\ DiscardedAtEnd
  <2> SUFFICES ASSUME Init PROVE Balanced /\ DiscardedAtEnd
    OBVIOUS
  <2>1. bus = << >> /\ shard.batch = << >> /\ rows = << >> /\ sent = 0
        /\ metrics.dropped = 0 /\ metrics.skipped = 0 /\ metrics.unknown = 0
        /\ shard.skipped = 0 /\ shard.unknown = 0 /\ shard.discarded = 0
        /\ shard.pc = "drain"
    BY DEF Init
  <2>2. ValueRows = {}
    BY <2>1 DEF ValueRows
  <2>3. Cardinality(ValueRows) = 0
    BY <2>2, FS_EmptySet
  <2> QED
    BY <2>1, <2>3, IngestAssumption DEF Balanced, OnTheWay, Skipped, Unknown, DiscardedAtEnd
<1>2. TypeOK /\ Balanced /\ DiscardedAtEnd => EveryUpdateCounted
  BY CountSplit
<1> QED
  BY <1>1, <1>2, InitTyped, NextTyped, BalancedStep, DiscardedStep, PTL DEF Spec

-----------------------------------------------------------------------------
(* Order.  The numbers rise from the rows over the batch to the channel,   *)
(* whatever their PV.                                                      *)

InBus == 1..Len(bus)
InBatch == 1..Len(shard.batch)

BusRises == \A i, j \in InBus : i < j => bus[i].n < bus[j].n
BatchRises == \A i, j \in InBatch : i < j => shard.batch[i].n < shard.batch[j].n
RowsRise == \A i, j \in ValueRows : i < j => rows[i].n < rows[j].n
BatchBeforeBus == \A i \in InBatch, j \in InBus : shard.batch[i].n < bus[j].n
RowsBefore == \A i \in ValueRows :
                 /\ \A j \in InBatch : rows[i].n < shard.batch[j].n
                 /\ \A j \in InBus : rows[i].n < bus[j].n
AllSent == /\ \A i \in InBus : bus[i].n <= sent
           /\ \A i \in InBatch : shard.batch[i].n <= sent
           /\ \A i \in ValueRows : rows[i].n <= sent

Rising == BusRises /\ BatchRises /\ RowsRise /\ BatchBeforeBus /\ RowsBefore /\ AllSent

LEMMA NumberTypes ==
  ASSUME TypeOK
  PROVE  /\ \A i \in InBus : bus[i].n \in Nat
         /\ \A i \in InBatch : shard.batch[i].n \in Nat
         /\ \A i \in ValueRows : rows[i].n \in Nat
         /\ sent \in Nat /\ Len(bus) \in Nat /\ Len(shard.batch) \in Nat
         /\ Len(rows) \in Nat /\ ValueRows \subseteq 1..Len(rows)
<1>1. /\ bus \in Seq(TaggedEvent) /\ rows \in Seq(Row) /\ shard.batch \in Seq(TaggedEvent)
      /\ sent \in Nat
  BY IngestAssumption DEF TypeOK, Shard
<1>2. /\ \A e \in TaggedEvent : e.n \in Nat
      /\ \A r \in Row : r.n \in Nat
  BY DEF TaggedEvent, Row, Update
<1>3. /\ \A i \in InBus : bus[i] \in TaggedEvent
      /\ \A i \in InBatch : shard.batch[i] \in TaggedEvent
      /\ \A i \in DOMAIN rows : rows[i] \in Row
      /\ DOMAIN rows = 1..Len(rows)
  BY <1>1 DEF InBus, InBatch
<1>4. ValueRows \subseteq DOMAIN rows
  BY DEF ValueRows
<1> QED
  BY <1>1, <1>2, <1>3, <1>4

\* The batch takes its next event from the head of the channel.
LEMMA RecvRising ==
  ASSUME TypeOK, Rising, Recv
  PROVE  Rising'
<1>1. /\ Len(bus) \in Nat \ {0} /\ Len(shard.batch) \in Nat
      /\ Len(bus') = Len(bus) - 1 /\ Len(shard'.batch) = Len(shard.batch) + 1
      /\ \A i \in 1..(Len(bus) - 1) : bus'[i] = bus[i + 1]
      /\ \A i \in 1..Len(shard.batch) : shard'.batch[i] = shard.batch[i]
      /\ shard'.batch[Len(shard.batch) + 1] = bus[1]
      /\ rows' = rows /\ sent' = sent
  BY RecvFacts DEF Outside
<1>2. /\ \A i \in InBus' : i + 1 \in InBus /\ bus'[i] = bus[i + 1]
      /\ \A i, j \in InBus' : i < j => i + 1 < j + 1
      /\ \A i \in InBus' : 1 < i + 1
      /\ 1 \in InBus
  BY <1>1 DEF InBus
<1>3. /\ InBatch' = InBatch \cup {Len(shard.batch) + 1}
      /\ \A i \in InBatch : shard'.batch[i] = shard.batch[i]
      /\ shard'.batch[Len(shard.batch) + 1] = bus[1]
      /\ \A i \in InBatch : ~(Len(shard.batch) + 1 < i)
      /\ ~(Len(shard.batch) + 1 < Len(shard.batch) + 1)
  BY <1>1 DEF InBatch
<1>4. ValueRows' = ValueRows /\ rows' = rows /\ sent' = sent
  BY <1>1 DEF ValueRows
<1> DEFINE top == Len(shard.batch) + 1
           batch == shard.batch
<1> HIDE DEF top, batch
<1>5. /\ InBatch' = InBatch \cup {top} /\ shard'.batch[top] = bus[1]
      /\ \A i \in InBatch : shard'.batch[i] = batch[i]
      /\ \A i \in InBatch : ~(top < i)
      /\ ~(top < top)
  BY <1>3 DEF top, batch
<1>6. /\ \A i, j \in InBatch : i < j => batch[i].n < batch[j].n
      /\ \A i \in InBatch, j \in InBus : batch[i].n < bus[j].n
      /\ \A i \in ValueRows, j \in InBatch : rows[i].n < batch[j].n
      /\ \A i \in InBatch : batch[i].n <= sent
  BY DEF Rising, BatchRises, BatchBeforeBus, RowsBefore, AllSent, batch
<1>7. BusRises'
  BY <1>2 DEF Rising, BusRises
<1>8. BatchRises'
  BY <1>2, <1>5, <1>6 DEF BatchRises
<1>9. BatchBeforeBus'
  BY <1>2, <1>5, <1>6 DEF Rising, BusRises, BatchBeforeBus
<1>10. RowsRise' /\ RowsBefore'
  BY <1>2, <1>4, <1>5, <1>6 DEF Rising, RowsRise, RowsBefore
<1>11. AllSent'
  BY <1>2, <1>4, <1>5, <1>6 DEF Rising, AllSent
<1> QED
  BY <1>7, <1>8, <1>9, <1>10, <1>11 DEF Rising

\* The oldest event of the batch becomes a row or is dropped.
LEMMA TakeRising ==
  ASSUME TypeOK, Rising, Take
  PROVE  Rising'
<1>1. /\ Working /\ shard'.batch = Tail(shard.batch) /\ bus' = bus /\ sent' = sent
  BY TakeEffect DEF Outside
<1>2. /\ Event = shard.batch[1] /\ Len(shard.batch) \in Nat \ {0}
      /\ Len(Tail(shard.batch)) = Len(shard.batch) - 1
      /\ \A i \in 1..(Len(shard.batch) - 1) : Tail(shard.batch)[i] = shard.batch[i + 1]
  BY <1>1, BatchFacts
<1>3. /\ \A i \in InBatch' : i + 1 \in InBatch /\ shard'.batch[i] = shard.batch[i + 1]
      /\ \A i, j \in InBatch' : i < j => i + 1 < j + 1
      /\ \A i \in InBatch' : 1 < i + 1
      /\ 1 \in InBatch
  BY <1>1, <1>2 DEF InBatch
<1>4. InBus' = InBus
  BY <1>1 DEF InBus
<1>5. BusRises' /\ BatchRises' /\ BatchBeforeBus'
  BY <1>1, <1>3, <1>4 DEF Rising, BusRises, BatchRises, BatchBeforeBus
<1>6. CASE rows' = rows
  <2>1. ValueRows' = ValueRows
    BY <1>6 DEF ValueRows
  <2>2. RowsRise' /\ RowsBefore'
    BY <1>1, <1>3, <1>4, <1>6, <2>1 DEF Rising, RowsRise, RowsBefore
  <2>3. AllSent'
    BY <1>1, <1>3, <1>4, <1>6, <2>1 DEF Rising, AllSent
  <2> QED
    BY <1>5, <2>2, <2>3 DEF Rising
<1>7. CASE \E via \in {"scalar", "string", "array", "value"} : Offer(via)
  <2>1. PICK via \in {"scalar", "string", "array", "value"} : Offer(via)
    BY <1>7
  <2> DEFINE top == Len(rows) + 1
  <2>2. /\ rows' \in Seq(Row) /\ Len(rows') = Len(rows) + 1 /\ Len(rows) \in Nat
        /\ \A i \in 1..Len(rows) : rows'[i] = rows[i]
        /\ rows'[top].n = Event.n
    BY <1>1, <2>1, OfferTyped
  <2>3. DOMAIN rows' = 1..Len(rows') /\ DOMAIN rows = 1..Len(rows)
    BY <2>2, ValueRowsFinite
  <2>4. ValueRows' \subseteq ValueRows \cup {top}
    BY <2>2, <2>3 DEF ValueRows
  <2>5. /\ \A i \in ValueRows : rows'[i] = rows[i] /\ ~(top < i)
        /\ ~(top < top)
    BY <2>2, <2>3 DEF ValueRows
  <2>6. rows'[top].n = shard.batch[1].n
    BY <1>2, <2>2
  <2> HIDE DEF top
  <2>7. RowsRise'
    BY <1>3, <2>4, <2>5, <2>6 DEF Rising, RowsRise, RowsBefore
  <2>8. RowsBefore'
    <3> SUFFICES ASSUME NEW i \in ValueRows'
                 PROVE  /\ \A j \in InBatch' : rows'[i].n < shard'.batch[j].n
                        /\ \A j \in InBus : rows'[i].n < bus[j].n
      BY <1>1, <1>4 DEF RowsBefore
    <3>1. CASE i = top
      <4>1. \A j \in InBatch' : shard.batch[1].n < shard'.batch[j].n
        BY <1>3 DEF Rising, BatchRises
      <4>2. \A j \in InBus : shard.batch[1].n < bus[j].n
        BY <1>3 DEF Rising, BatchBeforeBus
      <4> QED
        BY <2>6, <3>1, <4>1, <4>2
    <3>2. CASE i \in ValueRows
      BY <1>3, <2>5, <3>2 DEF Rising, RowsBefore
    <3> QED
      BY <2>4, <3>1, <3>2
  <2>9. AllSent'
    BY <1>1, <1>3, <1>4, <2>4, <2>5, <2>6 DEF Rising, AllSent
  <2> QED
    BY <1>5, <2>7, <2>8, <2>9 DEF Rising
<1> QED
  BY <1>6, <1>7, TakeEffect

LEMMA RisingStep == TypeOK /\ Rising /\ [Next]_vars => Rising'
<1> SUFFICES ASSUME TypeOK, Rising, [Next]_vars PROVE Rising'
  OBVIOUS
<1>1. ASSUME NEW p \in PVs, NEW full \in BOOLEAN, NEW bits \in SUBSET FieldGroups,
             MonitorUpdate(p, full, bits)
      PROVE  Rising'
  <2>1. shard' = shard /\ rows' = rows /\ sent' = sent + 1
    BY <1>1, SendEffect
  <2>2. ValueRows' = ValueRows /\ InBatch' = InBatch
    BY <2>1 DEF ValueRows, InBatch
  <2>3. /\ \A i \in InBus : bus[i].n \in Nat
        /\ \A i \in InBatch : shard.batch[i].n \in Nat
        /\ \A i \in ValueRows : rows[i].n \in Nat
        /\ sent \in Nat /\ Len(bus) \in Nat
    BY NumberTypes
  <2>4. \A k \in Nat : k <= sent => k < sent + 1 /\ k <= sent + 1
    BY <2>3
  <2>5. RowsRise' /\ BatchRises'
    BY <2>1, <2>2 DEF Rising, RowsRise, BatchRises
  <2>6. CASE bus' = bus
    <3>1. InBus' = InBus
      BY <2>6 DEF InBus
    <3>2. BusRises' /\ BatchBeforeBus' /\ RowsBefore'
      BY <2>1, <2>2, <2>6, <3>1 DEF Rising, BusRises, BatchBeforeBus, RowsBefore
    <3>3. AllSent'
      BY <2>1, <2>2, <2>3, <2>4, <2>6, <3>1 DEF Rising, AllSent
    <3> QED
      BY <2>5, <3>2, <3>3 DEF Rising
  <2>7. CASE /\ Len(bus') = Len(bus) + 1
             /\ \A i \in 1..Len(bus) : bus'[i] = bus[i]
             /\ bus'[Len(bus) + 1].n = sent + 1
    <3> DEFINE top == Len(bus) + 1
    <3>1. /\ InBus' = InBus \cup {top} /\ \A i \in InBus : bus'[i] = bus[i] /\ ~(top < i)
          /\ bus'[top].n = sent + 1 /\ ~(top < top)
      BY <2>3, <2>7 DEF InBus
    <3> HIDE DEF top
    <3>2. BusRises'
      BY <2>3, <2>4, <3>1 DEF Rising, BusRises, AllSent
    <3>3. BatchBeforeBus' /\ RowsBefore'
      BY <2>1, <2>2, <2>3, <2>4, <3>1 DEF Rising, BatchBeforeBus, RowsBefore, AllSent
    <3>4. sent + 1 <= sent + 1
      BY <2>3
    <3>5. AllSent'
      BY <2>1, <2>2, <2>3, <2>4, <3>1, <3>4 DEF Rising, AllSent
    <3> QED
      BY <2>5, <3>2, <3>3, <3>5 DEF Rising
  <2> QED
    BY <1>1, <2>6, <2>7, SendEffect
<1>2. CASE EmitHeartbeats
  <2>1. /\ \A i \in 1..Len(rows) : rows'[i] = rows[i]
        /\ ValueRows' = ValueRows /\ ValueRows \subseteq 1..Len(rows)
    BY <1>2, EmitRows, EmitCountsNone, NumberTypes
  <2>2. bus' = bus /\ sent' = sent /\ shard'.batch = shard.batch
    BY <1>2 DEF EmitHeartbeats, Outside, TypeOK, Shard
  <2>3. InBus' = InBus /\ InBatch' = InBatch
    BY <2>2 DEF InBus, InBatch
  <2>4. \A i \in ValueRows : rows'[i] = rows[i]
    BY <2>1
  <2>5. BusRises' /\ BatchRises' /\ BatchBeforeBus'
    BY <2>2, <2>3 DEF Rising, BusRises, BatchRises, BatchBeforeBus
  <2>6. RowsRise' /\ RowsBefore' /\ AllSent'
    BY <2>1, <2>2, <2>3, <2>4 DEF Rising, RowsRise, RowsBefore, AllSent
  <2> QED
    BY <2>5, <2>6 DEF Rising
<1>3. ASSUME bus' = bus, rows' = rows, sent' = sent, shard'.batch = shard.batch
      PROVE  Rising'
  BY <1>3 DEF Rising, BusRises, BatchRises, RowsRise, BatchBeforeBus, RowsBefore, AllSent,
              InBus, InBatch, ValueRows
<1>4. CASE Phase
  BY <1>3, <1>4, PhaseFacts DEF Outside
<1>e. CASE Ending
  <2>1. InBus' = {}
    BY <1>e, EndFacts DEF InBus
  <2>2. rows' = rows /\ sent' = sent /\ shard'.batch = shard.batch
    BY <1>e, EndFacts DEF Outside
  <2> QED
    BY <2>1, <2>2 DEF Rising, BusRises, BatchRises, RowsRise, BatchBeforeBus, RowsBefore,
                      AllSent, InBatch, ValueRows
<1>5. CASE Quiet \/ UNCHANGED vars
  BY <1>3, <1>5, QuietStill DEF Still
<1> QED
  BY <1>1, <1>2, <1>4, <1>5, <1>e, RecvRising, TakeRising
     DEF Next, SessionStep, ShardStep, Quiet, Take, Phase, Ending

LEMMA RisingOrders == TypeOK /\ Rising => RowsInOrder
<1> SUFFICES ASSUME TypeOK, Rising PROVE RowsInOrder
  OBVIOUS
<1> DEFINE way == rows \o shard.batch \o bus
           r == Len(rows)
           b == Len(shard.batch)
           c == Len(bus)
<1>1. /\ rows \in Seq(Row) /\ shard.batch \in Seq(TaggedEvent) /\ bus \in Seq(TaggedEvent)
      /\ r \in Nat /\ b \in Nat /\ c \in Nat
  BY NumberTypes DEF TypeOK, Shard
<1>2. /\ Len(way) = r + b + c
      /\ \A i \in 1..r : way[i] = rows[i]
      /\ \A i \in 1..b : way[r + i] = shard.batch[i]
      /\ \A i \in 1..c : way[r + b + i] = bus[i]
  <2> DEFINE S == Row \cup TaggedEvent
             u == rows \o shard.batch
  <2>1. rows \in Seq(S) /\ shard.batch \in Seq(S) /\ bus \in Seq(S)
    BY <1>1
  <2> HIDE DEF S
  <2>2. /\ u \in Seq(S) /\ Len(u) = r + b
        /\ \A i \in 1..r : u[i] = rows[i]
        /\ \A i \in 1..b : u[r + i] = shard.batch[i]
    BY <2>1, ConcatFacts
  <2>3. /\ Len(u \o bus) = Len(u) + c
        /\ \A i \in 1..Len(u) : (u \o bus)[i] = u[i]
        /\ \A i \in 1..c : (u \o bus)[Len(u) + i] = bus[i]
    BY <2>1, <2>2, ConcatFacts
  <2>4. way = u \o bus
    OBVIOUS
  <2>5. \A i \in 1..r : i \in 1..(r + b)
    BY <1>1
  <2>6. \A i \in 1..b : r + i \in 1..(r + b)
    BY <1>1
  <2> HIDE DEF way, u, r, b, c
  <2> QED
    BY <2>2, <2>3, <2>4, <2>5, <2>6
<1>3. ASSUME NEW i \in ValueRows \cup (r + 1 .. Len(way))
      PROVE  \/ i \in ValueRows /\ i \in 1..r /\ way[i].n = rows[i].n
             \/ i \in r + 1 .. r + b /\ i - r \in InBatch
                /\ way[i].n = shard.batch[i - r].n
             \/ i \in r + b + 1 .. r + b + c /\ i - r - b \in InBus
                /\ way[i].n = bus[i - r - b].n
  <2>1. ValueRows \subseteq 1..r /\ InBatch = 1..b /\ InBus = 1..c
    BY NumberTypes DEF InBatch, InBus
  <2> HIDE DEF way, r, b, c
  <2>2. CASE i \in ValueRows
    <3>1. i \in 1..r
      BY <2>1, <2>2
    <3> QED
      BY <1>2, <2>2, <3>1
  <2>3. CASE i \in r + 1 .. r + b
    <3>1. i - r \in 1..b /\ i = r + (i - r)
      BY <1>1, <2>3
    <3>2. way[i] = shard.batch[i - r]
      BY <1>2, <3>1
    <3> QED
      BY <2>1, <2>3, <3>1, <3>2
  <2>4. CASE i \in r + b + 1 .. r + b + c
    <3>1. i - r - b \in 1..c /\ i = r + b + (i - r - b)
      BY <1>1, <2>4
    <3>2. way[i] = bus[i - r - b]
      BY <1>2, <3>1
    <3> QED
      BY <2>1, <2>4, <3>1, <3>2
  <2>5. i \in ValueRows \/ i \in r + 1 .. r + b \/ i \in r + b + 1 .. r + b + c
    BY <1>1, <1>2, <1>3
  <2> QED
    BY <2>2, <2>3, <2>4, <2>5
<1> SUFFICES ASSUME NEW i \in ValueRows \cup (r + 1 .. Len(way)),
                    NEW j \in ValueRows \cup (r + 1 .. Len(way)), i < j
             PROVE  way[i].n < way[j].n
  BY DEF RowsInOrder
<1> DEFINE wi == way[i].n
           wj == way[j].n
<1>4. \/ i \in ValueRows /\ i \in 1..r /\ wi = rows[i].n
      \/ i \in r + 1 .. r + b /\ i - r \in InBatch /\ wi = shard.batch[i - r].n
      \/ i \in r + b + 1 .. r + b + c /\ i - r - b \in InBus /\ wi = bus[i - r - b].n
  BY <1>3
<1>5. \/ j \in ValueRows /\ j \in 1..r /\ wj = rows[j].n
      \/ j \in r + 1 .. r + b /\ j - r \in InBatch /\ wj = shard.batch[j - r].n
      \/ j \in r + b + 1 .. r + b + c /\ j - r - b \in InBus /\ wj = bus[j - r - b].n
  BY <1>3
<1> SUFFICES wi < wj
  OBVIOUS
<1> HIDE DEF way, r, b, c, wi, wj
<1>6. CASE i \in ValueRows /\ i \in 1..r /\ wi = rows[i].n
  BY <1>5, <1>6 DEF Rising, RowsRise, RowsBefore
<1>7. CASE i \in r + 1 .. r + b /\ i - r \in InBatch /\ wi = shard.batch[i - r].n
  <2>1. j \notin 1..r /\ i - r < j - r
    BY <1>1, <1>5, <1>7
  <2> QED
    BY <1>5, <1>7, <2>1 DEF Rising, BatchRises, BatchBeforeBus
<1>8. CASE i \in r + b + 1 .. r + b + c /\ i - r - b \in InBus /\ wi = bus[i - r - b].n
  <2>1. j \notin 1..r /\ j \notin r + 1 .. r + b /\ i - r - b < j - r - b
    BY <1>1, <1>5, <1>8
  <2> QED
    BY <1>5, <1>8, <2>1 DEF Rising, BusRises
<1> QED
  BY <1>4, <1>6, <1>7, <1>8

(***************************************************************************)
(* The rows of a PV keep the order of its updates, none comes twice, and   *)
(* what is on its way is newer, in every reachable state.                  *)
(***************************************************************************)
THEOREM IngestRowsInOrder == Spec => []RowsInOrder
<1>1. Init => Rising
  <2> SUFFICES ASSUME Init PROVE Rising
    OBVIOUS
  <2>1. bus = << >> /\ shard.batch = << >> /\ rows = << >>
    BY DEF Init
  <2>2. InBus = {} /\ InBatch = {} /\ ValueRows = {}
    BY <2>1 DEF InBus, InBatch, ValueRows
  <2> QED
    BY <2>2 DEF Rising, BusRises, BatchRises, RowsRise, BatchBeforeBus, RowsBefore, AllSent
<1> QED
  BY <1>1, InitTyped, NextTyped, RisingStep, RisingOrders, PTL DEF Spec

-----------------------------------------------------------------------------
(* Heartbeats.                                                             *)

\* Row j holds the last value the scalar path stored for p.
LastScalar(j, p) ==
    /\ rows[j].pv = p /\ rows[j].n = beat[p].n /\ rows[j].via = "scalar"
    /\ \A k \in 1..Len(rows) : k > j /\ rows[k].pv = p => rows[k].via # "scalar"

\* The tracker's value of a PV it may repeat is the last one stored.
Tracked == \A p \in PVs : beat[p].severity >= 0 =>
              \E j \in 1..Len(rows) : LastScalar(j, p)

LEMMA TakeTracked ==
  ASSUME TypeOK, Tracked, HeartbeatRepeats, Take
  PROVE  Tracked' /\ HeartbeatRepeats'
<1>1. Working
  BY TakeEffect
<1>2. CASE UNCHANGED << rows, beat >>
  BY <1>2 DEF Tracked, LastScalar, HeartbeatRepeats
<1>3. CASE \E via \in {"scalar", "string", "array", "value"} :
             /\ Offer(via)
             /\ \/ via = "scalar" /\ RecordStore
                \/ via # "scalar" /\ beat' = beat
  <2>1. PICK via \in {"scalar", "string", "array", "value"} :
             /\ Offer(via)
             /\ \/ via = "scalar" /\ RecordStore
                \/ via # "scalar" /\ beat' = beat
    BY <1>3
  <2>2. /\ rows' \in Seq(Row) /\ Len(rows') = Len(rows) + 1 /\ Len(rows) \in Nat
        /\ \A i \in 1..Len(rows) : rows'[i] = rows[i]
        /\ rows'[Len(rows) + 1].pv = Event.pv /\ rows'[Len(rows) + 1].n = Event.n
        /\ rows'[Len(rows) + 1].via = via
    BY <1>1, <2>1, OfferTyped
  <2>3. DOMAIN rows' = 1..Len(rows') /\ DOMAIN rows = 1..Len(rows)
    BY <2>2, ValueRowsFinite
  <2>4. 1..Len(rows') = 1..Len(rows) \cup {Len(rows) + 1}
    BY <2>2
  <2>5. HeartbeatRepeats'
    <3> SUFFICES ASSUME NEW i \in DOMAIN rows', rows'[i].via = "heartbeat"
                 PROVE  \E j \in 1 .. i - 1 :
                          /\ rows'[j].pv = rows'[i].pv /\ rows'[j].n = rows'[i].n
                          /\ rows'[j].via = "scalar"
                          /\ \A k \in j + 1 .. i - 1 :
                               rows'[k].pv = rows'[i].pv => rows'[k].via # "scalar"
      BY DEF HeartbeatRepeats
    <3>1. i \in DOMAIN rows /\ rows'[i] = rows[i]
      BY <2>1, <2>2, <2>3, <2>4
    <3>2. PICK j \in 1 .. i - 1 :
                          /\ rows[j].pv = rows[i].pv /\ rows[j].n = rows[i].n
                          /\ rows[j].via = "scalar"
                          /\ \A k \in j + 1 .. i - 1 :
                               rows[k].pv = rows[i].pv => rows[k].via # "scalar"
      BY <3>1 DEF HeartbeatRepeats
    <3>3. rows'[j] = rows[j] /\ \A k \in j + 1 .. i - 1 : rows'[k] = rows[k]
      BY <2>2, <2>3, <3>1, <3>2
    <3> QED
      BY <3>1, <3>2, <3>3
  <2>6. Tracked'
    <3> SUFFICES ASSUME NEW p \in PVs, beat'[p].severity >= 0
                 PROVE  \E j \in 1..Len(rows') : LastScalar(j, p)'
      BY DEF Tracked
    <3>1. Event \in TaggedEvent /\ Event.pv \in PVs
      BY <1>1, BatchFacts DEF TaggedEvent
    <3>2. CASE via = "scalar" /\ p = Event.pv
      <4>1. beat'[p].n = Event.n
        BY <2>1, <3>1, <3>2 DEF RecordStore, TypeOK, Entry
      <4>2. \A k \in 1..Len(rows') : ~(k > Len(rows) + 1)
        BY <2>2
      <4>3. Len(rows) + 1 \in 1..Len(rows')
        BY <2>4
      <4> QED
        BY <2>2, <3>2, <4>1, <4>2, <4>3 DEF LastScalar
    <3>3. CASE ~(via = "scalar" /\ p = Event.pv)
      <4>1. beat'[p] = beat[p]
        BY <2>1, <3>1, <3>3 DEF RecordStore, TypeOK
      <4>2. PICK j \in 1..Len(rows) : LastScalar(j, p)
        BY <4>1 DEF Tracked
      <4>3. rows'[Len(rows) + 1].pv = p => rows'[Len(rows) + 1].via # "scalar"
        BY <2>2, <3>3
      <4> QED
        BY <2>2, <2>4, <4>1, <4>2, <4>3 DEF LastScalar
    <3> QED
      BY <3>2, <3>3
  <2> QED
    BY <2>5, <2>6
<1> QED
  BY <1>2, <1>3, TakeEffect

LEMMA EmitTracked ==
  ASSUME TypeOK, Tracked, HeartbeatRepeats, EmitHeartbeats
  PROVE  Tracked' /\ HeartbeatRepeats'
<1>1. /\ rows' \in Seq(Row) /\ Len(rows) \in Nat /\ Len(rows') \in Nat
      /\ Len(rows) <= Len(rows')
      /\ \A i \in 1..Len(rows) : rows'[i] = rows[i]
      /\ \A i \in (Len(rows) + 1)..Len(rows') :
            \E p \in Firing : rows'[i] = Heartbeat(p)
  BY EmitRows
<1>2. DOMAIN rows' = 1..Len(rows') /\ DOMAIN rows = 1..Len(rows)
  BY <1>1, ValueRowsFinite
<1>3. \A p : /\ Heartbeat(p).via = "heartbeat" /\ Heartbeat(p).pv = p
             /\ Heartbeat(p).n = beat[p].n
  BY DEF Heartbeat
<1>4. \A i \in (Len(rows) + 1)..Len(rows') : rows'[i].via # "scalar"
  BY <1>1, <1>3
<1>5. \A i \in 1..Len(rows') : i \in 1..Len(rows) \/ i \in (Len(rows) + 1)..Len(rows')
  BY <1>1
<1>6. ASSUME NEW p \in PVs, NEW j \in 1..Len(rows), LastScalar(j, p)
      PROVE  /\ j \in 1..Len(rows') /\ rows'[j] = rows[j]
             /\ \A k \in 1..Len(rows') : k > j /\ rows'[k].pv = p => rows'[k].via # "scalar"
  <2>1. j \in 1..Len(rows') /\ rows'[j] = rows[j]
    BY <1>1
  <2> QED
    BY <1>1, <1>4, <1>5, <1>6, <2>1 DEF LastScalar
<1>7. Tracked'
  <2> SUFFICES ASSUME NEW p \in PVs, beat'[p].severity >= 0
               PROVE  \E j \in 1..Len(rows') : LastScalar(j, p)'
    BY DEF Tracked
  <2>1. beat'[p].n = beat[p].n /\ beat'[p].severity \in {-1, beat[p].severity}
    BY DEF EmitHeartbeats
  <2>2. beat[p].severity >= 0
    BY <2>1
  <2>3. PICK j \in 1..Len(rows) : LastScalar(j, p)
    BY <2>2 DEF Tracked
  <2> QED
    BY <1>6, <2>1, <2>3 DEF LastScalar
<1>8. HeartbeatRepeats'
  <2> SUFFICES ASSUME NEW i \in DOMAIN rows', rows'[i].via = "heartbeat"
               PROVE  \E j \in 1 .. i - 1 :
                        /\ rows'[j].pv = rows'[i].pv /\ rows'[j].n = rows'[i].n
                        /\ rows'[j].via = "scalar"
                        /\ \A k \in j + 1 .. i - 1 :
                             rows'[k].pv = rows'[i].pv => rows'[k].via # "scalar"
    BY DEF HeartbeatRepeats
  <2>1. CASE i \in 1..Len(rows)
    <3>1. i \in DOMAIN rows /\ rows'[i] = rows[i]
      BY <1>1, <1>2, <2>1
    <3>2. PICK j \in 1 .. i - 1 :
                          /\ rows[j].pv = rows[i].pv /\ rows[j].n = rows[i].n
                          /\ rows[j].via = "scalar"
                          /\ \A k \in j + 1 .. i - 1 :
                               rows[k].pv = rows[i].pv => rows[k].via # "scalar"
      BY <3>1 DEF HeartbeatRepeats
    <3>3. rows'[j] = rows[j] /\ \A k \in j + 1 .. i - 1 : rows'[k] = rows[k]
      BY <1>1, <2>1, <3>2
    <3> QED
      BY <3>1, <3>2, <3>3
  <2>2. CASE i \in (Len(rows) + 1)..Len(rows')
    <3>1. PICK p \in Firing : rows'[i] = Heartbeat(p)
      BY <1>1, <2>2
    <3>2. p \in PVs /\ beat[p].severity >= 0
      BY ScanTyped
    <3>3. PICK j \in 1..Len(rows) : LastScalar(j, p)
      BY <3>2 DEF Tracked
    <3>4. j \in 1 .. i - 1 /\ \A k \in j + 1 .. i - 1 : k \in 1..Len(rows') /\ k > j
      BY <1>1, <2>2
    <3>5. /\ rows'[j].pv = p /\ rows'[j].n = beat[p].n /\ rows'[j].via = "scalar"
          /\ rows'[i].pv = p /\ rows'[i].n = beat[p].n
      BY <1>3, <1>6, <3>1, <3>2, <3>3 DEF LastScalar
    <3>6. \A k \in j + 1 .. i - 1 : rows'[k].pv = p => rows'[k].via # "scalar"
      BY <1>6, <3>2, <3>3, <3>4
    <3> QED
      BY <3>4, <3>5, <3>6
  <2> QED
    BY <1>2, <1>5, <2>1, <2>2
<1> QED
  BY <1>7, <1>8

LEMMA TrackedStep ==
  TypeOK /\ Tracked /\ HeartbeatRepeats /\ [Next]_vars => Tracked' /\ HeartbeatRepeats'
<1> SUFFICES ASSUME TypeOK, Tracked, HeartbeatRepeats, [Next]_vars
             PROVE  Tracked' /\ HeartbeatRepeats'
  OBVIOUS
<1>1. ASSUME rows' = rows, beat' = beat PROVE Tracked' /\ HeartbeatRepeats'
  BY <1>1 DEF Tracked, LastScalar, HeartbeatRepeats
<1>2. ASSUME NEW p \in PVs, NEW full \in BOOLEAN, NEW bits \in SUBSET FieldGroups,
             MonitorUpdate(p, full, bits)
      PROVE  Tracked' /\ HeartbeatRepeats'
  BY <1>1, <1>2, SendEffect
<1>3. CASE Recv
  BY <1>1, <1>3, RecvFacts
<1>4. CASE Phase
  BY <1>1, <1>4, PhaseFacts
<1>e. CASE Ending
  BY <1>1, <1>e, EndFacts
<1>5. CASE Quiet \/ UNCHANGED vars
  BY <1>1, <1>5, QuietStill DEF Still
<1> QED
  BY <1>2, <1>3, <1>4, <1>5, <1>e, TakeTracked, EmitTracked
     DEF Next, SessionStep, ShardStep, Quiet, Take, Phase, Ending

(***************************************************************************)
(* A heartbeat row repeats the last value the scalar path stored for its   *)
(* PV, for any number of PVs firing in one scan and any reload of the      *)
(* configuration.                                                          *)
(***************************************************************************)
THEOREM IngestHeartbeatRepeats == Spec => []HeartbeatRepeats
<1>1. Init => Tracked /\ HeartbeatRepeats
  BY DEF Init, Tracked, HeartbeatRepeats, NewEntry
<1> QED
  BY <1>1, InitTyped, NextTyped, TrackedStep, PTL DEF Spec

-----------------------------------------------------------------------------
(* Metadata: the metadata the converter of a PV captures, for any types.   *)

Fields == DOMAIN Empty

IsMeta(m) ==
  /\ m = [f \in Fields |-> m[f]]
  /\ m.precision \in Int /\ m.min_step \in Int \cup {NaN}
  /\ m.alarm_hysteresis \in Int \cup {NaN}

LEMMA FieldNames ==
  Fields = { "data_type", "scalar_type", "array_size", "description", "units",
    "precision", "display_form", "display_low", "display_high", "control_low",
    "control_high", "min_step", "alarm_lolo", "alarm_low", "alarm_high", "alarm_hihi",
    "alarm_hysteresis", "enum_choices", "dimensions", "updated_at" }
BY DEF Fields, Empty

LEMMA EmptyIsMeta == IsMeta(Empty)
<1>1. Empty = [f \in Fields |-> Empty[f]]
  BY DEF Fields, Empty
<1>2. /\ Empty.precision \in Int /\ Empty.min_step \in Int \cup {NaN}
      /\ Empty.alarm_hysteresis \in Int \cup {NaN}
  BY DEF Empty
<1> QED BY <1>1, <1>2 DEF IsMeta

\* What display, control and value_alarm say of a field, before or not.
DisplaySays(d, f, old) ==
  CASE f = "description" /\ d.description # "" -> d.description
    [] f = "units" -> d.units
    [] f = "precision" -> d.precision
    [] f = "display_form" -> d.form
    [] f = "display_low" -> d.limit_low
    [] f = "display_high" -> d.limit_high
    [] OTHER -> old

ControlSays(c, f, old) ==
  CASE f = "control_low" -> c.limit_low
    [] f = "control_high" -> c.limit_high
    [] f = "min_step" -> c.min_step
    [] OTHER -> old

AlarmSays(va, f, old) ==
  CASE f = "alarm_lolo" -> va.low_alarm_limit
    [] f = "alarm_low" -> va.low_warning_limit
    [] f = "alarm_high" -> va.high_warning_limit
    [] f = "alarm_hihi" -> va.high_alarm_limit
    [] f = "alarm_hysteresis" -> va.hysteresis
    [] OTHER -> old

LEMMA DisplayApplied ==
  ASSUME NEW m, IsMeta(m), NEW d, d.precision \in Int
  PROVE  /\ IsMeta(apply_display(m, d))
         /\ \A f \in Fields : apply_display(m, d)[f] = DisplaySays(d, f, m[f])
BY FieldNames DEF IsMeta, apply_display, DisplaySays

LEMMA ControlApplied ==
  ASSUME NEW m, IsMeta(m), NEW c, c.min_step \in Int \cup {NaN}
  PROVE  /\ IsMeta(apply_control(m, c))
         /\ \A f \in Fields : apply_control(m, c)[f] = ControlSays(c, f, m[f])
BY FieldNames DEF IsMeta, apply_control, ControlSays

LEMMA AlarmApplied ==
  ASSUME NEW m, IsMeta(m), NEW va, va.hysteresis \in Int \cup {NaN}
  PROVE  /\ IsMeta(apply_value_alarm(m, va))
         /\ \A f \in Fields : apply_value_alarm(m, va)[f] = AlarmSays(va, f, m[f])
BY FieldNames DEF IsMeta, apply_value_alarm, AlarmSays

Shown(nt, f, old) == IF nt.display = << >> THEN old ELSE DisplaySays(nt.display[1], f, old)
Controlled(nt, f, old) ==
  IF nt.control = << >> THEN old ELSE ControlSays(nt.control[1], f, old)
Alarmed(nt, f, old) ==
  IF nt.value_alarm = << >> THEN old ELSE AlarmSays(nt.value_alarm[1], f, old)

Limits(nt, f, old) == Alarmed(nt, f, Controlled(nt, f, Shown(nt, f, old)))

LEMMA DisplayIfApplied ==
  ASSUME NEW m, IsMeta(m), NEW nt \in MetaTypes
  PROVE  /\ IsMeta(ApplyIf(m, nt.display, apply_display))
         /\ \A f \in Fields :
              ApplyIf(m, nt.display, apply_display)[f] = Shown(nt, f, m[f])
BY MetadataAssumption, DisplayApplied DEF ApplyIf, Shown

LEMMA LimitsApplied ==
  ASSUME NEW m, IsMeta(m), NEW nt \in MetaTypes
  PROVE  /\ IsMeta(apply_optional_display_control_alarm(m, nt))
         /\ \A f \in Fields :
              apply_optional_display_control_alarm(m, nt)[f] = Limits(nt, f, m[f])
<1> DEFINE m1 == ApplyIf(m, nt.display, apply_display)
           m2 == ApplyIf(m1, nt.control, apply_control)
           m3 == ApplyIf(m2, nt.value_alarm, apply_value_alarm)
<1>1. IsMeta(m1) /\ \A f \in Fields : m1[f] = Shown(nt, f, m[f])
  BY DisplayIfApplied
<1> HIDE DEF m1
<1>2. IsMeta(m2) /\ \A f \in Fields : m2[f] = Controlled(nt, f, m1[f])
  BY <1>1, MetadataAssumption, ControlApplied DEF ApplyIf, Controlled
<1> HIDE DEF m2
<1>3. IsMeta(m3) /\ \A f \in Fields : m3[f] = Alarmed(nt, f, m2[f])
  BY <1>2, MetadataAssumption, AlarmApplied DEF ApplyIf, Alarmed
<1>4. apply_optional_display_control_alarm(m, nt) = m3
  BY DEF apply_optional_display_control_alarm, m1, m2
<1> HIDE DEF m3
<1> QED BY <1>1, <1>2, <1>3, <1>4 DEF Limits

\* What is said twice is said.
LEMMA SaidTwice ==
  ASSUME NEW nt, NEW f, NEW x
  PROVE  /\ Shown(nt, f, Shown(nt, f, x)) = Shown(nt, f, x)
         /\ Limits(nt, f, Limits(nt, f, x)) = Limits(nt, f, x)
BY DEF Limits, Alarmed, Controlled, Shown, DisplaySays, ControlSays, AlarmSays

LEMMA Unsaid ==
  ASSUME NEW nt, NEW x, NEW f \in {"updated_at", "array_size", "dimensions"}
  PROVE  Shown(nt, f, x) = x /\ Limits(nt, f, x) = x
BY DEF Limits, Alarmed, Controlled, Shown, DisplaySays, ControlSays, AlarmSays

\* Heard says what apply_* say.
LEMMA HeardScalar ==
  ASSUME NEW m, DOMAIN m = Fields, NEW nt, nt.nt = "NTScalar", NEW f \in Fields
  PROVE  Heard(m, nt)[f] = Limits(nt, f, m[f])
BY DEF Heard, Limits, Alarmed, Controlled, Shown, DisplaySays, ControlSays, AlarmSays

LEMMA HeardArray ==
  ASSUME NEW m, DOMAIN m = Fields, NEW nt, nt.nt = "NTScalarArray", NEW f \in Fields
  PROVE  Heard(m, nt)[f] = IF f = "array_size" THEN << nt.count >> ELSE Limits(nt, f, m[f])
BY DEF Heard, Limits, Alarmed, Controlled, Shown, DisplaySays, ControlSays, AlarmSays

LEMMA HeardMatrix ==
  ASSUME NEW m, DOMAIN m = Fields, NEW nt, nt.nt = "Matrix", NEW f \in Fields
  PROVE  Heard(m, nt)[f] = Shown(nt, f, m[f])
BY DEF Heard, Shown, DisplaySays

LEMMA HeardEnum ==
  ASSUME NEW m, DOMAIN m = Fields, NEW nt, nt.nt = "NTEnum", NEW f \in Fields
  PROVE  Heard(m, nt)[f] = IF f = "enum_choices" THEN nt.choices ELSE m[f]
BY DEF Heard

LEMMA HeardImage ==
  ASSUME NEW m, DOMAIN m = Fields, NEW nt, nt.nt = "NTNDArray", NEW f \in Fields
  PROVE  Heard(m, nt)[f] = IF f = "dimensions" THEN DimensionInfo(nt) ELSE m[f]
BY DEF Heard

Updating == { "NTScalar", "NTScalarArray", "Matrix", "NTEnum", "NTNDArray" }

LEMMA HeardOther ==
  ASSUME NEW m, DOMAIN m = Fields, NEW nt, nt.nt \notin Updating, NEW f \in Fields
  PROVE  Heard(m, nt)[f] = m[f]
BY DEF Heard, Updating

LEMMA MetaDomain == ASSUME NEW m, IsMeta(m) PROVE DOMAIN m = Fields
BY DEF IsMeta

\* A later type says of every field what Heard says.
LEMMA UpdateApplied ==
  ASSUME NEW m, IsMeta(m), NEW nt \in MetaTypes
  PROVE  IsMeta(Applied(m, nt)) /\ \A f \in Fields : Applied(m, nt)[f] = Heard(m, nt)[f]
<1>1. DOMAIN m = Fields
  BY MetaDomain
<1>2. CASE nt.nt = "NTScalar"
  <2>1. Applied(m, nt) = apply_optional_display_control_alarm(m, nt)
    BY <1>2 DEF Applied
  <2>2. \A f \in Fields : Heard(m, nt)[f] = Limits(nt, f, m[f])
    BY <1>1, <1>2, HeardScalar
  <2> QED BY <2>1, <2>2, LimitsApplied
<1>3. CASE nt.nt = "NTScalarArray"
  <2> DEFINE sized == [m EXCEPT !.array_size = << nt.count >>]
  <2>1. /\ IsMeta(sized) /\ sized["array_size"] = << nt.count >>
        /\ \A f \in Fields : f # "array_size" => sized[f] = m[f]
    BY FieldNames DEF IsMeta
  <2>2. Applied(m, nt) = apply_optional_display_control_alarm(sized, nt)
    BY <1>3 DEF Applied
  <2> HIDE DEF sized
  <2>3. IsMeta(Applied(m, nt)) /\ \A f \in Fields : Applied(m, nt)[f] = Limits(nt, f, sized[f])
    BY <2>1, <2>2, LimitsApplied
  <2>4. \A f \in Fields :
          Heard(m, nt)[f] = IF f = "array_size" THEN << nt.count >> ELSE Limits(nt, f, m[f])
    BY <1>1, <1>3, HeardArray
  <2>5. Limits(nt, "array_size", << nt.count >>) = << nt.count >>
    BY Unsaid
  <2> QED BY <2>1, <2>3, <2>4, <2>5
<1>4. CASE nt.nt = "Matrix"
  <2>1. Applied(m, nt) = ApplyIf(m, nt.display, apply_display)
    BY <1>4 DEF Applied
  <2>2. \A f \in Fields : Heard(m, nt)[f] = Shown(nt, f, m[f])
    BY <1>1, <1>4, HeardMatrix
  <2>3. /\ IsMeta(ApplyIf(m, nt.display, apply_display))
        /\ \A f \in Fields : ApplyIf(m, nt.display, apply_display)[f] = Shown(nt, f, m[f])
    BY DisplayIfApplied
  <2> QED BY <2>1, <2>2, <2>3
<1>5. CASE nt.nt = "NTEnum"
  <2>1. Applied(m, nt) = [m EXCEPT !.enum_choices = nt.choices]
    BY <1>5 DEF Applied
  <2>2. IsMeta(Applied(m, nt))
    BY <2>1, FieldNames DEF IsMeta
  <2>3. \A f \in Fields : Applied(m, nt)[f] = IF f = "enum_choices" THEN nt.choices ELSE m[f]
    BY <1>1, <2>1
  <2>4. \A f \in Fields : Heard(m, nt)[f] = IF f = "enum_choices" THEN nt.choices ELSE m[f]
    BY <1>1, <1>5, HeardEnum
  <2> QED BY <2>2, <2>3, <2>4
<1>6. CASE nt.nt = "NTNDArray"
  <2>1. Applied(m, nt) = [m EXCEPT !.dimensions = DimensionInfo(nt)]
    BY <1>6 DEF Applied
  <2>2. IsMeta(Applied(m, nt))
    BY <2>1, FieldNames DEF IsMeta
  <2>3. \A f \in Fields : Applied(m, nt)[f] = IF f = "dimensions" THEN DimensionInfo(nt) ELSE m[f]
    BY <1>1, <2>1
  <2>4. \A f \in Fields : Heard(m, nt)[f] = IF f = "dimensions" THEN DimensionInfo(nt) ELSE m[f]
    BY <1>1, <1>6, HeardImage
  <2> QED BY <2>2, <2>3, <2>4
<1>7. CASE nt.nt \notin Updating
  <2>1. Applied(m, nt) = m
    BY <1>7 DEF Applied, Updating
  <2>2. \A f \in Fields : Heard(m, nt)[f] = m[f]
    BY <1>1, <1>7, HeardOther
  <2> QED BY <2>1, <2>2
<1> QED BY <1>2, <1>3, <1>4, <1>5, <1>6, <1>7 DEF Updating

\* What is captured of a type that no later one updates.
LEMMA CapturedOnce ==
  ASSUME NEW nt \in MetaTypes, nt.nt \notin Updating, NEW now \in Nat
  PROVE  LET m == from_initial_update(nt, now) IN IsMeta(m) /\ m.updated_at = now
<1> DEFINE m == from_initial_update(nt, now)
           fresh == [Empty EXCEPT !.data_type = DataType(nt), !.updated_at = now]
           Typed(st) == [fresh EXCEPT !.scalar_type = << st >>]
<1>1. IsMeta(fresh) /\ fresh.updated_at = now
  BY EmptyIsMeta, FieldNames DEF IsMeta
<1>2. CASE nt.nt = "Histogram"
  <2>1. m = [fresh EXCEPT !.description = nt.descriptor, !.array_size = << nt.count >>]
    BY <1>2 DEF from_initial_update
  <2> HIDE DEF m, fresh
  <2> QED BY <1>1, <2>1, FieldNames DEF IsMeta, m
<1>3. CASE nt.nt = "Continuum"
  <2>1. PICK u : m = [Typed("Double") EXCEPT !.description = nt.descriptor,
                        !.array_size = << nt.count >>, !.units = u]
    BY <1>3 DEF from_initial_update
  <2> HIDE DEF m, fresh
  <2> QED BY <1>1, <2>1, FieldNames DEF IsMeta, m
<1>4. CASE nt.nt = "NameValue"
  <2>1. m = [Typed(nt.st) EXCEPT !.description = nt.descriptor, !.array_size = << nt.count >>]
    BY <1>4 DEF from_initial_update
  <2> HIDE DEF m, fresh
  <2> QED BY <1>1, <2>1, FieldNames DEF IsMeta, m
<1>5. CASE nt.nt \in {"Table", "MultiChannel"}
  <2>1. m = [fresh EXCEPT !.array_size = << nt.count >>]
    BY <1>5 DEF from_initial_update
  <2> HIDE DEF m, fresh
  <2> QED BY <1>1, <2>1, FieldNames DEF IsMeta, m
<1>6. CASE nt.nt = "Aggregate"
  <2>1. m = Typed("Double")
    BY <1>6 DEF from_initial_update
  <2> HIDE DEF m, fresh
  <2> QED BY <1>1, <2>1, FieldNames DEF IsMeta, m
<1>7. CASE nt.nt = "Union"
  <2>1. PICK st : m = [fresh EXCEPT !.description = nt.descriptor, !.scalar_type = st]
    BY <1>7 DEF from_initial_update
  <2> HIDE DEF m, fresh
  <2> QED BY <1>1, <2>1, FieldNames DEF IsMeta, m
<1>8. CASE nt.nt \notin {"Histogram", "Continuum", "NameValue", "Table", "MultiChannel",
                         "Aggregate", "Union"}
  <2>1. m = fresh
    BY <1>8 DEF from_initial_update, Updating
  <2> QED BY <1>1, <2>1
<1> QED BY <1>2, <1>3, <1>4, <1>5, <1>6, <1>7, <1>8

\* What the first type says is in what is captured of it.
LEMMA CaptureApplied ==
  ASSUME NEW nt \in MetaTypes, NEW now \in Nat
  PROVE  LET m == from_initial_update(nt, now) IN
         /\ IsMeta(m) /\ m.updated_at = now
         /\ \A f \in Fields : Heard(m, nt)[f] = m[f]
<1> DEFINE m == from_initial_update(nt, now)
           fresh == [Empty EXCEPT !.data_type = DataType(nt), !.updated_at = now]
           Typed(st) == [fresh EXCEPT !.scalar_type = << st >>]
<1>1. IsMeta(fresh) /\ fresh.updated_at = now
  BY EmptyIsMeta, FieldNames DEF IsMeta
<1>2. ASSUME NEW st PROVE IsMeta(Typed(st)) /\ Typed(st).updated_at = now
  <2> HIDE DEF fresh
  <2> QED BY <1>1, FieldNames DEF IsMeta
<1>3. "updated_at" \in Fields /\ "array_size" \in Fields /\ "dimensions" \in Fields
  BY FieldNames
<1>4. CASE nt.nt = "NTScalar"
  <2> DEFINE t == Typed(nt.st)
  <2>1. m = apply_optional_display_control_alarm(t, nt)
    BY <1>4 DEF from_initial_update
  <2>2. IsMeta(t) /\ t.updated_at = now
    BY <1>2
  <2> HIDE DEF t, m
  <2>3. IsMeta(m) /\ \A f \in Fields : m[f] = Limits(nt, f, t[f])
    BY <2>1, <2>2, LimitsApplied
  <2>4. m.updated_at = now
    BY <1>3, <2>2, <2>3, Unsaid
  <2>5. DOMAIN m = Fields
    BY <2>3, MetaDomain
  <2>6. ASSUME NEW f \in Fields PROVE Heard(m, nt)[f] = m[f]
    <3>1. Heard(m, nt)[f] = Limits(nt, f, m[f])
      BY <1>4, <2>5, HeardScalar
    <3> QED BY <2>3, <3>1, SaidTwice
  <2> QED BY <2>3, <2>4, <2>6 DEF m
<1>5. CASE nt.nt = "NTScalarArray"
  <2> DEFINE t == Typed(nt.st)
             sized == [t EXCEPT !.array_size = << nt.count >>]
  <2>1. m = apply_optional_display_control_alarm(sized, nt)
    BY <1>5 DEF from_initial_update
  <2>2. IsMeta(t) /\ t.updated_at = now
    BY <1>2
  <2> HIDE DEF t, m
  <2>3. IsMeta(sized) /\ sized["array_size"] = << nt.count >> /\ sized.updated_at = now
    BY <2>2, FieldNames DEF IsMeta
  <2> HIDE DEF sized
  <2>4. IsMeta(m) /\ \A f \in Fields : m[f] = Limits(nt, f, sized[f])
    BY <2>1, <2>3, LimitsApplied
  <2>5. m.updated_at = now /\ m["array_size"] = << nt.count >>
    BY <1>3, <2>3, <2>4, Unsaid
  <2>6. DOMAIN m = Fields
    BY <2>4, MetaDomain
  <2>7. ASSUME NEW f \in Fields PROVE Heard(m, nt)[f] = m[f]
    <3>1. Heard(m, nt)[f] = IF f = "array_size" THEN << nt.count >> ELSE Limits(nt, f, m[f])
      BY <1>5, <2>6, HeardArray
    <3>2. Limits(nt, f, m[f]) = m[f]
      BY <2>4, SaidTwice
    <3> QED BY <2>5, <3>1, <3>2
  <2> QED BY <2>4, <2>5, <2>7 DEF m
<1>6. CASE nt.nt = "Matrix"
  <2> DEFINE t == Typed("Double")
             base == [t EXCEPT !.array_size = << nt.count >>, !.description = nt.descriptor]
             shown == ApplyIf(base, nt.display, apply_display)
  <2>1. m = [shown EXCEPT !.dimensions = MatrixDimensions(nt)]
    BY <1>6 DEF from_initial_update
  <2>2. IsMeta(t) /\ t.updated_at = now
    BY <1>2
  <2> HIDE DEF t, m
  <2>3. IsMeta(base) /\ base.updated_at = now
    BY <2>2, FieldNames DEF IsMeta
  <2> HIDE DEF base
  <2>4. IsMeta(shown) /\ \A f \in Fields : shown[f] = Shown(nt, f, base[f])
    BY <2>3, DisplayIfApplied
  <2> HIDE DEF shown
  <2>5. IsMeta(m) /\ \A f \in Fields : f # "dimensions" => m[f] = shown[f]
    BY <2>1, <2>4, FieldNames DEF IsMeta
  <2>6. m.updated_at = now
    BY <1>3, <2>3, <2>4, <2>5, Unsaid
  <2>7. DOMAIN m = Fields
    BY <2>5, MetaDomain
  <2>8. ASSUME NEW f \in Fields PROVE Heard(m, nt)[f] = m[f]
    <3>1. Heard(m, nt)[f] = Shown(nt, f, m[f])
      BY <1>6, <2>7, HeardMatrix
    <3>2. CASE f = "dimensions"
      BY <3>1, <3>2, Unsaid
    <3>3. CASE f # "dimensions"
      BY <2>4, <2>5, <3>1, <3>3, SaidTwice
    <3> QED BY <3>2, <3>3
  <2> QED BY <2>5, <2>6, <2>8 DEF m
<1>7. CASE nt.nt = "NTEnum"
  <2> DEFINE t == Typed("Int")
  <2>1. m = [t EXCEPT !.enum_choices = nt.choices]
    BY <1>7 DEF from_initial_update
  <2>2. IsMeta(t) /\ t.updated_at = now
    BY <1>2
  <2> HIDE DEF t, m
  <2>3. IsMeta(m) /\ m.updated_at = now /\ m["enum_choices"] = nt.choices
    BY <2>1, <2>2, FieldNames DEF IsMeta
  <2>4. DOMAIN m = Fields
    BY <2>3, MetaDomain
  <2> QED BY <1>7, <2>3, <2>4, HeardEnum DEF m
<1>8. CASE nt.nt = "NTNDArray"
  <2> DEFINE t == Typed(nt.st)
  <2>1. m = [t EXCEPT !.dimensions = DimensionInfo(nt)]
    BY <1>8 DEF from_initial_update
  <2>2. IsMeta(t) /\ t.updated_at = now
    BY <1>2
  <2> HIDE DEF t, m
  <2>3. IsMeta(m) /\ m.updated_at = now /\ m["dimensions"] = DimensionInfo(nt)
    BY <2>1, <2>2, FieldNames DEF IsMeta
  <2>4. DOMAIN m = Fields
    BY <2>3, MetaDomain
  <2> QED BY <1>8, <2>3, <2>4, HeardImage DEF m
<1>9. CASE nt.nt \notin Updating
  <2>1. IsMeta(m) /\ m.updated_at = now
    BY <1>9, CapturedOnce
  <2> HIDE DEF m
  <2>2. DOMAIN m = Fields
    BY <2>1, MetaDomain
  <2> QED BY <1>9, <2>1, <2>2, HeardOther DEF m
<1> QED BY <1>4, <1>5, <1>6, <1>7, <1>8, <1>9 DEF Updating

\* What is said of a field does not depend on the others.
LEMMA SameHeard ==
  ASSUME NEW m, NEW n, DOMAIN m = Fields, DOMAIN n = Fields, NEW nt,
         NEW f \in Fields, m[f] = n[f]
  PROVE  Heard(m, nt)[f] = Heard(n, nt)[f]
<1>1. CASE nt.nt = "NTScalar"
  BY <1>1, HeardScalar
<1>2. CASE nt.nt = "NTScalarArray"
  BY <1>2, HeardArray
<1>3. CASE nt.nt = "Matrix"
  BY <1>3, HeardMatrix
<1>4. CASE nt.nt = "NTEnum"
  BY <1>4, HeardEnum
<1>5. CASE nt.nt = "NTNDArray"
  BY <1>5, HeardImage
<1>6. CASE nt.nt \notin Updating
  BY <1>6, HeardOther
<1> QED BY <1>1, <1>2, <1>3, <1>4, <1>5, <1>6 DEF Updating

LEMMA RowInLimits ==
  ASSUME NEW m, IsMeta(m)
  PROVE  /\ from_core(m).precision \in 0..15
         /\ from_core(m).min_step >= 0 /\ from_core(m).alarm_hysteresis >= 0
<1>1. \A n \in Int \cup {NaN} : AtLeast(n, 0) >= 0
  BY DEF AtLeast
<1>2. \A n \in Int : Clamp(n, 0, 15) \in 0..15
  BY MetadataAssumption DEF Clamp, AtLeast
<1> QED
  BY <1>1, <1>2, FieldNames DEF IsMeta, from_core

\* The history follows the table, whose date is of the past.
MetadataInv ==
  /\ clock \in Nat /\ IsMeta(metadata)
  /\ metadata.updated_at \in 0..clock /\ (clock > 0 => metadata.updated_at < clock)
  /\ DOMAIN said = Fields
  /\ MetadataFollows

LEMMA InitMetadata == MetadataInit => MetadataInv
<1> SUFFICES ASSUME MetadataInit PROVE MetadataInv
  OBVIOUS
<1>1. IsMeta(metadata) /\ metadata = said /\ clock = 0 /\ DOMAIN said = Fields
  BY EmptyIsMeta, MetaDomain DEF MetadataInit
<1>2. metadata.updated_at = 0
  BY DEF MetadataInit, Empty
<1>3. /\ stored_row.precision \in 0..15
      /\ stored_row.min_step >= 0 /\ stored_row.alarm_hysteresis >= 0
  BY EmptyIsMeta, RowInLimits DEF MetadataInit
<1>4. noticed.changed = FALSE /\ noticed.before = metadata
  BY DEF MetadataInit
<1> QED BY <1>1, <1>2, <1>3, <1>4 DEF MetadataInv, MetadataFollows, Compared

LEMMA CaptureFollows ==
  ASSUME MetadataInv, NEW nt \in MetaTypes, maybe_attach_metadata(nt)
  PROVE  MetadataInv'
<1>1. clock \in Nat /\ clock' = clock + 1
  BY DEF MetadataInv, maybe_attach_metadata, MetadataCall
<1>2. /\ IsMeta(metadata') /\ metadata'.updated_at = clock
      /\ \A f \in Fields : Heard(metadata', nt)[f] = metadata'[f]
  BY <1>1, CaptureApplied DEF maybe_attach_metadata
<1>3. /\ said' = Heard(metadata', nt) /\ stored_row' = from_core(metadata')
      /\ noticed'.before = metadata' /\ noticed'.changed = FALSE
  BY DEF maybe_attach_metadata
<1>4. DOMAIN metadata' = Fields /\ DOMAIN said' = Fields
  BY <1>2, <1>3, MetaDomain DEF Heard
<1>5. /\ stored_row'.precision \in 0..15
      /\ stored_row'.min_step >= 0 /\ stored_row'.alarm_hysteresis >= 0
  BY <1>2, <1>3, RowInLimits
<1>6. MetadataFollows'
  BY <1>2, <1>3, <1>4, <1>5 DEF MetadataFollows
<1> QED BY <1>1, <1>2, <1>4, <1>6 DEF MetadataInv

LEMMA UpdateFollows ==
  ASSUME MetadataInv, NEW nt \in MetaTypes, UpdateMetadata(nt)
  PROVE  MetadataInv'
<1> DEFINE applied == Applied(metadata, nt)
           changed == differs_from(applied, metadata)
<1>1. clock \in Nat /\ clock' = clock + 1 /\ metadata.updated_at \in Nat
      /\ metadata.updated_at < clock
  BY DEF MetadataInv, UpdateMetadata, MetadataCall
<1>2. IsMeta(metadata) /\ DOMAIN metadata = Fields /\ DOMAIN said = Fields
      /\ \A f \in Fields \ {"updated_at"} : metadata[f] = said[f]
  BY MetaDomain DEF MetadataInv, MetadataFollows
<1>3. IsMeta(applied) /\ \A f \in Fields : applied[f] = Heard(metadata, nt)[f]
  BY <1>2, UpdateApplied
<1>4. /\ metadata' = IF changed THEN [applied EXCEPT !.updated_at = clock] ELSE applied
      /\ noticed'.before = metadata /\ noticed'.changed = changed
      /\ stored_row' = from_core(metadata') /\ said' = Heard(said, nt)
  BY DEF UpdateMetadata, update_from
<1>5. changed \in BOOLEAN
  BY DEF differs_from
<1>6. changed <=> \E f \in SnapshotFields : applied[f] # metadata[f] \/ applied[f] = NaN
  BY DEF differs_from, Unequal
<1> HIDE DEF applied, changed
<1>7. /\ IsMeta(metadata') /\ DOMAIN metadata' = Fields
      /\ \A f \in Fields \ {"updated_at"} : metadata'[f] = applied[f]
      /\ metadata'["updated_at"] = IF changed THEN clock ELSE applied["updated_at"]
  BY <1>3, <1>4, FieldNames DEF IsMeta
<1>8. \A f \in Fields \ {"updated_at"} : Heard(said, nt)[f] = Heard(metadata, nt)[f]
  BY <1>2, SameHeard
<1>9. \A f \in Fields \ {"updated_at"} : metadata'[f] = said'[f]
  BY <1>3, <1>4, <1>7, <1>8
<1>10. \A f \in {"data_type", "scalar_type", "updated_at"} : applied[f] = metadata[f]
  <2>1. \A f \in {"data_type", "scalar_type", "updated_at"} :
          f \in Fields /\ Heard(metadata, nt)[f] = metadata[f]
    BY <1>2, FieldNames DEF Heard
  <2> QED BY <1>3, <2>1
<1>11. Fields \ {"display_form", "min_step", "updated_at"}
         = SnapshotFields \cup {"data_type", "scalar_type"}
  BY FieldNames DEF SnapshotFields
<1>12. /\ (\E f \in Compared' : metadata'[f] # metadata[f]) => changed
       /\ changed => \E f \in Compared' : metadata'[f] # metadata[f] \/ metadata'[f] = NaN
  <2>1. Compared' = SnapshotFields \cup {"data_type", "scalar_type"}
    BY <1>7, <1>11 DEF Compared
  <2>2. \A f \in Compared' : f \in Fields \ {"updated_at"}
    BY <1>7 DEF Compared
  <2> QED
    BY <1>6, <1>7, <1>10, <2>1, <2>2
<1>13. changed <=> metadata'.updated_at # metadata.updated_at
  BY <1>1, <1>5, <1>7, <1>10
<1>14. metadata'.updated_at \in Nat /\ metadata'.updated_at < clock'
  BY <1>1, <1>5, <1>7, <1>10
<1>15. /\ stored_row'.precision \in 0..15
       /\ stored_row'.min_step >= 0 /\ stored_row'.alarm_hysteresis >= 0
  BY <1>4, <1>7, RowInLimits
<1>16. DOMAIN said' = Fields
  BY <1>2, <1>4 DEF Heard
<1>17. MetadataFollows'
  BY <1>4, <1>7, <1>9, <1>12, <1>13, <1>15 DEF MetadataFollows
<1> QED BY <1>1, <1>7, <1>14, <1>16, <1>17 DEF MetadataInv

LEMMA NextMetadata == MetadataInv /\ [MetadataNext]_metadataVars => MetadataInv'
<1> SUFFICES ASSUME MetadataInv, [MetadataNext]_metadataVars PROVE MetadataInv'
  OBVIOUS
<1>1. ASSUME NEW nt \in MetaTypes, maybe_attach_metadata(nt) PROVE MetadataInv'
  BY <1>1, CaptureFollows
<1>2. ASSUME NEW nt \in MetaTypes, UpdateMetadata(nt) PROVE MetadataInv'
  BY <1>2, UpdateFollows
<1>3. CASE ResetConverter
  <2>1. /\ clock \in Nat /\ clock' = clock + 1
        /\ UNCHANGED << metadata, noticed, stored_row, said >>
    BY <1>3 DEF MetadataInv, ResetConverter, MetadataCall
  <2>2. metadata.updated_at \in Nat /\ metadata.updated_at < clock + 1
    BY <2>1 DEF MetadataInv
  <2> QED BY <2>1, <2>2 DEF MetadataInv, MetadataFollows, Compared
<1>4. CASE UNCHANGED metadataVars
  BY <1>4 DEF metadataVars, MetadataInv, MetadataFollows, Compared
<1> QED BY <1>1, <1>2, <1>3, <1>4 DEF MetadataNext

\* The metadata of a PV follow the types of its updates, for any types: every
\* field is what the last type that spoke of it said, update_from misses no
\* change of a field it compares and sees one where there is none only if a
\* limit is NaN, and the row is within the limits of its columns (PvMetadata,
\* PvConverter::reset, StoredMetadata::from_core).
THEOREM MetadataFollowsTypes == MetadataSpec => []MetadataFollows
<1>1. MetadataSpec => []MetadataInv
  BY InitMetadata, NextMetadata, PTL DEF MetadataSpec
<1>2. MetadataInv => MetadataFollows
  BY DEF MetadataInv
<1> QED BY <1>1, <1>2, PTL
=============================================================================
