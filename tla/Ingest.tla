------------------------------- MODULE Ingest -------------------------------
(***************************************************************************)
(* One ingest shard (aura-ingest/thread.rs, engine.rs, converter.rs,       *)
(* heartbeat.rs) with what feeds it: the monitors of the sessions          *)
(* (runtime/session.rs, handle_monitor_update), the shard's channel of the *)
(* monitor bus (monitor/bus.rs), and the steps of the main loop            *)
(* (main.rs, handlers.rs) that change the shared name cache, the heartbeat *)
(* configuration and the shutdown flag.                                    *)
(*                                                                         *)
(* An update is known by its number; its bit set is the set of field       *)
(* groups it carries.  A clock tick is the scan interval, 10 s.            *)
(***************************************************************************)
EXTENDS Integers, Sequences, SequencesExt

CONSTANTS
    PVs,            \* process variables of this shard
    Nobody,         \* no PV
    Initial,        \* those subscribed when the shard was spawned
    Layout,         \* Layout[p]: the decoder that fits the PV's type
    BusCap,         \* capacity of the shard's channel (50 000)
    DrainMax,       \* events taken per iteration (65 536)
    DefaultBeat,    \* default_heartbeat_s, in ticks; 0 is off
    Beats,          \* values of pv_config.heartbeat_s, in ticks; -1 is NULL
    MaxUpdates,     \* bound: updates sent by the IOC
    MaxOps,         \* bound: calls of the main loop
    MaxTicks        \* bound: clock ticks

Layouts == {"scalar", "string", "array", "enum", "none"}

ASSUME IngestAssumption ==
    /\ IsFiniteSet(PVs) /\ Initial \subseteq PVs /\ Nobody \notin PVs
    /\ Layout \in [PVs -> Layouts]
    /\ BusCap \in Nat \ {0} /\ DrainMax \in Nat /\ DrainMax > BusCap
    /\ DefaultBeat \in Nat
    /\ Beats \subseteq Nat \cup {-1} /\ -1 \in Beats
    /\ MaxUpdates \in Nat /\ MaxOps \in Nat /\ MaxTicks \in Nat

VARIABLES
    monitors,           \* MonitorEntry of each PV, in whichever session
    bus,                \* the shard's channel
    pv_cache,           \* names the shared cache maps to an id
    heartbeat_config,   \* the configuration the main loop stored last
    main,               \* the call of the main loop in progress
    shutdown,           \* the ingest_shutdown flag
    shard,              \* locals of run_ingest_shard
    beat,               \* HeartbeatTracker.entries
    tracker,            \* the tracker's other fields
    metrics,            \* counters of lost events (not those of throughput)
    rows,               \* rows offered to the shared buffer, in order
    sent, ops, ticks    \* bounded counters; ticks is the clock

vars == << monitors, bus, pv_cache, heartbeat_config, main, shutdown, shard,
           beat, tracker, metrics, rows, sent, ops, ticks >>

-----------------------------------------------------------------------------
Update == 1 .. MaxUpdates

(* on: the session has the entry.  started: updates_received > 0.  id: the *)
(* pv_id was resolved.  lazy: the session was given the name cache, which  *)
(* those of the startup subscription were not.                             *)
Monitor == [on : BOOLEAN, closing : BOOLEAN, started : BOOLEAN,
            id : BOOLEAN, lazy : BOOLEAN]

TaggedEvent == [pv : PVs, n : Update, id : BOOLEAN,
                kind : {"scalar", "string", "array", "value"},
                converts : BOOLEAN]

Row == [pv : PVs, n : Update \cup {0},
        via : {"scalar", "string", "array", "value", "heartbeat"}]

(* batch: event_buf.  cache: the snapshot of pv_cache it loaded last.      *)
(* fast, slow, skipped, unknown: the counters of this iteration.  now:     *)
(* batch_now.  scanned: last_heartbeat_scan.  What an iteration does not   *)
(* use any more is put back to its initial value.  discarded (history):    *)
(* the events that were in the channel when the thread returned.           *)
Shard == [pc : {"drain", "work", "scan", "idle", "done"},
          batch : Seq(TaggedEvent), cache : SUBSET PVs,
          fast : Nat, slow : Nat, skipped : Nat, unknown : Nat,
          now : Nat, scanned : Nat, discarded : Nat]

(* HeartbeatEntry; n is the update last_value came from.                   *)
Entry == [n : Update \cup {0}, severity : {-1, 0}, heartbeat_s : Beats,
          last_store_at : Nat]

Counters == [dropped : Nat, skipped : Nat, unknown : Nat]

Main == [pc : {"idle", "subscribe", "refresh", "forget", "closing", "joining",
               "joined"},
         pv : PVs \cup {Nobody}]

NewMonitor(lazy) == [on |-> TRUE, closing |-> FALSE, started |-> FALSE,
                     id |-> FALSE, lazy |-> lazy]

NoMonitor == [on |-> FALSE, closing |-> FALSE, started |-> FALSE,
              id |-> FALSE, lazy |-> FALSE]

(* HeartbeatEntry::new_inactive.                                           *)
NewEntry == [n |-> 0, severity |-> -1, heartbeat_s |-> -1,
             last_store_at |-> 0]

Init ==
    /\ monitors = [p \in PVs |-> IF p \in Initial THEN NewMonitor(FALSE)
                                 ELSE NoMonitor]
    /\ bus = << >>
    /\ pv_cache = Initial
    /\ heartbeat_config \in [beats : {[p \in Initial |-> h] : h \in Beats},
                            seen : {FALSE}]
    /\ main = [pc |-> "idle", pv |-> Nobody]
    /\ shutdown = FALSE
    /\ shard = [pc |-> "drain", batch |-> << >>, cache |-> {}, fast |-> 0,
                slow |-> 0, skipped |-> 0, unknown |-> 0, now |-> 0,
                scanned |-> 0, discarded |-> 0]
    /\ beat = [p \in PVs |-> NewEntry]
    /\ tracker = [loaded |-> FALSE, has_explicit_override |-> FALSE]
    /\ metrics = [dropped |-> 0, skipped |-> 0, unknown |-> 0]
    /\ rows = << >>
    /\ sent = 0 /\ ops = 0 /\ ticks = 0

-----------------------------------------------------------------------------
(***************************************************************************)
(* The sessions (updates that do not decode are not modelled).             *)
(***************************************************************************)

FieldGroups == {"value", "meta", "other"}

(* handle_monitor_update: a delta after the first update takes the fast    *)
(* path of the PV's layout unless it touches a field the layout does not   *)
(* know; arrays and enums also need their value in it.  A string delta     *)
(* without its value becomes a scalar one.  Everything else is decoded to  *)
(* a Value.                                                                *)
Kind(p, full, bits) ==
    LET fast == ~full /\ monitors[p].started /\ "other" \notin bits
    IN  CASE fast /\ Layout[p] = "scalar" -> "scalar"
          [] fast /\ Layout[p] = "string" ->
                IF "value" \in bits THEN "string" ELSE "scalar"
          [] fast /\ Layout[p] = "array" /\ "value" \in bits -> "array"
          [] fast /\ Layout[p] = "enum" /\ "value" \in bits -> "scalar"
          [] OTHER -> "value"

(* The converter recognises scalars, enums and arrays by the shape of the  *)
(* value field, which a delta may lack; a first delta counts as any other. *)
Converts(p, full, bits) == Layout[p] # "none" /\ (full \/ "value" \in bits)

(* MonitorBusTx::send_to_shard: try_send fails on a full channel and, once *)
(* the shard has dropped its receiver, always.                             *)
SendToShard(e) ==
    IF shard.pc # "done" /\ Len(bus) < BusCap
    THEN /\ bus' = Append(bus, e)
         /\ UNCHANGED metrics
    ELSE /\ metrics' = [metrics EXCEPT !.dropped = @ + 1]
         /\ UNCHANGED bus

MonitorUpdate(p, full, bits) ==
    LET m == monitors[p]
        id == m.id \/ (m.lazy /\ p \in pv_cache)
    IN  /\ m.on /\ sent < MaxUpdates
        /\ SendToShard([pv |-> p, n |-> sent + 1, id |-> id,
                        kind |-> Kind(p, full, bits),
                        converts |-> Converts(p, full, bits)])
        /\ monitors' = [monitors EXCEPT ![p].started = TRUE, ![p].id = id]
        /\ sent' = sent + 1
        /\ UNCHANGED << pv_cache, heartbeat_config, main, shutdown, shard,
                        beat, tracker, rows, ops, ticks >>

(* RemoveMonitor reaches the session.                                      *)
MonitorRemoved(p) ==
    /\ monitors[p].on /\ monitors[p].closing
    /\ monitors' = [monitors EXCEPT ![p] = NoMonitor]
    /\ UNCHANGED << bus, pv_cache, heartbeat_config, main, shutdown, shard,
                    beat, tracker, metrics, rows, sent, ops, ticks >>

(* The session of p is lost and its event loop subscribes again.           *)
MonitorRestored(p) ==
    /\ monitors[p].on /\ monitors[p].started
    /\ monitors' = [monitors EXCEPT ![p] = NewMonitor(@.lazy)]
    /\ UNCHANGED << bus, pv_cache, heartbeat_config, main, shutdown, shard,
                    beat, tracker, metrics, rows, sent, ops, ticks >>

(* The sessions have acted on Shutdown.                                    *)
SessionsClosed ==
    /\ main.pc \in {"closing", "joining"}
    /\ \E p \in PVs : monitors[p].on
    /\ monitors' = [p \in PVs |-> NoMonitor]
    /\ UNCHANGED << bus, pv_cache, heartbeat_config, main, shutdown, shard,
                    beat, tracker, metrics, rows, sent, ops, ticks >>

-----------------------------------------------------------------------------
(***************************************************************************)
(* The main loop.                                                          *)
(***************************************************************************)

MainStep(pc, p) == main' = [main EXCEPT !.pc = pc, !.pv = p]

(* subscribe_pvs: the name enters the cache before the subscription (not   *)
(* if a query fails), and again after it succeeded.  A monitor that is     *)
(* being removed is gone by then: the session takes its commands in order. *)
PreRegister(p) ==
    /\ main.pc = "idle" /\ ops < MaxOps
    /\ ~monitors[p].on \/ monitors[p].closing
    /\ pv_cache' \in {pv_cache, pv_cache \cup {p}}
    /\ MainStep("subscribe", p)
    /\ ops' = ops + 1
    /\ UNCHANGED << monitors, bus, heartbeat_config, shutdown, shard, beat,
                    tracker, metrics, rows, sent, ticks >>

SubscribeOk(lazy) ==
    /\ main.pc = "subscribe" /\ ~monitors[main.pv].on
    /\ monitors' = [monitors EXCEPT ![main.pv] = NewMonitor(lazy)]
    /\ MainStep("refresh", main.pv)
    /\ UNCHANGED << bus, pv_cache, heartbeat_config, shutdown, shard, beat,
                    tracker, metrics, rows, sent, ops, ticks >>

SubscribeFailed ==
    /\ main.pc = "subscribe"
    /\ MainStep("idle", Nobody)
    /\ UNCHANGED << monitors, bus, pv_cache, heartbeat_config, shutdown, shard,
                    beat, tracker, metrics, rows, sent, ops, ticks >>

RefreshCache ==
    /\ main.pc = "refresh"
    /\ pv_cache' \in {pv_cache, pv_cache \cup {main.pv}}
    /\ MainStep("idle", Nobody)
    /\ UNCHANGED << monitors, bus, heartbeat_config, shutdown, shard, beat,
                    tracker, metrics, rows, sent, ops, ticks >>

(* Unsubscribe: the command is sent to the session, then the name leaves   *)
(* the cache; the session acts on its own time.                            *)
UnsubscribeSend(p) ==
    /\ main.pc = "idle" /\ ops < MaxOps
    /\ monitors' = [monitors EXCEPT ![p].closing = monitors[p].on]
    /\ MainStep("forget", p)
    /\ ops' = ops + 1
    /\ UNCHANGED << bus, pv_cache, heartbeat_config, shutdown, shard, beat,
                    tracker, metrics, rows, sent, ticks >>

ForgetName ==
    /\ main.pc = "forget"
    /\ pv_cache' = pv_cache \ {main.pv}
    /\ MainStep("idle", Nobody)
    /\ UNCHANGED << monitors, bus, heartbeat_config, shutdown, shard, beat,
                    tracker, metrics, rows, sent, ops, ticks >>

(* The heartbeat configuration of the enabled PVs is read again into a new *)
(* allocation.  seen: its address is the one the tracker remembers, which  *)
(* an address freed since the last scan may be.                            *)
ReloadConfig ==
    /\ main.pc = "idle" /\ ops < MaxOps
    /\ \E S \in SUBSET PVs : \E beats \in [S -> Beats] :
       \E seen \in {FALSE} \cup {tracker.loaded /\ ~heartbeat_config.seen} :
            heartbeat_config' = [beats |-> beats, seen |-> seen]
    /\ ops' = ops + 1
    /\ UNCHANGED << monitors, bus, pv_cache, main, shutdown, shard, beat,
                    tracker, metrics, rows, sent, ticks >>

(* Ordered shutdown: shutdown_sessions (which waits 50 ms, not for the     *)
(* sessions), the flag, join.                                             *)
ShutdownSessions ==
    /\ main.pc = "idle"
    /\ MainStep("closing", Nobody)
    /\ UNCHANGED << monitors, bus, pv_cache, heartbeat_config, shutdown, shard,
                    beat, tracker, metrics, rows, sent, ops, ticks >>

StopIngest ==
    /\ main.pc = "closing"
    /\ shutdown' = TRUE
    /\ MainStep("joining", Nobody)
    /\ UNCHANGED << monitors, bus, pv_cache, heartbeat_config, shard, beat,
                    tracker, metrics, rows, sent, ops, ticks >>

JoinIngest ==
    /\ main.pc = "joining" /\ shard.pc = "done"
    /\ MainStep("joined", Nobody)
    /\ UNCHANGED << monitors, bus, pv_cache, heartbeat_config, shutdown, shard,
                    beat, tracker, metrics, rows, sent, ops, ticks >>

-----------------------------------------------------------------------------
(***************************************************************************)
(* The shard.                                                              *)
(***************************************************************************)

(* What the shard never changes.                                          *)
Outside == << monitors, pv_cache, main, shutdown, sent, ops, ticks >>

(* Mutant: the batch is filled from its front.                             *)
RecvFront ==
    /\ shard.pc = "drain" /\ bus # << >> /\ Len(shard.batch) < DrainMax
    /\ shard' = [shard EXCEPT !.batch = << Head(bus) >> \o @]
    /\ bus' = Tail(bus)
    /\ UNCHANGED << Outside, heartbeat_config, beat, tracker, metrics, rows >>

(* drain_into: try_recv until the channel is empty or the limit is met.    *)
Recv ==
    /\ shard.pc = "drain" /\ bus # << >> /\ Len(shard.batch) < DrainMax
    /\ shard' = [shard EXCEPT !.batch = Append(@, Head(bus))]
    /\ bus' = Tail(bus)
    /\ UNCHANGED << Outside, heartbeat_config, beat, tracker, metrics, rows >>

DrainEnd ==
    /\ shard.pc = "drain" /\ (bus = << >> \/ Len(shard.batch) = DrainMax)
    /\ shard' = [shard EXCEPT !.pc = "work", !.now = ticks, !.cache = pv_cache]
    /\ UNCHANGED << Outside, bus, heartbeat_config, beat, tracker, metrics,
                    rows >>

Event == Head(shard.batch)

Resolved == Event.id \/ Event.pv \in shard.cache

Offer(via) ==
    rows' = Append(rows, [pv |-> Event.pv, n |-> Event.n, via |-> via])

RecordStore ==
    /\ beat' = [beat EXCEPT ![Event.pv].n = Event.n,
                            ![Event.pv].severity = 0,
                            ![Event.pv].last_store_at = shard.now]

Working == shard.pc = "work" /\ shard.batch # << >>

(* event_buf.drain(..)                                                     *)
Pop(counters) == shard' = [counters EXCEPT !.batch = Tail(@)]

(* Mutant: the tracker records the event before its id is resolved.        *)
DropUnknownRecorded ==
    /\ Working /\ Event.kind # "value" /\ ~Resolved
    /\ RecordStore
    /\ Pop([shard EXCEPT !.unknown = @ + 1])
    /\ UNCHANGED << Outside, bus, heartbeat_config, tracker, metrics, rows >>

(* A delta whose PV has no id: counted and dropped.                        *)
DropUnknown ==
    /\ Working /\ Event.kind # "value" /\ ~Resolved
    /\ Pop([shard EXCEPT !.unknown = @ + 1])
    /\ UNCHANGED << Outside, bus, heartbeat_config, beat, tracker, metrics,
                    rows >>

(* The fast paths; only the scalar one feeds the heartbeat tracker.        *)
ProcessScalarDelta ==
    /\ Working /\ Event.kind = "scalar" /\ Resolved
    /\ Offer("scalar") /\ RecordStore
    /\ Pop([shard EXCEPT !.fast = @ + 1])
    /\ UNCHANGED << Outside, bus, heartbeat_config, tracker, metrics >>

ProcessOtherDelta ==
    /\ Working /\ Event.kind \in {"string", "array"} /\ Resolved
    /\ Offer(Event.kind)
    /\ Pop([shard EXCEPT !.fast = @ + 1])
    /\ UNCHANGED << Outside, bus, heartbeat_config, beat, tracker, metrics >>

(* process_event skips a PV without a converter, and only the PVs of the   *)
(* start have one in this thread's engine; or a value it cannot convert.   *)
Sampled == Event.pv \in Initial /\ Event.converts

(* The slow path.                                                          *)
ProcessValue ==
    /\ Working /\ Event.kind = "value"
    /\ IF Sampled /\ Resolved THEN Offer("value") ELSE UNCHANGED rows
    /\ Pop([shard EXCEPT !.slow = @ + 1,
                         !.skipped = IF Sampled THEN @ ELSE @ + 1,
                         !.unknown = IF Sampled /\ ~Resolved THEN @ + 1 ELSE @])
    /\ UNCHANGED << Outside, bus, heartbeat_config, beat, tracker, metrics >>

(* Mutant: unknown events are counted only in an iteration that stored.    *)
TallyIdleForgets ==
    /\ shard.pc = "work" /\ shard.batch = << >>
    /\ metrics' = IF shard.fast + shard.slow = 0 THEN metrics
                  ELSE [metrics EXCEPT !.skipped = @ + shard.skipped,
                                       !.unknown = @ + shard.unknown]
    /\ shard' = [shard EXCEPT
                   !.pc = IF ticks > shard.scanned THEN "scan" ELSE "idle",
                   !.cache = pv_cache, !.skipped = 0, !.unknown = 0]
    /\ UNCHANGED << Outside, bus, heartbeat_config, beat, tracker, rows >>

(* The counters of the iteration are added to the shared ones.  If the     *)
(* last scan is a tick old, the ids in the cache are read for another;     *)
(* emit_heartbeats reads the configuration after that.                     *)
Tally ==
    /\ shard.pc = "work" /\ shard.batch = << >>
    /\ metrics' = [metrics EXCEPT !.skipped = @ + shard.skipped,
                                  !.unknown = @ + shard.unknown]
    /\ shard' = [shard EXCEPT
                   !.pc = IF ticks > shard.scanned THEN "scan" ELSE "idle",
                   !.cache = pv_cache, !.skipped = 0, !.unknown = 0]
    /\ UNCHANGED << Outside, bus, heartbeat_config, beat, tracker, rows >>

(* set_pv_heartbeat for every PV of a configuration not seen before.       *)
Reloaded ==
    [p \in PVs |->
        IF ~heartbeat_config.seen /\ p \in DOMAIN heartbeat_config.beats
        THEN heartbeat_config.beats[p]
        ELSE beat[p].heartbeat_s]

Override ==
    \/ tracker.has_explicit_override
    \/ ~heartbeat_config.seen
       /\ \E p \in DOMAIN heartbeat_config.beats : heartbeat_config.beats[p] > 0

Interval(p) == IF Reloaded[p] < 0 THEN DefaultBeat ELSE Reloaded[p]

(* The entries the scan looks at: none when is_disabled.                   *)
Watched == {p \in PVs : (DefaultBeat > 0 \/ Override) /\ Interval(p) > 0}

Firing == {p \in Watched \cap shard.cache :
               /\ beat[p].severity >= 0
               /\ ticks - beat[p].last_store_at >= Interval(p)}

Heartbeat(p) == [pv |-> p, n |-> beat[p].n, via |-> "heartbeat"]

EmitHeartbeats ==
    /\ shard.pc = "scan"
    /\ beat' = [p \in PVs |->
                  [n |-> beat[p].n,
                   severity |-> IF p \in Watched \ shard.cache THEN -1
                                ELSE beat[p].severity,
                   heartbeat_s |-> Reloaded[p],
                   last_store_at |-> IF p \in Firing THEN ticks
                                     ELSE beat[p].last_store_at]]
    /\ tracker' = [loaded |-> TRUE, has_explicit_override |-> Override]
    /\ heartbeat_config' = [heartbeat_config EXCEPT !.seen = TRUE]
    /\ rows' = rows \o [i \in 1 .. Len(SetToSeq(Firing)) |->
                           Heartbeat(SetToSeq(Firing)[i])]
    /\ shard' = [shard EXCEPT !.pc = "idle", !.scanned = ticks]
    /\ UNCHANGED << Outside, bus, metrics >>

(* Only an iteration that stored nothing tests the flag.                   *)
Ends == shard.fast + shard.slow = 0 /\ shutdown

(* The thread returns, and its receiver is dropped with the events that    *)
(* came since the channel was drained.                                     *)
Idle ==
    /\ shard.pc = "idle"
    /\ shard' = [shard EXCEPT
                   !.pc = IF Ends THEN "done" ELSE "drain",
                   !.discarded = IF Ends THEN Len(bus) ELSE @,
                   !.fast = 0, !.slow = 0, !.now = 0, !.cache = {}]
    /\ bus' = IF Ends THEN << >> ELSE bus
    /\ UNCHANGED << Outside, heartbeat_config, beat, tracker, metrics, rows >>

Tick ==
    /\ ticks < MaxTicks
    /\ ticks' = ticks + 1
    /\ UNCHANGED << monitors, bus, pv_cache, heartbeat_config, main, shutdown,
                    shard, beat, tracker, metrics, rows, sent, ops >>

-----------------------------------------------------------------------------
SessionStep ==
    \/ \E p \in PVs : MonitorRemoved(p) \/ MonitorRestored(p)
    \/ \E p \in PVs, full \in BOOLEAN, bits \in (SUBSET FieldGroups) \ {{}} :
            MonitorUpdate(p, full, bits)
    \/ SessionsClosed

MainLoop ==
    \/ \E p \in PVs : PreRegister(p) \/ UnsubscribeSend(p)
    \/ \E lazy \in BOOLEAN : SubscribeOk(lazy)
    \/ SubscribeFailed \/ RefreshCache \/ ForgetName \/ ReloadConfig
    \/ ShutdownSessions \/ StopIngest \/ JoinIngest

ShardStep ==
    \/ Recv \/ DrainEnd
    \/ DropUnknown \/ ProcessScalarDelta \/ ProcessOtherDelta \/ ProcessValue
    \/ Tally \/ EmitHeartbeats \/ Idle

Next == SessionStep \/ MainLoop \/ ShardStep \/ Tick

Spec == Init /\ [][Next]_vars

-----------------------------------------------------------------------------
(* Every component keeps its shape; the channel and the batch stay within  *)
(* their capacities (try_send, drain_into).                                *)
TypeOK ==
    /\ monitors \in [PVs -> Monitor]
    /\ bus \in Seq(TaggedEvent) /\ Len(bus) <= BusCap
    /\ pv_cache \subseteq PVs
    /\ heartbeat_config \in [beats : UNION {[S -> Beats] : S \in SUBSET PVs},
                            seen : BOOLEAN]
    /\ main \in Main /\ shutdown \in BOOLEAN
    /\ main.pc \in {"subscribe", "refresh", "forget"} => main.pv \in PVs
    /\ shard \in Shard /\ Len(shard.batch) <= DrainMax
    /\ beat \in [PVs -> Entry]
    /\ tracker \in [loaded : BOOLEAN, has_explicit_override : BOOLEAN]
    /\ metrics \in Counters
    /\ rows \in Seq(Row)
    /\ sent \in 0 .. MaxUpdates /\ ops \in 0 .. MaxOps /\ ticks \in 0 .. MaxTicks

ValueRows == { i \in DOMAIN rows : rows[i].via # "heartbeat" }

(* No update disappears unseen: what a session sent is in the channel, in  *)
(* the batch, a row, or in one of the counters of lost events, those of    *)
(* the running iteration included, whatever the cache, the channel and the *)
(* converters did to it.  The one exception is the end of the thread: it   *)
(* leaves no event behind, and discards uncounted what was in its channel, *)
(* no more than a full channel, and only after the flag was set.           *)
EveryUpdateCounted ==
    /\ sent = Len(bus) + Len(shard.batch) + Cardinality(ValueRows)
                + metrics.dropped + metrics.skipped + shard.skipped
                + metrics.unknown + shard.unknown + shard.discarded
    /\ shard.discarded > 0 => shard.pc = "done" /\ shutdown
    /\ shard.discarded <= BusCap
    /\ shard.pc = "done" => bus = << >>

(* The rows of a PV keep the order of its updates, none comes twice, and   *)
(* what is still on its way is newer than what was stored, across          *)
(* reconnects and changes of decoder.                                      *)
RowsInOrder ==
    LET way == rows \o shard.batch \o bus
        updates == ValueRows \cup (Len(rows) + 1 .. Len(way))
    IN  \A i, j \in updates :
            i < j /\ way[i].pv = way[j].pv => way[i].n < way[j].n

(* A heartbeat repeats the last value the scalar fast path stored for the  *)
(* PV: never one that was dropped, skipped or belongs to nothing.          *)
HeartbeatRepeats ==
    \A i \in DOMAIN rows : rows[i].via = "heartbeat" =>
        \E j \in 1 .. i - 1 :
            /\ rows[j].pv = rows[i].pv /\ rows[j].n = rows[i].n
            /\ rows[j].via = "scalar"
            /\ \A k \in j + 1 .. i - 1 :
                    rows[k].pv = rows[i].pv => rows[k].via # "scalar"

=============================================================================
