------------------------------ MODULE PvStatus ------------------------------
(***************************************************************************)
(* The tables pv_status and pv_metadata and who writes them.  Event loops  *)
(* report what became of their connections through a bounded lifecycle     *)
(* channel (try_send); the main loop applies these reports, the operators' *)
(* commands and, at every stats tick, the counters the ingest shards left  *)
(* in pv_stats_sink and the metadata of first updates.  An IOC that is     *)
(* removed or added moves PVs between loops and writes neither table.      *)
(* Every write is a statement of its own that may fail and is then only    *)
(* logged.                                                                 *)
(*                                                                         *)
(* One server hosts all PVs.  An event loop keeps, for its reconnects, the *)
(* PVs it was spawned with; it may serve PVs outside PVs too, and reports  *)
(* on those alone are left out (LifecycleCap is what they leave).  Driver  *)
(* models how loops come about and the reconnect channel at its limit,     *)
(* Discover which PVs get a pv_id (an update without one is not counted).  *)
(* pv_events and the marker samples repeat the handler that writes them    *)
(* and are left out, and so is health_score, which every tick recomputes   *)
(* from state; the tick's data-loss alert and chunk tuning are in Alerts.  *)
(* Time is kept as last_event_at being younger or older than the timeout.  *)
(***************************************************************************)
EXTENDS Naturals, Sequences, FiniteSets

CONSTANTS
    PVs,            \* process variable names
    MaxLoops,       \* bound: event loops that may be spawned
    LifecycleCap,   \* capacity of the lifecycle channel (256)
    BulkAt,         \* batch size from which metadata is bulk inserted (100)
    MaxCommands,    \* bound: subscribes, unsubscribes and IOC changes
    MaxBreaks,      \* bound: connections that break
    MaxFaults       \* bound: failed statements

ASSUME PvStatusAssumption ==
    /\ MaxLoops \in Nat
    /\ LifecycleCap \in Nat \ {0} /\ BulkAt \in Nat \ {0}
    /\ MaxCommands \in Nat /\ MaxBreaks \in Nat /\ MaxFaults \in Nat

(***************************************************************************)
(* pv_status.state of migration 014 (0 = INIT is the column's default,     *)
(* which no statement leaves in place); "none" is a PV without a row.      *)
(***************************************************************************)
State == {"none", "searching", "connected", "archiving", "disconnected",
          "timeout", "unsubscribed"}

\* The event loops, in the order they are spawned, and no loop at all.
Loops == 1..MaxLoops
NoLoop == 0

VARIABLES
    loops,          \* event loop -> its connection, snapshot and monitors
    current,        \* the live loop session_commands routes to, or NoLoop
    token,          \* the loop whose cancel token the driver holds
    reconnects,     \* senders of reconnected sessions on their way to main
    name_server,    \* "up" while the server's IOC is configured, or "gone"
    subscribed,     \* PVs of pv_server_cache
    engine,         \* the engine's converter: "none", "new" or "used"
    lifecycle,      \* the lifecycle channel
    state,          \* pv_status.state
    last_event,     \* pv_status.last_event_at: "null", "fresh" or "stale"
    sink,           \* PVs counted in pv_stats_sink
    first,          \* monitors whose first update has not come yet
    metadata_buf,   \* PVs in the sessions' metadata buffer
    inline_meta,    \* PVs in the shards' inline_meta_store
    pv_metadata,    \* PVs with a row in pv_metadata
    stored,         \* metadata_stored_pvs
    main,           \* where the main loop is in its arm
    missed,         \* history: PVs with a lost report or a failed write
    moved,          \* history: PVs whose row an IOC change left behind
    torn,           \* history: marked PVs a failed bulk write left rowless
    commands, breaks, faults

net == << loops, current, token, reconnects, name_server, first >>
meta == << engine, metadata_buf, inline_meta, pv_metadata, stored, torn >>
row == << state, last_event >>
bounds == << commands, breaks, faults >>
vars == << net, subscribed, lifecycle, row, sink, meta, main, missed,
           moved, bounds >>

Report == [event : {"Connected", "Disconnected", "Reconnected"},
           pvs : SUBSET PVs]

EventLoop == [st : {"none", "up", "down", "over"}, cancelled : {"no", "yes"},
              pvs : SUBSET PVs, monitors : SUBSET PVs]

\* The loops that would report on p, and those that receive its updates.
Holders(p) == { l \in Loops : p \in loops[l].pvs \cup loops[l].monitors }
Feeds(p) == { l \in Loops : loops[l].st = "up" /\ p \in loops[l].monitors }

Cancelled(l) == loops[l].cancelled = "yes"

NewLoop(pvs, monitors) ==
    [st |-> "up", cancelled |-> "no", pvs |-> pvs, monitors |-> monitors]

Idle == [st |-> "none", cancelled |-> "no", pvs |-> {}, monitors |-> {}]
Over == [st |-> "over", cancelled |-> "no", pvs |-> {}, monitors |-> {}]

NextIdle(l) == loops[l] = Idle /\ \A k \in Loops : k < l => loops[k] # Idle

(***************************************************************************)
(* A sender is its loop.  Once the session has ended it is as good as      *)
(* none: a command sent on it fails, as with no sender at all.             *)
(***************************************************************************)
Closed(l, sender) == IF sender = l THEN NoLoop ELSE sender

(***************************************************************************)
(* MetadataDao::upsert_batch.  A small batch is one transaction; a large   *)
(* one is a DELETE and an INSERT on their own, and the rows are gone when  *)
(* only the first succeeds.                                                *)
(***************************************************************************)
UpsertBatch(table, batch, fails) ==
    IF ~fails THEN {table \cup batch}
    ELSE {table} \cup (IF Cardinality(batch) >= BulkAt THEN {table \ batch}
                                                     ELSE {})

\* Mutant: the names are remembered before the batch is known to be written.
MarkStoredEarly(names, batch, fails) == names \cup batch

MarkStored(names, batch, fails) == IF fails THEN names ELSE names \cup batch

(***************************************************************************)
(* The main loop starts after the startup subscribe, which found some of   *)
(* the PVs (and perhaps only others: an event loop with nothing of ours)   *)
(* and queued its report, and after collect_initial_metadata, which saw    *)
(* the first update of some of them and wrote their metadata, or failed    *)
(* to.  Startup then marks every PV of the id cache ARCHIVING, found or    *)
(* not, unless its statement fails (which leaves the rows as they were,    *)
(* here none); a previous process may have left rows in pv_metadata.       *)
(***************************************************************************)
StartRows(known, fails) ==
    LET written == IF fails THEN {} ELSE known IN
    /\ state = [p \in PVs |-> IF p \in written THEN "archiving" ELSE "none"]
    /\ last_event = [p \in PVs |-> IF p \in written THEN "fresh" ELSE "null"]
    /\ missed = known \ written

StartNet(found) ==
    \/ /\ found = {} /\ current = NoLoop
       /\ loops = [l \in Loops |-> Idle] /\ lifecycle = << >>
    \/ /\ current = 1 /\ current \in Loops
       /\ loops = [l \in Loops |-> IF l = current
                                   THEN NewLoop(found, found) ELSE Idle]
       /\ lifecycle = IF found = {} THEN << >>
                      ELSE << [event |-> "Connected", pvs |-> found] >>

StartMetadata(known, found, collected, fails) ==
    /\ first = found \ collected
    /\ engine = [p \in PVs |-> CASE p \in collected -> "used"
                                 [] p \in found \ collected -> "new"
                                 [] OTHER -> "none"]
    /\ inline_meta \in SUBSET collected
    /\ pv_metadata \in UpsertBatch(known, collected, fails)
    /\ stored = MarkStored({}, collected, fails)

Init ==
    /\ \E known \in SUBSET PVs : \E found \in SUBSET known :
          /\ subscribed = found
          /\ StartNet(found)
          /\ \E collected \in SUBSET found, fails, fails_row \in BOOLEAN :
                /\ StartMetadata(known, found, collected, fails)
                /\ StartRows(known, fails_row)
                /\ faults = IF fails \/ fails_row THEN 1 ELSE 0
                /\ faults <= MaxFaults
    /\ token = current /\ reconnects = << >> /\ name_server = "up"
    /\ sink = {} /\ metadata_buf = {}
    /\ main = "select"
    /\ moved = {} /\ torn = {}
    /\ commands = 0 /\ breaks = 0

-----------------------------------------------------------------------------
(***************************************************************************)
(* A report that finds the channel full is dropped.                        *)
(***************************************************************************)
TrySend(event, pvs) ==
    IF pvs # {} /\ Len(lifecycle) < LifecycleCap
    THEN /\ lifecycle' = Append(lifecycle, [event |-> event, pvs |-> pvs])
         /\ missed' = missed
    ELSE lifecycle' = lifecycle /\ missed' = missed \cup pvs

(***************************************************************************)
(* Statements that may fail, which is only logged; at most MaxFaults       *)
(* handlers meet a failure.                                                *)
(***************************************************************************)
Statements(outcomes) ==
    /\ faults' = faults + (IF TRUE \in outcomes THEN 1 ELSE 0)
    /\ faults' <= MaxFaults

Statement(fails) == Statements({fails})

SetState(pvs, new, fails) ==
    state' = IF fails THEN state
             ELSE [p \in PVs |-> IF p \in pvs THEN new ELSE state[p]]

SubscribeRow(p, fails) == SetState({p}, "searching", fails)

(***************************************************************************)
(* subscribe_pvs: monitor_batch on the live session or on a new one (in    *)
(* Driver also when the live one does not answer in time); the Connected   *)
(* report is sent before the row is written.  A command that came through  *)
(* Redis goes on to collect the metadata.  With no IOC configured          *)
(* monitor_batch finds nothing and nothing is written.                     *)
(***************************************************************************)
Subscribe(p, via, fails) ==
    /\ main = "select" /\ commands < MaxCommands
    /\ commands' = commands + 1
    /\ name_server = "up"
    /\ via = "notify" => p \notin subscribed
    /\ \E l \in Loops :
          /\ \/ /\ l = current
                /\ loops' = [loops EXCEPT ![l].monitors = @ \cup {p}]
                /\ token' = token
             \/ /\ current = NoLoop /\ NextIdle(l)
                /\ loops' = [loops EXCEPT ![l] = NewLoop({p}, {p})]
                /\ token' = l
          /\ current' = l
    /\ subscribed' = subscribed \cup {p}
    /\ engine' = [engine EXCEPT ![p] = IF @ = "none" THEN "new" ELSE @]
    /\ first' = first \cup {p}
    /\ main' = IF via = "redis" THEN "collect" ELSE "select"
    /\ Statement(fails)
    /\ SubscribeRow(p, fails)
    /\ IF Len(lifecycle) < LifecycleCap
       THEN lifecycle' = Append(lifecycle, [event |-> "Connected",
                                            pvs |-> {p}])
       ELSE lifecycle' = lifecycle
    /\ missed' = IF Len(lifecycle) < LifecycleCap /\ ~fails
                 THEN missed \ {p} ELSE missed \cup {p}
    /\ moved' = moved \ {p}
    /\ UNCHANGED << reconnects, name_server, last_event, sink, metadata_buf,
                    inline_meta, pv_metadata, stored, torn, breaks >>

(***************************************************************************)
(* The unsubscribe arms: RemoveMonitor to the session the commands route   *)
(* to; the row becomes UNSUBSCRIBED.  The loops' snapshots keep the PV,    *)
(* and only the Redis arm drops the engine's converter.                    *)
(***************************************************************************)
Unsubscribe(p, via, fails) ==
    /\ main = "select" /\ commands < MaxCommands
    /\ commands' = commands + 1
    /\ loops' = [l \in Loops |->
                    IF l = current /\ p \in subscribed
                    THEN [loops[l] EXCEPT !.monitors = @ \ {p}]
                    ELSE loops[l]]
    /\ subscribed' = subscribed \ {p}
    /\ engine' = [engine EXCEPT ![p] = IF via = "redis" THEN "none" ELSE @]
    /\ Statement(fails)
    /\ SetState({p}, "unsubscribed", fails)
    /\ missed' = IF fails THEN missed \cup {p} ELSE missed
    /\ UNCHANGED << current, token, reconnects, name_server, first, lifecycle,
                    last_event, sink, metadata_buf, inline_meta, pv_metadata,
                    stored, torn, main, moved, breaks >>

(***************************************************************************)
(* The ioc_change notification.  The server's address left ioc_config, or  *)
(* the query on it failed and gave no address at all: remove_session       *)
(* cancels the newest loop's token and forgets the IOC.  A session that is *)
(* connected does not look at the token and runs on.  No row is written.   *)
(***************************************************************************)
RemoveIoc ==
    /\ main = "select" /\ commands < MaxCommands
    /\ commands' = commands + 1
    /\ name_server = "up" /\ name_server' = "gone"
    /\ loops' = [l \in Loops |->
                    IF l = token THEN [loops[l] EXCEPT !.cancelled = "yes"]
                                 ELSE loops[l]]
    /\ token' = NoLoop /\ current' = NoLoop
    /\ subscribed' = {}
    /\ UNCHANGED << reconnects, first, lifecycle, row, sink, meta, main,
                    missed, moved, breaks, faults >>

(***************************************************************************)
(* The address is back: hot_add_ioc searches what is not subscribed there  *)
(* and starts the monitors on a new loop.  Nothing is reported, no row is  *)
(* written, and the engine gets no converter.                              *)
(***************************************************************************)
HotAddIoc(found, ok) ==
    /\ main = "select" /\ commands < MaxCommands
    /\ commands' = commands + 1
    /\ name_server = "gone" /\ name_server' = "up"
    /\ found \subseteq PVs \ subscribed /\ ok \subseteq found
    /\ IF ok = {}
       THEN UNCHANGED << loops, current, token >>
       ELSE \E l \in Loops :
              /\ NextIdle(l)
              /\ loops' = [loops EXCEPT ![l] = NewLoop(found, ok)]
              /\ current' = l /\ token' = l
    /\ subscribed' = subscribed \cup ok
    /\ first' = first \cup ok
    /\ moved' = moved \cup ok
    /\ UNCHANGED << reconnects, lifecycle, row, sink, meta, main, missed,
                    breaks, faults >>

-----------------------------------------------------------------------------
(***************************************************************************)
(* The sessions and the shards.                                            *)
(***************************************************************************)
(***************************************************************************)
(* A connection ends.  The loop reports it, and then waits to reconnect,   *)
(* unless its token is cancelled: then the report is its last word.        *)
(***************************************************************************)
Break(l) ==
    /\ loops[l].st = "up" /\ breaks < MaxBreaks
    /\ breaks' = breaks + 1
    /\ loops' = [loops EXCEPT ![l] =
                    IF Cancelled(l) THEN Over
                    ELSE [@ EXCEPT !.st = "down", !.monitors = {}]]
    /\ current' = Closed(l, current)
    /\ reconnects' = [i \in 1..Len(reconnects) |-> Closed(l, reconnects[i])]
    /\ TrySend("Disconnected", loops[l].pvs)
    /\ moved' = IF Cancelled(l) THEN moved \cup loops[l].pvs ELSE moved
    /\ UNCHANGED << token, name_server, first, subscribed, row, sink, meta,
                    main, commands, faults >>

(***************************************************************************)
(* The reconnect loop subscribes its snapshot again; some of it may fail,  *)
(* all but PVs outside PVs too, and yet the report names all of it.  The   *)
(* new sender goes to the main loop.  A cancelled loop stops waiting, or   *)
(* its sleep had already elapsed and it reconnects once more.              *)
(***************************************************************************)
Reconnect(l, ok) ==
    /\ loops[l].st = "down" /\ ok \subseteq loops[l].pvs
    /\ loops' = [loops EXCEPT ![l].st = "up", ![l].monitors = ok]
    /\ reconnects' = Append(reconnects, l)
    /\ first' = first \cup ok
    /\ TrySend("Reconnected", loops[l].pvs)
    /\ UNCHANGED << current, token, name_server, subscribed, row, sink, meta,
                    main, moved, bounds >>

StopWaiting(l) ==
    /\ loops[l].st = "down" /\ Cancelled(l)
    /\ loops' = [loops EXCEPT ![l] = Over]
    /\ UNCHANGED << current, token, reconnects, name_server, first, subscribed,
                    lifecycle, row, sink, meta, main, missed, moved, bounds >>

\* The reconnect arm of the main loop: commands go to the new session.
RouteReconnect ==
    /\ main = "select" /\ reconnects # << >>
    /\ current' = Head(reconnects)
    /\ reconnects' = Tail(reconnects)
    /\ UNCHANGED << loops, token, name_server, first, subscribed, lifecycle,
                    row, sink, meta, main, missed, moved, bounds >>

(***************************************************************************)
(* An update reaches its shard, which counts it.  The first one of a       *)
(* monitor leaves the metadata in the session's buffer, and in the shard's *)
(* store when the shard has a converter that sees the PV for the first     *)
(* time.                                                                   *)
(***************************************************************************)
Update(p) ==
    /\ Feeds(p) # {}
    /\ sink' = sink \cup {p}
    /\ first' = first \ {p}
    /\ \/ p \notin first /\ UNCHANGED << metadata_buf, inline_meta >>
       \/ /\ p \in first
          /\ metadata_buf' = metadata_buf \cup {p}
          /\ inline_meta' \in {inline_meta, inline_meta \cup {p}}
    /\ UNCHANGED << loops, current, token, reconnects, name_server, subscribed,
                    lifecycle, row, engine, pv_metadata, stored, torn, main,
                    missed, moved, bounds >>

\* A minute without an update of the row passes.
Age(p) ==
    /\ last_event[p] = "fresh"
    /\ last_event' = [last_event EXCEPT ![p] = "stale"]
    /\ UNCHANGED << net, subscribed, lifecycle, state, sink, meta, main,
                    missed, moved, bounds >>

-----------------------------------------------------------------------------
(***************************************************************************)
(* The lifecycle arm.  CONNECTED is entered from INIT, SEARCHING,          *)
(* DISCONNECTED and TIMEOUT only; the other two reports overwrite          *)
(* whatever is there, UNSUBSCRIBED too.                                    *)
(***************************************************************************)
\* Mutant: an IOC that answers again does not end DISCONNECTED.
ConnectableFromSearching == {"searching"}

Connectable == {"searching", "disconnected", "timeout"}

HandleConnect(pvs, fails) ==
    SetState({ p \in pvs : state[p] \in Connectable }, "connected", fails)

HandleDisconnect(pvs, fails) ==
    SetState({ p \in pvs : state[p] # "none" }, "disconnected", fails)

HandleReconnect(pvs, fails) ==
    SetState({ p \in pvs : state[p] # "none" }, "archiving", fails)

HandleLifecycle(fails) ==
    /\ main = "select" /\ lifecycle # << >>
    /\ LET report == Head(lifecycle) IN
          /\ CASE report.event = "Connected" ->
                     HandleConnect(report.pvs, fails)
               [] report.event = "Disconnected" ->
                     HandleDisconnect(report.pvs, fails)
               [] report.event = "Reconnected" ->
                     HandleReconnect(report.pvs, fails)
          /\ missed' = IF fails THEN missed \cup report.pvs ELSE missed
    /\ lifecycle' = Tail(lifecycle)
    /\ Statement(fails)
    /\ UNCHANGED << net, subscribed, last_event, sink, meta, main, moved,
                    commands, breaks >>

-----------------------------------------------------------------------------
(***************************************************************************)
(* The Redis arm, second part: collect_initial_metadata puts the sessions' *)
(* buffer through the engine, whose converters give metadata once, and     *)
(* writes it without looking at metadata_stored_pvs.  A PV that was        *)
(* unsubscribed and subscribed again is written again, and a bulk write    *)
(* that fails half way takes the row it had.                               *)
(***************************************************************************)
CollectMetadata(fails) ==
    /\ main = "collect" /\ main' = "select"
    /\ LET batch == { p \in metadata_buf : engine[p] = "new" } IN
          /\ batch = {} => ~fails
          /\ engine' = [p \in PVs |-> IF p \in batch THEN "used" ELSE engine[p]]
          /\ pv_metadata' \in UpsertBatch(pv_metadata, batch, fails)
          /\ stored' = MarkStored(stored, batch, fails)
          /\ torn' = (torn \cup (stored \cap batch)) \ pv_metadata'
    /\ metadata_buf' = {}
    /\ Statement(fails)
    /\ UNCHANGED << net, subscribed, lifecycle, row, sink, inline_meta, missed,
                    moved, commands, breaks >>

(***************************************************************************)
(* The stats arm, first part: drain_metadata takes the sessions' buffer,   *)
(* whose new names become ARCHIVING before their metadata is written, and  *)
(* then the shards' store.  What is drained and not written is lost.       *)
(***************************************************************************)
DrainMetadata(fails_row, fails, fails_inline) ==
    /\ main = "select" /\ main' = "status"
    /\ LET batch == metadata_buf \ stored
           names == MarkStored(stored, batch, fails)
           inline == inline_meta \ names IN
          /\ batch = {} => ~fails /\ ~fails_row
          /\ inline = {} => ~fails_inline
          /\ SetState(batch, "archiving", fails_row)
          /\ \E table \in UpsertBatch(pv_metadata, batch, fails) :
                pv_metadata' \in UpsertBatch(table, inline, fails_inline)
          /\ stored' = MarkStored(names, inline, fails_inline)
    /\ metadata_buf' = {} /\ inline_meta' = {}
    /\ Statements({fails_row, fails, fails_inline})
    /\ UNCHANGED << net, subscribed, lifecycle, last_event, sink, engine, torn,
                    missed, moved, commands, breaks >>


Counted(counted, p) ==
    IF p \in counted /\ state[p] = "connected" THEN "archiving" ELSE state[p]

(***************************************************************************)
(* update_pv_status: the counters first, then the timeouts, which see what *)
(* the counters wrote.  A row that only this UPDATE would refresh keeps    *)
(* its old last_event_at when it fails.                                    *)
(***************************************************************************)
UpdatePvStatus(fails) ==
    /\ main = "status" /\ main' = "select"
    /\ sink = {} => ~fails
    /\ LET counted == IF fails THEN {} ELSE { p \in sink : state[p] # "none" }
           touched == [p \in PVs |-> IF p \in counted THEN "fresh"
                                                      ELSE last_event[p]]
           promoted == [p \in PVs |-> Counted(counted, p)] IN
          /\ last_event' = touched
          /\ state' = [p \in PVs |->
                          IF promoted[p] = "archiving" /\ touched[p] = "stale"
                          THEN "timeout" ELSE promoted[p]]
    /\ sink' = {}
    /\ Statement(fails)
    /\ UNCHANGED << net, subscribed, lifecycle, meta, missed, moved,
                    commands, breaks >>

StatsTick ==
    \/ \E fails_row, fails, fails_inline \in BOOLEAN :
          DrainMetadata(fails_row, fails, fails_inline)
    \/ \E fails \in BOOLEAN : UpdatePvStatus(fails)

IocChange ==
    \/ RemoveIoc
    \/ \E found, ok \in SUBSET PVs : HotAddIoc(found, ok)

Next ==
    \/ \E p \in PVs, via \in {"redis", "notify"}, fails \in BOOLEAN :
          Subscribe(p, via, fails) \/ Unsubscribe(p, via, fails)
    \/ IocChange
    \/ \E l \in Loops : Break(l) \/ StopWaiting(l)
    \/ \E l \in Loops, ok \in SUBSET PVs : Reconnect(l, ok)
    \/ RouteReconnect
    \/ \E p \in PVs : Update(p) \/ Age(p)
    \/ \E fails \in BOOLEAN : HandleLifecycle(fails)
    \/ \E fails \in BOOLEAN : CollectMetadata(fails)
    \/ StatsTick

(***************************************************************************)
(* select! picks a ready arm at random, so a ready lifecycle report and a  *)
(* due tick are both taken again and again; collect_initial_metadata has a *)
(* deadline; an IOC keeps publishing.                                      *)
(***************************************************************************)
Fairness ==
    /\ WF_vars(StatsTick)
    /\ WF_vars(\E fails \in BOOLEAN : CollectMetadata(fails))
    /\ SF_vars(\E fails \in BOOLEAN : HandleLifecycle(fails))
    /\ \A p \in PVs : WF_vars(Update(p))

Spec == Init /\ [][Next]_vars /\ Fairness

-----------------------------------------------------------------------------
(* Types: the lifecycle channel keeps within its capacity, and pv_status   *)
(* holds only states of its check constraint.                              *)
TypeOK ==
    /\ loops \in [Loops -> EventLoop]
    /\ current \in Loops \cup {NoLoop} /\ token \in Loops \cup {NoLoop}
    /\ reconnects \in Seq(Loops \cup {NoLoop})
    /\ name_server \in {"up", "gone"}
    /\ subscribed \subseteq PVs
    /\ engine \in [PVs -> {"none", "new", "used"}]
    /\ lifecycle \in Seq(Report) /\ Len(lifecycle) <= LifecycleCap
    /\ state \in [PVs -> State]
    /\ last_event \in [PVs -> {"null", "fresh", "stale"}]
    /\ sink \subseteq PVs /\ first \subseteq PVs
    /\ metadata_buf \subseteq PVs /\ inline_meta \subseteq PVs
    /\ pv_metadata \subseteq PVs /\ stored \subseteq PVs
    /\ torn \subseteq PVs
    /\ main \in {"select", "status", "collect"}

Pending(p) == \E i \in 1..Len(lifecycle) : p \in lifecycle[i].pvs

(***************************************************************************)
(* What the table says once the reports on a PV are applied: a PV that one *)
(* loop receives, and no other loop would report on, is neither searched   *)
(* for nor disconnected (handlers.rs, handle_connect and handle_reconnect  *)
(* against subscribe_pvs, which writes its row after the report was sent). *)
(* A live PV keeps such a row for four reasons only, and until the next    *)
(* subscribe: a report on it was dropped or a statement failed (missed),   *)
(* the PV was hot-added, which reports and writes nothing, or a loop of a  *)
(* removed IOC, still connected, ended after it (moved).                   *)
(***************************************************************************)
LiveIsNotDown ==
    \A p \in subscribed \ (missed \cup moved) :
        Feeds(p) # {} /\ (\E l \in Loops : Holders(p) = {l}) /\ ~Pending(p)
        => state[p] \in {"connected", "archiving", "timeout"}

(***************************************************************************)
(* A name is in metadata_stored_pvs, and so never stored again by a tick,  *)
(* only while pv_metadata has its row: no failure of drain_metadata        *)
(* between the DELETE and the INSERT of a bulk write hits a PV already     *)
(* marked.  collect_initial_metadata does write marked PVs again: the ones *)
(* whose row such a failure took, and no others, are marked without one    *)
(* until a later collect writes them (torn; handlers.rs).                  *)
(***************************************************************************)
StoredHasRow == stored \ torn \subseteq pv_metadata


=============================================================================
