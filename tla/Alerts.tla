------------------------------- MODULE Alerts -------------------------------
(***************************************************************************)
(* What a stats tick of main does after pv_status: the data-loss alert     *)
(* with its throttle, and the re-tuning of the chunk interval of samples.  *)
(* And the alert log: rows written by tasks of their own, read through     *)
(* AlertDao's queries, acknowledged by operators who work at the same      *)
(* time, and purged.                                                       *)
(*                                                                         *)
(* Drops are the sum of the three counters.  A row's time and id are its   *)
(* position in the log.  Rates are events per second as measured over one  *)
(* period.  Of events_received a tick tests only whether it is 0.          *)
(***************************************************************************)
EXTENDS Integers, Sequences, FiniteSets

CONSTANTS
  Throttle,      \* 30 ticks
  Operators,
  Nobody,        \* acknowledged_by is NULL
  ChunkMaxRows,  \* rows whose index fits in memory
  Rates,         \* rates that may be measured
  MaxPvs,        \* the most PVs at startup
  MinChunk,      \* 60 s
  MaxChunk,      \* 86400 s
  Hour,          \* 3600 s
  Limit,         \* a caller's LIMIT
  MaxTicks,      \* bound: ticks
  MaxRows        \* bound: rows written to the log by others

ASSUME AlertsAssumption ==
  /\ Nobody \notin Operators
  /\ {Throttle, ChunkMaxRows, MinChunk, MaxChunk, Hour} \subseteq Nat \ {0}
  /\ MinChunk <= MaxChunk /\ 2 * MinChunk <= Hour
  /\ Rates \subseteq Nat /\ Limit \in Int
  /\ MaxTicks \in Nat /\ MaxRows \in Nat /\ MaxPvs \in Nat \ {0}

VARIABLES
  received,        \* events_received > 0
  drops,           \* bus, buffer and unknown-PV drops so far
  tick,            \* DROP_TICK
  last_drops,      \* LAST_TOTAL_DROPS
  last_alert,      \* LAST_ALERT_TICK
  raised,          \* history: the ticks that raised an alert
  losing,          \* history: the ticks that saw new drops
  early,           \* history: drops were there at a tick before any event
  writing,         \* alerts whose task has not written yet
  alert_log,       \* [level, category, by]
  purged,          \* the rows of the log up to this one are deleted
  seen,            \* operator -> the rows of the last list it read
  current_chunk,   \* current_chunk_secs
  interval,        \* the chunk interval the database has, in seconds
  rate,            \* history: the rate the database was last tuned for, or 0
  applied          \* history: the interval set at startup was applied

lossVars ==
  << received, drops, tick, last_drops, last_alert, raised, losing, early >>
logVars == << alert_log, purged, seen >>
chunkVars == << current_chunk, interval, rate, applied >>
alertsVars == << lossVars, writing, logVars, chunkVars >>

Levels == { "info", "warning", "critical" }
Categories == { "system", "pv", "ioc", "shard" }

Alert(level, category) ==
  [level |-> level, category |-> category, by |-> Nobody]

----------------------------------------------------------------------------
(* The stats tick.                                                         *)

\* One drop stands for any number of drops between two ticks.
Drop ==
  /\ drops = last_drops /\ tick < MaxTicks
  /\ drops' = drops + 1
  /\ UNCHANGED << received, tick, last_drops, last_alert, raised, losing, early,
                  writing, logVars, chunkVars >>

\* A shard adds the events of an iteration.  An event of an unknown PV is not
\* among them, nor one that the bus or the buffer dropped.
Receive ==
  /\ received' = TRUE
  /\ UNCHANGED << drops, tick, last_drops, last_alert, raised, losing, early,
                  writing, logVars, chunkVars >>

\* Mutant: the tick of the alert is stored as it is, and tick 0 reads as never.
AlertTickZero == tick

\* 0 means that no alert was raised yet, so tick 0 is stored as 1.
AlertTick == IF tick = 0 THEN 1 ELSE tick

Due == last_alert = 0 \/ tick - last_alert >= Throttle

\* Until an event was received a tick looks at no drops: DROP_TICK and the
\* total of the last tick stay as they are.
QuietTick ==
  /\ ~received
  /\ early' = (early \/ drops > last_drops)
  /\ UNCHANGED << received, drops, tick, last_drops, last_alert, raised, losing,
                  writing, logVars, chunkVars >>

\* The counter of the last tick moves on whether or not an alert was due.
LossTick ==
  /\ received /\ tick < MaxTicks
  /\ tick' = tick + 1
  /\ last_drops' = drops
  /\ losing' = IF drops > last_drops THEN losing \cup {tick} ELSE losing
  /\ IF drops > last_drops /\ Due
       THEN /\ last_alert' = AlertTick
            /\ raised' = raised \cup {tick}
            /\ writing' = Append(writing, Alert("critical", "system"))
       ELSE UNCHANGED << last_alert, raised, writing >>
  /\ UNCHANGED << received, drops, early, logVars, chunkVars >>

Clamp(n, low, high) == IF n < low THEN low ELSE IF n > high THEN high ELSE n

\* format_chunk_interval: whole hours, or whole minutes, in seconds.
format_chunk_interval(secs) ==
  CASE secs >= 2 * Hour -> (secs \div Hour) * Hour
    [] secs >= Hour /\ secs < 2 * Hour -> Hour
    [] secs >= 2 * MinChunk /\ secs < Hour -> (secs \div MinChunk) * MinChunk
    [] OTHER -> MinChunk

\* Mutant: only a longer interval is applied.
FarApartLonger(new) == 10 * new > 13 * current_chunk

\* The interval is changed if the two differ by more than a factor of 1.3.
FarApart(new) ==
  \/ new > current_chunk /\ 10 * new > 13 * current_chunk
  \/ new <= current_chunk /\ 10 * current_chunk > 13 * new

TunedFor(r) == Clamp(ChunkMaxRows \div r, MinChunk, MaxChunk)

\* Every 5 minutes; a rate of 0 tunes nothing, a failed statement nothing.
Retune(r, fails) ==
  /\ r \in Rates /\ (r > 0 => received)
  /\ IF r = 0 \/ fails
       THEN UNCHANGED << current_chunk, interval, rate >>
       ELSE /\ rate' = r
            /\ IF FarApart(TunedFor(r))
                 THEN /\ current_chunk' = TunedFor(r)
                      /\ interval' = format_chunk_interval(TunedFor(r))
                 ELSE UNCHANGED << current_chunk, interval >>
  /\ UNCHANGED << lossVars, writing, logVars, applied >>

----------------------------------------------------------------------------
(* AlertDao.                                                               *)

\* A spawned task writes its alert, or fails and says nothing.
WriteSpawned(fails) ==
  /\ writing # << >>
  /\ writing' = Tail(writing)
  /\ alert_log' = IF fails THEN alert_log ELSE Append(alert_log, Head(writing))
  /\ UNCHANGED << lossVars, purged, seen, chunkVars >>

\* write_batch: all rows or none.
WriteBatch(alerts) ==
  /\ alerts # << >> /\ Len(alert_log) + Len(alerts) <= MaxRows
  /\ alert_log' = alert_log \o alerts
  /\ UNCHANGED << lossVars, writing, purged, seen, chunkVars >>

Rows == { i \in DOMAIN alert_log : i > purged }
Unacked == { i \in Rows : alert_log[i].by = Nobody }

safe_limit(n) == Clamp(n, 1, 10000)

\* The newest rows of a query, as many as its limit.
Newest(rows) ==
  { i \in rows : Cardinality({ j \in rows : j > i }) < safe_limit(Limit) }

\* get_recent, get_unacked, get_by_level and get_by_category.
Queries ==
  { Newest(Rows), Newest(Unacked) }
    \cup { Newest({ i \in Rows : alert_log[i].level = l }) : l \in Levels }
    \cup { Newest({ i \in Rows : alert_log[i].category = c }) : c \in Categories }

ReadAlerts(who) ==
  /\ \E list \in Queries : seen' = [seen EXCEPT ![who] = list]
  /\ UNCHANGED << lossVars, writing, alert_log, purged, chunkVars >>

\* WHERE .. AND acknowledged = FALSE
Acknowledged(ids, who) ==
  [i \in DOMAIN alert_log |->
     IF i \in ids \cap Unacked THEN [alert_log[i] EXCEPT !.by = who]
     ELSE alert_log[i]]

\* acknowledge and acknowledge_batch: rows of a list read earlier, which
\* others may have acknowledged or purged since.
acknowledge_batch(who, ids) ==
  /\ ids # {} /\ ids \subseteq seen[who]
  /\ alert_log' = Acknowledged(ids, who)
  /\ UNCHANGED << lossVars, writing, purged, seen, chunkVars >>

purge_before(i) ==
  /\ i \in Rows
  /\ purged' = i
  /\ UNCHANGED << lossVars, writing, alert_log, seen, chunkVars >>

\* The first interval assumes 10 events a second of every PV.  If it cannot be
\* set the database keeps its own, of MaxChunk.
AlertsInit ==
  /\ drops = 0 /\ tick = 0 /\ last_drops = 0 /\ last_alert = 0
  /\ received = FALSE /\ early = FALSE
  /\ raised = {} /\ losing = {} /\ writing = << >>
  /\ alert_log = << >> /\ purged = 0 /\ seen = [who \in Operators |-> {}]
  /\ \E pvs \in 1..MaxPvs : current_chunk = TunedFor(10 * pvs)
  /\ applied \in BOOLEAN
  /\ interval = format_chunk_interval(IF applied THEN current_chunk ELSE MaxChunk)
  /\ rate = 0

Batches == { << Alert("info", c) >> : c \in {"pv", "shard"} }

AlertsNext ==
  \/ Drop \/ Receive \/ QuietTick \/ LossTick
  \/ \E r \in Rates, fails \in BOOLEAN : Retune(r, fails)
  \/ \E fails \in BOOLEAN : WriteSpawned(fails)
  \/ \E alerts \in Batches : WriteBatch(alerts)
  \/ \E who \in Operators :
       \/ ReadAlerts(who)
       \/ \E ids \in SUBSET seen[who] : acknowledge_batch(who, ids)
  \/ \E i \in DOMAIN alert_log : purge_before(i)

AlertsSpec == AlertsInit /\ [][AlertsNext]_alertsVars

----------------------------------------------------------------------------
\* Alerts are at least Throttle ticks apart, and a tick that saw drops raised
\* one or follows one by no more than Throttle ticks: the throttle hides a loss
\* only behind a recent alert (main's stats tick: "throttled to one alert_log
\* row per ~5 min").  The ticks are those after the first event was received;
\* before it a tick raises nothing, and a loss it passed over is alerted by the
\* first tick after it.
LossAlerted ==
  /\ \A t, u \in raised : t < u => u - t >= Throttle
  /\ \A t \in losing : \E u \in raised : u <= t /\ t - u <= Throttle
  /\ early /\ tick > 0 => 0 \in raised

\* Whatever rates follow one another, once tuned the active chunk holds no more
\* than 1.3 times the rows whose index fits in memory, unless it is as short as
\* it may be (main: "active chunk index fits in shared_buffers/2").  It is not
\* so where the first statement failed: current_chunk_secs is set anyway.
ChunkFits ==
  rate > 0 /\ applied /\ interval > MinChunk
    => 10 * rate * interval <= 13 * ChunkMaxRows
=============================================================================
