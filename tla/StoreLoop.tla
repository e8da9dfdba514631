----------------------------- MODULE StoreLoop -----------------------------
(***************************************************************************)
(* The storage half of the archiver: the per-shard SharedBuffers that the  *)
(* ingest threads fill, the single store_loop task that drains them into   *)
(* the BatchWriter, the background COPY task it spawns for each bundle,    *)
(* the retained retry bundle, and the ordered shutdown that main drives.   *)
(*                                                                         *)
(* Actors: the producers (ingest threads and the handlers of main), the    *)
(* store loop, at most one flush task, the database, the clock and main.   *)
(*                                                                         *)
(* A row is an opaque identity pushed at most once.  Each container is the *)
(* set of rows it holds: the queue of a SharedBuffer and the buffer of a   *)
(* writer that a row belongs to follow from its COPY section.  An array    *)
(* capture has one element here; a JSON capture may be several COPY rows.  *)
(* Left out: the fallback mpsc channel, whose senders main creates, never  *)
(* uses and drops; log output; the CPU-time statistics.                    *)
(***************************************************************************)
EXTENDS Integers, Sequences, FiniteSets

CONSTANTS
  Rows,         \* the rows the producers may push
  Shards,       \* the ingest shards, one SharedBuffer each
  Sections,     \* the COPY targets of a bundle, in the order they are flushed
  SectionOf,    \* the COPY target of each row
  WriterOf,     \* the writer that buffers the rows of each COPY target
  Parallel,     \* the COPY targets that may be split over several connections
  CopyCount(_), \* how many COPY rows a set of buffered rows is sent as
  MaxLen,       \* SharedBuffer.max_len, the cap of each of its two queues
  BatchSize,    \* the rows that make a writer full
  MaxBytes,     \* max_buffer_bytes of a non-scalar writer, in rows
  BackoffLen,   \* FLUSH_BACKOFF_SECS.len()
  StepTimeout,  \* SHUTDOWN_FLUSH_TIMEOUT, in clock ticks
  MainTimeout   \* how long main waits for the store loop, in clock ticks

SectionSet == {Sections[i] : i \in DOMAIN Sections}
Scalar     == "scalar"
Writers    == {WriterOf[c] : c \in SectionSet} \ {Scalar}

ASSUME RowsAssumption == IsFiniteSet(Rows)

ASSUME SectionsAssumption ==
  /\ Sections \in Seq(STRING)
  /\ SectionOf \in [Rows -> SectionSet]
  /\ WriterOf \in [SectionSet -> STRING]
  /\ Parallel \subseteq SectionSet

ASSUME BoundsAssumption ==
  /\ MaxLen \in Nat /\ BatchSize \in Nat \ {0} /\ MaxBytes \in Nat
  /\ BackoffLen \in Nat
  /\ StepTimeout \in Nat \ {0} /\ MainTimeout \in Nat \ {0}

ASSUME CopyCountAssumption == \A S \in SUBSET Rows : CopyCount(S) \in Nat

VARIABLES
  pc,            \* where the store loop stands
  shared,        \* the rows in the SharedBuffer of each shard
  writer,        \* the rows in the writers' buffers
  bytes,         \* current_bytes of each non-scalar writer
  bg,            \* the flush task and what became of its rows so far
  inflight,      \* inflight_attempts and inflight_rows
  retry,         \* pending_retry
  flushDue,      \* max_flush_interval_ms has elapsed since last_flush
  rows_lost,     \* the lost-rows counter
  total_written, \* the written-rows counter
  stopped,       \* main has joined the ingest threads
  cancel,        \* main has cancelled the store loop
  elapsed,       \* time since main cancelled the store loop
  waited,        \* time the shutdown sequence has waited for the present task
  archive,       \* rows the database holds
  \* History: what became of each row.
  produced, dropped, pushedBack, written, lost,
  duplicated,    \* rows the database holds more than once
  ackLost,       \* rows committed by a COPY whose reply never arrived
  sends          \* how many COPYs carried each row

loopVars  == <<inflight, retry, flushDue>>
counters  == <<rows_lost, total_written>>
mainVars  == <<stopped, cancel, elapsed, waited>>
dbVars    == <<archive, duplicated, ackLost, sends>>
bufVars   == <<shared, writer, bytes>>
fateVars  == <<produced, dropped, pushedBack, written, lost>>
vars == <<pc, bufVars, bg, loopVars, counters, mainVars, dbVars, fateVars>>

----------------------------------------------------------------------------
(* Where the rows are. *)

OfWriter(S, w) == {r \in S : WriterOf[SectionOf[r]] = w}
ScalarsOf(S)   == OfWriter(S, Scalar)
OthersOf(S)    == S \ ScalarsOf(S)

InShared == UNION {shared[s] : s \in Shards}
TaskRows == bg.todo \cup bg.keep \cup bg.acked \cup bg.lost
Retained == retry.bundle
Holding  == InShared \cup writer \cup TaskRows \cup Retained
Decided  == dropped \cup pushedBack \cup written \cup lost

NoTask  == [st |-> "none", todo |-> {}, acked |-> {}, keep |-> {}, lost |-> {}]
NoRetry == [on |-> FALSE, bundle |-> {}, attempts |-> 0, due |-> FALSE]

SatSub(a, b) == IF a > b THEN a - b ELSE 0
AtMost(a, b) == IF a < b THEN a ELSE b

----------------------------------------------------------------------------
(* Producers: SharedBuffer::push_scalar and push_other.  The two queues of  *)
(* a buffer are capped separately; a full one drops the row and counts it.  *)

Queue(s, r) == IF r \in ScalarsOf(Rows) THEN ScalarsOf(shared[s])
                                        ELSE OthersOf(shared[s])

Push(r, s) ==
  /\ ~stopped
  /\ r \notin produced
  /\ produced' = produced \cup {r}
  /\ \/ /\ Cardinality(Queue(s, r)) < MaxLen
        /\ shared' = [shared EXCEPT ![s] = @ \cup {r}]
        /\ UNCHANGED dropped
     \/ /\ Cardinality(Queue(s, r)) >= MaxLen
        /\ dropped' = dropped \cup {r}
        /\ UNCHANGED shared
  /\ UNCHANGED <<pc, writer, bytes, bg, loopVars, counters, mainVars, dbVars,
                 pushedBack, written, lost>>

----------------------------------------------------------------------------
(* The database, as the flush task sees it: external, modelled from the    *)
(* results send_copy_classified can return.                                *)

ServerCommits(C) ==
  /\ archive' = archive \cup C
  /\ duplicated' = duplicated \cup (C \cap archive)

Sent(C) == sends' = [r \in Rows |-> IF r \in C THEN sends[r] + 1 ELSE sends[r]]

----------------------------------------------------------------------------
(* The flush task: FlushBundle::flush_with_progress.  The sections go in   *)
(* order; a parallel section is sent as chunks whose COPYs finish in any   *)
(* order, any other section as one COPY.                                   *)

Section(S) ==
  LET used(i) == \E r \in S : SectionOf[r] = Sections[i]
      first   == CHOOSE i \in DOMAIN Sections :
                   used(i) /\ \A j \in DOMAIN Sections : used(j) => i <= j
  IN  {r \in S : SectionOf[r] = Sections[first]}

Chunks(S) ==
  {C \in SUBSET Section(S) :
     /\ C # {}
     /\ C # Section(S) => \A r \in C : SectionOf[r] \in Parallel}

Spawn(bundle, attempts) ==
  /\ bg' = [st |-> "running", todo |-> bundle, acked |-> {}, keep |-> {},
            lost |-> {}]
  /\ inflight' = [attempts |-> attempts, rows |-> Cardinality(bundle)]

taskUnchanged == <<pc, bufVars, loopVars, counters, mainVars, fateVars>>

\* The result of the last COPY and the return of flush_with_progress are one
\* poll of the task: an abort finds a task with a COPY under way or none.
StateAfter(C) == IF bg.todo = C THEN "finished" ELSE "running"

\* Mutant: a chunk is reported written once it is sent.
CopyOkEarly(C) ==
  /\ bg' = [bg EXCEPT !.st = StateAfter(C), !.todo = @ \ C, !.acked = @ \cup C]
  /\ ServerCommits(C) \/ UNCHANGED <<archive, duplicated>>
  /\ UNCHANGED ackLost

\* The COPY of a chunk commits and the task hears of it: progress is bumped.
CopyOk(C) ==
  /\ bg' = [bg EXCEPT !.st = StateAfter(C), !.todo = @ \ C, !.acked = @ \cup C]
  /\ ServerCommits(C)
  /\ UNCHANGED ackLost

\* Mutants: the failed chunk is not moved out; its whole section is kept.
CopyTransientForgets(C) ==
  /\ bg' = [bg EXCEPT !.st = StateAfter(C), !.todo = @ \ C]
  /\ UNCHANGED <<archive, duplicated, ackLost>>

CopyTransientKeepsAll(C) ==
  /\ bg' = [bg EXCEPT !.st = StateAfter(C), !.todo = @ \ C,
                    !.keep = @ \cup C \cup bg.acked]
  /\ UNCHANGED <<archive, duplicated, ackLost>>

\* It fails with a transient error: the chunk is kept for a retry.  An error
\* of the final close may come after the server has committed the chunk.
CopyTransient(C) ==
  /\ bg' = [bg EXCEPT !.st = StateAfter(C), !.todo = @ \ C, !.keep = @ \cup C]
  /\ \/ UNCHANGED <<archive, duplicated, ackLost>>
     \/ ServerCommits(C) /\ ackLost' = ackLost \cup C

\* It fails permanently: the chunk is counted in lost_rows.
CopyPermanent(C) ==
  /\ bg' = [bg EXCEPT !.st = StateAfter(C), !.todo = @ \ C, !.lost = @ \cup C]
  /\ UNCHANGED <<archive, duplicated, ackLost>>

TaskRuns == bg.st = "running" /\ pc # "killed"

TaskCopy ==
  /\ TaskRuns
  /\ \E C \in Chunks(bg.todo) :
       /\ Sent(C)
       /\ CopyOk(C) \/ CopyTransient(C) \/ CopyPermanent(C)
  /\ UNCHANGED taskUnchanged

TaskPanic ==
  /\ TaskRuns /\ bg.todo # {}
  /\ bg' = [bg EXCEPT !.st = "panicked"]
  /\ UNCHANGED <<taskUnchanged, dbVars>>

----------------------------------------------------------------------------
(* The store loop.  One iteration reaps the finished task, schedules the   *)
(* next one, ingests and naps.                                             *)

\* The loop drops the task's handle, having booked the rows the task had
\* acknowledged and given up on the rows in gone.
Settle(gone, counted) ==
  /\ bg' = NoTask
  /\ written' = written \cup bg.acked
  /\ lost' = lost \cup gone
  /\ total_written' = total_written + CopyCount(bg.acked)
  /\ rows_lost' = rows_lost + counted

\* Mutant: the progress of the task ignored.
SettleBrokenAll ==
  Settle(bg.todo \cup bg.keep \cup bg.lost, inflight.rows)

\* A task that panicked or was aborted: only the progress counter survives.
SettleBroken ==
  Settle(bg.todo \cup bg.keep \cup bg.lost,
         SatSub(inflight.rows, CopyCount(bg.acked)))

Retain(attempts, due) ==
  retry' = [on |-> TRUE, bundle |-> bg.keep, attempts |-> attempts, due |-> due]

reapUnchanged ==
  <<bufVars, flushDue, mainVars, dbVars, produced, dropped, pushedBack>>

ReapNothing ==
  /\ pc = "reap" /\ bg.st \in {"none", "running"}
  /\ pc' = "schedule"
  /\ UNCHANGED <<bg, inflight, retry, counters, written, lost, reapUnchanged>>

ReapOutcome ==
  /\ pc = "reap" /\ bg.st = "finished"
  /\ pc' = "schedule"
  /\ inflight' = [attempts |-> 0, rows |-> 0]
  /\ LET failed    == inflight.attempts + 1
         exhausted == bg.keep # {} /\ failed >= BackoffLen + 1
     IN  /\ IF exhausted
              THEN Settle(bg.lost \cup bg.keep,
                          CopyCount(bg.lost) + Cardinality(bg.keep))
              ELSE Settle(bg.lost, CopyCount(bg.lost))
         /\ IF bg.keep # {} /\ ~exhausted
              THEN Retain(failed, FALSE)
              ELSE UNCHANGED retry
  /\ UNCHANGED reapUnchanged

\* Mutant: the handle of a panicked task is dropped without booking its rows.
ReapPanicForgets ==
  /\ pc = "reap" /\ bg.st = "panicked"
  /\ pc' = "schedule"
  /\ inflight' = [attempts |-> 0, rows |-> 0]
  /\ bg' = NoTask
  /\ UNCHANGED <<retry, counters, written, lost, reapUnchanged>>

ReapPanic ==
  /\ pc = "reap" /\ bg.st = "panicked"
  /\ pc' = "schedule"
  /\ inflight' = [attempts |-> 0, rows |-> 0]
  /\ SettleBroken
  /\ UNCHANGED <<retry, reapUnchanged>>

WriterFull ==
  \E w \in Writers \cup {Scalar} : Cardinality(OfWriter(writer, w)) >= BatchSize

\* Mutant: a retry starts with a fresh count of attempts.
SpawnRetryForgets ==
  /\ pc = "schedule" /\ bg.st = "none" /\ retry.on /\ retry.due
  /\ pc' = "ingest"
  /\ Spawn(retry.bundle, 0)
  /\ retry' = NoRetry
  /\ UNCHANGED <<bufVars, flushDue, counters, mainVars, dbVars, fateVars>>

SpawnRetry ==
  /\ pc = "schedule" /\ bg.st = "none" /\ retry.on /\ retry.due
  /\ pc' = "ingest"
  /\ Spawn(retry.bundle, retry.attempts)
  /\ retry' = NoRetry
  /\ UNCHANGED <<bufVars, flushDue, counters, mainVars, dbVars, fateVars>>

\* Mutant: no flush by time.
FlushWantedFull == ~retry.on /\ writer # {} /\ WriterFull

FlushWanted == ~retry.on /\ writer # {} /\ (WriterFull \/ flushDue)

\* take_flush_bundle moves the buffers out and leaves current_bytes alone.
SpawnFlush ==
  /\ pc = "schedule" /\ bg.st = "none" /\ FlushWanted
  /\ pc' = "ingest"
  /\ Spawn(writer, 0)
  /\ writer' = {}
  /\ flushDue' = FALSE
  /\ UNCHANGED <<shared, bytes, retry, counters, mainVars, dbVars, fateVars>>

SpawnNothing ==
  /\ pc = "schedule"
  /\ bg.st # "none" \/ ~(IF retry.on THEN retry.due ELSE FlushWanted)
  /\ pc' = "ingest"
  /\ UNCHANGED <<bufVars, bg, loopVars, counters, mainVars, dbVars, fateVars>>

\* How many rows a writer's push still accepts: an empty buffer always takes
\* one row, whatever current_bytes says.
Room(w) ==
  LET left == SatSub(MaxBytes, bytes[w])
  IN  IF OfWriter(writer, w) = {} /\ left = 0 THEN 1 ELSE left

\* The non-scalar rows that are pushed before their writer pushes back.
Accepted ==
  {A \in SUBSET OthersOf(InShared) :
     \A w \in Writers : Cardinality(OfWriter(A, w)) =
                        AtMost(Cardinality(OfWriter(InShared, w)), Room(w))}

\* Drain every SharedBuffer.  A producer that pushes between two of the
\* drained queues is one that pushed before or after all of them.
TakeShared(A) ==
  /\ shared' = [s \in Shards |-> {}]
  /\ bytes' = [w \in Writers |-> bytes[w] + Cardinality(OfWriter(A, w))]
  /\ pushedBack' = pushedBack \cup (OthersOf(InShared) \ A)

Ingest ==
  /\ pc = "ingest"
  /\ pc' = "nap"
  /\ \/ /\ retry.on
        /\ UNCHANGED <<bufVars, pushedBack>>
     \/ /\ ~retry.on
        /\ \E A \in Accepted :
             /\ TakeShared(A)
             /\ writer' = writer \cup ScalarsOf(InShared) \cup A
  /\ UNCHANGED <<bg, loopVars, counters, mainVars, dbVars,
                 produced, dropped, written, lost>>

Nap ==
  /\ pc = "nap"
  /\ pc' = IF cancel THEN "join" ELSE "reap"
  /\ UNCHANGED <<bufVars, bg, loopVars, counters, mainVars, dbVars, fateVars>>

----------------------------------------------------------------------------
(* The shutdown sequence: wait for the task in flight, try the retained    *)
(* bundle once more, then drain and flush what is left.  Each wait ends    *)
(* with the task or, after StepTimeout, with its abortion.                 *)

Awaiting == {"join", "await_retry", "await_flush"}

AfterWait ==
  pc' = CASE pc = "join"        -> "final_retry"
          [] pc = "await_retry" -> "drain"
          [] pc = "await_flush" -> "done"

shutdownUnchanged ==
  <<bufVars, inflight, flushDue, stopped, cancel, elapsed,
    produced, dropped, pushedBack>>

JoinNothing ==
  /\ pc = "join" /\ bg.st = "none"
  /\ AfterWait
  /\ UNCHANGED <<bg, retry, counters, waited, dbVars, written, lost,
                 shutdownUnchanged>>

\* The task in flight when the loop was cancelled leaves its transient
\* failures for one more attempt.
JoinInFlight ==
  /\ pc = "join" /\ bg.st = "finished"
  /\ AfterWait /\ waited' = 0
  /\ Settle(bg.lost, CopyCount(bg.lost))
  /\ IF bg.keep # {} THEN Retain(inflight.attempts + 1, TRUE) ELSE UNCHANGED retry
  /\ UNCHANGED <<dbVars, shutdownUnchanged>>

\* Mutant: rows left to retry after the last attempt are not counted.
JoinLastUncounted ==
  /\ pc \in Awaiting \ {"join"} /\ bg.st = "finished"
  /\ AfterWait /\ waited' = 0
  /\ Settle(bg.lost \cup bg.keep, CopyCount(bg.lost))
  /\ UNCHANGED <<retry, dbVars, shutdownUnchanged>>

\* The tasks the shutdown sequence spawned itself have no successor.
JoinLast ==
  /\ pc \in Awaiting \ {"join"} /\ bg.st = "finished"
  /\ AfterWait /\ waited' = 0
  /\ Settle(bg.lost \cup bg.keep, CopyCount(bg.lost) + Cardinality(bg.keep))
  /\ UNCHANGED <<retry, dbVars, shutdownUnchanged>>

JoinPanicked ==
  /\ pc \in Awaiting /\ bg.st = "panicked"
  /\ AfterWait /\ waited' = 0
  /\ SettleBroken
  /\ UNCHANGED <<retry, dbVars, shutdownUnchanged>>

\* Mutant: the final flush is awaited without a timeout.
JoinAbortedNotLast ==
  /\ pc \in {"join", "await_retry"} /\ bg.st = "running" /\ waited >= StepTimeout
  /\ AfterWait /\ waited' = 0
  /\ SettleBroken
  /\ UNCHANGED <<retry, dbVars, shutdownUnchanged>>

\* The aborted task may have had a COPY under way that the server commits.
JoinAborted ==
  /\ pc \in Awaiting /\ bg.st = "running" /\ waited >= StepTimeout
  /\ AfterWait /\ waited' = 0
  /\ SettleBroken
  /\ \/ UNCHANGED dbVars
     \/ \E C \in Chunks(bg.todo) :
          ServerCommits(C) /\ Sent(C) /\ ackLost' = ackLost \cup C
  /\ UNCHANGED <<retry, shutdownUnchanged>>

FinalRetry ==
  /\ pc = "final_retry"
  /\ \/ /\ retry.on
        /\ Spawn(retry.bundle, retry.attempts)
        /\ retry' = NoRetry
        /\ pc' = "await_retry"
     \/ /\ ~retry.on
        /\ pc' = "drain"
        /\ UNCHANGED <<bg, inflight, retry>>
  /\ UNCHANGED <<bufVars, flushDue, counters, mainVars, dbVars, fateVars>>

Drain ==
  /\ pc = "drain"
  /\ \E A \in Accepted :
       LET rest == writer \cup ScalarsOf(InShared) \cup A
       IN  /\ TakeShared(A)
           /\ IF rest = {}
                THEN pc' = "done" /\ UNCHANGED <<bg, inflight>>
                ELSE pc' = "await_flush" /\ Spawn(rest, 0)
  /\ writer' = {}
  /\ UNCHANGED <<retry, flushDue, counters, mainVars, dbVars,
                 produced, dropped, written, lost>>

----------------------------------------------------------------------------
(* main's ordered shutdown, and the clock.  Time is only counted where a   *)
(* deadline depends on it: while the shutdown sequence waits for a task.   *)

Ended == pc \in {"done", "killed"}

StopProducers ==
  /\ ~stopped
  /\ stopped' = TRUE
  /\ UNCHANGED <<pc, bufVars, bg, loopVars, counters, cancel, elapsed, waited,
                 dbVars, fateVars>>

Cancel ==
  /\ stopped /\ ~cancel
  /\ cancel' = TRUE
  /\ UNCHANGED <<pc, bufVars, bg, loopVars, counters, stopped, elapsed, waited,
                 dbVars, fateVars>>

Tick ==
  /\ pc \in Awaiting /\ bg.st = "running"
  /\ waited < StepTimeout /\ elapsed < MainTimeout
  /\ elapsed' = elapsed + 1
  /\ waited' = waited + 1
  /\ UNCHANGED <<pc, bufVars, bg, loopVars, counters, stopped, cancel, dbVars,
                 fateVars>>

\* main stops waiting and returns: the runtime goes down with the loop in it.
MainGivesUp ==
  /\ elapsed >= MainTimeout /\ ~Ended
  /\ pc' = "killed"
  /\ UNCHANGED <<bufVars, bg, loopVars, counters, mainVars, dbVars, fateVars>>

FlushTimer ==
  /\ ~flushDue /\ ~Ended
  /\ flushDue' = TRUE
  /\ UNCHANGED <<pc, bufVars, bg, inflight, retry, counters, mainVars, dbVars,
                 fateVars>>

RetryTimer ==
  /\ retry.on /\ ~retry.due /\ ~Ended
  /\ retry' = [retry EXCEPT !.due = TRUE]
  /\ UNCHANGED <<pc, bufVars, bg, inflight, flushDue, counters, mainVars,
                 dbVars, fateVars>>

----------------------------------------------------------------------------
Init ==
  /\ pc = "reap"
  /\ shared = [s \in Shards |-> {}] /\ writer = {}
  /\ bytes = [w \in Writers |-> 0]
  /\ bg = NoTask /\ inflight = [attempts |-> 0, rows |-> 0] /\ retry = NoRetry
  /\ flushDue = FALSE
  /\ rows_lost = 0 /\ total_written = 0
  /\ stopped = FALSE /\ cancel = FALSE /\ elapsed = 0 /\ waited = 0
  /\ archive = {} /\ duplicated = {} /\ ackLost = {}
  /\ sends = [r \in Rows |-> 0]
  /\ produced = {} /\ dropped = {} /\ pushedBack = {} /\ written = {} /\ lost = {}

Producers == \E r \in Rows, s \in Shards : Push(r, s)

Reap     == ReapNothing \/ ReapOutcome \/ ReapPanic
Schedule == SpawnRetry \/ SpawnFlush \/ SpawnNothing
Shutdown == \/ JoinNothing \/ JoinInFlight \/ JoinLast \/ JoinPanicked
            \/ JoinAborted \/ FinalRetry \/ Drain
Loop     == Reap \/ Schedule \/ Ingest \/ Nap \/ Shutdown
Main     == StopProducers \/ Cancel \/ MainGivesUp
Clock    == Tick \/ FlushTimer \/ RetryTimer

Terminated == Ended /\ UNCHANGED vars

Next == Producers \/ TaskCopy \/ TaskPanic \/ Loop \/ Main \/ Clock \/ Terminated

\* The runtime keeps polling the loop and time passes.  Nothing is promised
\* of the producers, of main's shutdown or of the database.
Fairness ==
  /\ WF_vars(Loop)
  /\ WF_vars(Tick) /\ WF_vars(FlushTimer) /\ WF_vars(RetryTimer)

Spec == Init /\ [][Next]_vars /\ Fairness

----------------------------------------------------------------------------
(* Properties. *)

PCs == {"reap", "schedule", "ingest", "nap", "join", "final_retry",
        "await_retry", "drain", "await_flush", "done", "killed"}

LastAttempt  == pc \in {"final_retry", "await_retry", "drain", "await_flush",
                        "done", "killed"}
ShuttingDown == pc = "join" \/ LastAttempt

TaskType ==
  [st : {"none", "running", "finished", "panicked"}, todo : SUBSET Rows,
   acked : SUBSET Rows, keep : SUBSET Rows, lost : SUBSET Rows]

RetryType ==
  [on : BOOLEAN, bundle : SUBSET Rows, attempts : Nat, due : BOOLEAN]

\* Every variable has its type.
TypeOK ==
  /\ pc \in PCs
  /\ shared \in [Shards -> SUBSET Rows] /\ writer \in SUBSET Rows
  /\ bytes \in [Writers -> Nat]
  /\ bg \in TaskType
  /\ inflight \in [attempts : Nat, rows : Nat]
  /\ retry \in RetryType
  /\ flushDue \in BOOLEAN
  /\ rows_lost \in Nat /\ total_written \in Nat
  /\ stopped \in BOOLEAN /\ cancel \in BOOLEAN
  /\ elapsed \in Nat /\ waited \in Nat
  /\ archive \in SUBSET Rows /\ duplicated \in SUBSET Rows
  /\ ackLost \in SUBSET Rows /\ sends \in [Rows -> Nat]
  /\ produced \in SUBSET Rows /\ dropped \in SUBSET Rows
  /\ pushedBack \in SUBSET Rows /\ written \in SUBSET Rows
  /\ lost \in SUBSET Rows

\* No row vanishes: through retries, partial failures, panics, aborted tasks
\* and the shutdown sequence, a row that was pushed is held by the process or
\* has a fate (take_flush_bundle, the retry bundle of flush_with_progress and
\* pending_retry hand rows over without dropping any).
NoRowVanishes == produced = Holding \cup Decided

\* A row is in one place only: the retry bundle holds no row that was also
\* acknowledged, counted as lost or left in a buffer, and no two shards hold it.
OneHolder ==
  /\ \A s, t \in Shards : s # t => shared[s] \cap shared[t] = {}
  /\ InShared \cap (writer \cup TaskRows \cup Retained \cup Decided) = {}
  /\ writer \cap (TaskRows \cup Retained \cup Decided) = {}
  /\ bg.todo \cap (bg.keep \cup bg.acked \cup bg.lost) = {}
  /\ bg.keep \cap (bg.acked \cup bg.lost) = {}
  /\ bg.acked \cap bg.lost = {}
  /\ TaskRows \cap (Retained \cup Decided) = {}
  /\ Retained \cap Decided = {}
  /\ dropped \cap (pushedBack \cup written \cup lost) = {}
  /\ pushedBack \cap (written \cup lost) = {}
  /\ written \cap lost = {}

\* The loop never holds a retained bundle while a task is in flight, so that
\* storing the outcome of the task never overwrites pending_retry.
OneBundle == bg.st # "none" => ~retry.on

\* What the loop knows of its two slots: a slot that is empty holds no rows, a
\* finished task has dealt with all of its rows, and the shutdown sequence has
\* emptied a slot before it needs it.  OneBundle is one of its conjuncts.
SlotDiscipline ==
  /\ bg.st = "none" => TaskRows = {}
  /\ bg.st = "finished" => bg.todo = {}
  /\ ~retry.on => retry.bundle = {}
  /\ OneBundle
  /\ pc \in {"final_retry", "drain", "done"} => bg.st = "none"
  /\ pc \in {"await_retry", "drain", "await_flush", "done"} => ~retry.on

\* The ordered shutdown: the loop leaves its cycle only when cancelled, is
\* cancelled only when the producers have stopped, and has drained every buffer
\* before its final flush.
OrderedShutdown ==
  /\ cancel => stopped
  /\ ShuttingDown /\ pc # "killed" => cancel
  /\ pc \in {"await_flush", "done"} => InShared = {} /\ writer = {}

\* The database holds the rows whose COPY was acknowledged and those whose
\* acknowledgement was lost, and no others.
ArchiveKnown ==
  /\ bg.acked \cup written \subseteq archive
  /\ archive \subseteq bg.acked \cup written \cup ackLost
  /\ duplicated \subseteq ackLost

\* How often a row has been sent follows from where it is.
SendsKnown ==
  /\ \A r \in Rows \ produced : sends[r] = 0
  /\ \A r \in InShared \cup writer : sends[r] = 0
  /\ \A r \in bg.todo : sends[r] = inflight.attempts
  /\ \A r \in bg.keep : sends[r] = inflight.attempts + 1
  /\ \A r \in retry.bundle : sends[r] = retry.attempts
  /\ inflight.attempts <= BackoffLen + (IF LastAttempt THEN 1 ELSE 0)
  /\ retry.attempts <= BackoffLen + (IF LastAttempt THEN 1 ELSE 0)

\* A row is sent at most once per backoff delay plus the first attempt; the
\* shutdown sequence adds one last attempt.
RetryBudget ==
  \A r \in Rows : sends[r] <= BackoffLen + 1 + (IF ShuttingDown THEN 1 ELSE 0)

\* The two counters the operator sees agree with what happened to the rows,
\* where a buffered row is one COPY row: rows_lost counts the rows given up on
\* once each, whether they failed permanently, ran out of retries, or were
\* uncommitted when their task panicked or was aborted.
BooksBalance ==
  /\ rows_lost = Cardinality(lost)
  /\ total_written = Cardinality(written)

\* A row that is reported written is in the database, and it is there twice
\* only if the reply to one of its COPYs never arrived: the partial retry of a
\* bundle resends no chunk that was acknowledged.
WrittenIsArchived ==
  /\ written \cup bg.acked \subseteq archive
  /\ duplicated \subseteq ackLost

\* The final drain sees every row: when the loop returns nothing is left in a
\* SharedBuffer, a writer, a task or the retry slot.
DrainedAtExit == pc = "done" => Holding = {}

\* A loop that returns with rows_lost = 0 logs a clean termination "with no
\* data loss": every row it accepted is in the database.
CleanExitMeansArchived ==
  pc = "done" /\ rows_lost = 0 =>
    produced \subseteq archive \cup dropped \cup pushedBack

Fate ==
  [r \in Rows |-> CASE r \in Holding    -> "held"
                    [] r \in dropped    -> "dropped"
                    [] r \in pushedBack -> "pushed_back"
                    [] r \in written    -> "written"
                    [] r \in lost       -> "lost"
                    [] OTHER            -> "unseen"]

Ledger == INSTANCE SampleLedger WITH fate <- Fate

\* The store loop, its tasks and its shutdown implement the ledger: a row is
\* decided once and for all, and reported written only if it is archived.
ImplementsLedger == Ledger!Spec

\* Once cancelled, the loop returns even if the database never answers.
ShutdownEnds == cancel ~> pc = "done"

\* While COPYs end, one way or the other, every pushed row gets its fate:
\* neither the pause of ingest during a retry nor a bundle that keeps failing
\* holds the rows behind it forever.
RowsSettle ==
  WF_vars(TaskCopy) =>
    \A r \in Rows :
      r \in produced ~> r \in Decided

============================================================================
