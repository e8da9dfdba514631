--------------------------- MODULE StoreLoopProofs ---------------------------
(***************************************************************************)
(* Machine-checked proofs about StoreLoop, for every number of rows and    *)
(* shards, every layout of the COPY sections and every bound.              *)
(***************************************************************************)
EXTENDS StoreLoop, TLAPS, FiniteSetTheorems

\* The number of rows in a container is a natural number: containers hold
\* subsets of the finite set of rows.
LEMMA CountType ==
  ASSUME NEW S \in SUBSET Rows
  PROVE  Cardinality(S) \in Nat /\ CopyCount(S) \in Nat
BY FS_Subset, FS_CardinalityType, RowsAssumption, CopyCountAssumption

\* SatSub is a subtraction on the naturals.
LEMMA SatSubType ==
  ASSUME NEW m \in Nat, NEW n \in Nat
  PROVE  SatSub(m, n) \in Nat
BY DEF SatSub

\* Every chunk of a set of rows is a non-empty subset of it.
LEMMA ChunksInside ==
  ASSUME NEW S, NEW C \in Chunks(S)
  PROVE  C \subseteq S /\ C # {}
BY DEF Chunks, Section

\* The rows of the shared buffers, and the part of them the writers accept.
LEMMA SharedType ==
  ASSUME TypeOK
  PROVE  /\ InShared \in SUBSET Rows
         /\ \A A \in Accepted : A \in SUBSET OthersOf(InShared)
         /\ ScalarsOf(InShared) \in SUBSET InShared
         /\ OthersOf(InShared) = InShared \ ScalarsOf(InShared)
BY DEF TypeOK, InShared, Accepted, OthersOf, ScalarsOf, OfWriter

\* Starting a task on well-typed rows is well typed.
LEMMA SpawnType ==
  ASSUME NEW S \in SUBSET Rows, NEW n \in Nat, Spawn(S, n)
  PROVE  /\ bg' \in TaskType
         /\ inflight' \in [attempts : Nat, rows : Nat]
BY CountType DEF Spawn, TaskType

\* Retaining the kept rows of a task is well typed.
LEMMA RetainType ==
  ASSUME bg.keep \in SUBSET Rows, NEW n \in Nat, NEW d \in BOOLEAN, Retain(n, d)
  PROVE  retry' \in RetryType
BY Zenon DEF Retain, RetryType

\* An idle retry slot is well typed.
LEMMA NoRetryType == NoRetry \in RetryType
BY Zenon DEF NoRetry, RetryType

\* The initial state is well typed.
LEMMA InitTypeOK == Init => TypeOK
<1> SUFFICES ASSUME Init PROVE TypeOK
  OBVIOUS
<1>1. bg \in TaskType
  BY DEF Init, NoTask, TaskType
<1>2. retry \in RetryType
  BY NoRetryType DEF Init
<1>3. flushDue \in BOOLEAN /\ stopped \in BOOLEAN /\ cancel \in BOOLEAN
  BY DEF Init
<1> QED
  BY <1>1, <1>2, <1>3 DEF Init, TypeOK, PCs

\* Booking a task's rows is well typed.
LEMMA SettleType ==
  ASSUME TypeOK, NEW gone \in SUBSET Rows, NEW counted \in Nat,
         Settle(gone, counted)
  PROVE  /\ bg' \in TaskType
         /\ written' \in SUBSET Rows /\ lost' \in SUBSET Rows
         /\ total_written' \in Nat /\ rows_lost' \in Nat
<1>1. CopyCount(bg.acked) \in Nat
  BY CountType DEF TypeOK, TaskType
<1> QED
  BY <1>1 DEF TypeOK, TaskType, Settle, NoTask

\* Giving up on a broken task is well typed.
LEMMA SettleBrokenType ==
  ASSUME TypeOK, SettleBroken
  PROVE  /\ bg' \in TaskType
         /\ written' \in SUBSET Rows /\ lost' \in SUBSET Rows
         /\ total_written' \in Nat /\ rows_lost' \in Nat
<1>1. /\ bg.todo \cup bg.keep \cup bg.lost \in SUBSET Rows
      /\ CopyCount(bg.acked) \in Nat /\ inflight.rows \in Nat
  BY CountType DEF TypeOK, TaskType
<1>2. SatSub(inflight.rows, CopyCount(bg.acked)) \in Nat
  BY <1>1, SatSubType
<1> QED
  BY <1>1, <1>2, SettleType DEF SettleBroken

\* Draining the shared buffers is well typed.
LEMMA TakeSharedType ==
  ASSUME TypeOK, NEW A \in Accepted, TakeShared(A)
  PROVE  /\ shared' \in [Shards -> SUBSET Rows] /\ bytes' \in [Writers -> Nat]
         /\ pushedBack' \in SUBSET Rows
         /\ writer \cup ScalarsOf(InShared) \cup A \in SUBSET Rows
<1>1. /\ InShared \in SUBSET Rows /\ A \in SUBSET Rows
      /\ ScalarsOf(InShared) \in SUBSET Rows /\ OthersOf(InShared) \in SUBSET Rows
  BY SharedType DEF OthersOf
<1>2. \A w \in Writers : Cardinality(OfWriter(A, w)) \in Nat
  BY <1>1, CountType DEF OfWriter
<1> QED
  BY <1>1, <1>2 DEF TakeShared, TypeOK

\* What a COPY does to the database is well typed.
LEMMA ServerType ==
  ASSUME TypeOK, NEW C \in SUBSET Rows
  PROVE  /\ ServerCommits(C) => archive' \in SUBSET Rows /\ duplicated' \in SUBSET Rows
         /\ Sent(C) => sends' \in [Rows -> Nat]
BY DEF TypeOK, ServerCommits, Sent

\* Every step of the specification keeps the state well typed.
LEMMA NextTypeOK == TypeOK /\ [Next]_vars => TypeOK'
<1> SUFFICES ASSUME TypeOK, [Next]_vars PROVE TypeOK'
  OBVIOUS
<1> USE DEF bufVars, loopVars, counters, mainVars, dbVars, fateVars
<1>1. ASSUME NEW r \in Rows, NEW s \in Shards, Push(r, s) PROVE TypeOK'
  BY <1>1 DEF TypeOK, Push
<1>2. CASE TaskCopy
  <2>1. PICK C \in Chunks(bg.todo) :
          /\ Sent(C)
          /\ CopyOk(C) \/ CopyTransient(C) \/ CopyPermanent(C)
    BY <1>2 DEF TaskCopy
  <2>2. C \in SUBSET Rows
    BY <2>1, ChunksInside DEF TypeOK, TaskType
  <2>3. bg' \in TaskType
    <3>1. CASE CopyOk(C)
      BY <2>2, <3>1 DEF TypeOK, TaskType, CopyOk, StateAfter
    <3>2. CASE CopyTransient(C)
      BY <2>2, <3>2 DEF TypeOK, TaskType, CopyTransient, StateAfter
    <3>3. CASE CopyPermanent(C)
      BY <2>2, <3>3 DEF TypeOK, TaskType, CopyPermanent, StateAfter
    <3> QED
      BY <2>1, <3>1, <3>2, <3>3
  <2>4. /\ archive' \in SUBSET Rows /\ duplicated' \in SUBSET Rows
        /\ ackLost' \in SUBSET Rows /\ sends' \in [Rows -> Nat]
    BY <2>1, <2>2, ServerType DEF TypeOK, CopyOk, CopyTransient, CopyPermanent
  <2> QED
    BY <1>2, <2>3, <2>4 DEF TypeOK, TaskCopy, taskUnchanged
<1>3. CASE TaskPanic
  <2>1. bg' \in TaskType
    BY <1>3 DEF TypeOK, TaskType, TaskPanic
  <2> QED
    BY <1>3, <2>1 DEF TypeOK, TaskPanic, taskUnchanged
<1>4. CASE ReapNothing
  BY <1>4 DEF TypeOK, ReapNothing, reapUnchanged, PCs
<1>5. CASE ReapOutcome
  <2>1. /\ bg' \in TaskType /\ written' \in SUBSET Rows /\ lost' \in SUBSET Rows
        /\ total_written' \in Nat /\ rows_lost' \in Nat
    <3>1. /\ bg.lost \in SUBSET Rows /\ bg.lost \cup bg.keep \in SUBSET Rows
          /\ CopyCount(bg.lost) \in Nat
          /\ CopyCount(bg.lost) + Cardinality(bg.keep) \in Nat
      BY CountType DEF TypeOK, TaskType
    <3> QED
      BY <1>5, <3>1, SettleType DEF ReapOutcome
  <2>2. retry' \in RetryType
    <3>1. bg.keep \in SUBSET Rows /\ inflight.attempts + 1 \in Nat
      BY DEF TypeOK, TaskType
    <3> QED
      BY <1>5, <3>1, RetainType DEF ReapOutcome, TypeOK
  <2> QED
    BY <1>5, <2>1, <2>2 DEF TypeOK, ReapOutcome, reapUnchanged, PCs
<1>6. CASE ReapPanic
  BY <1>6, SettleBrokenType DEF TypeOK, ReapPanic, reapUnchanged, PCs
<1>7. CASE SpawnRetry
  <2>1. bg' \in TaskType /\ inflight' \in [attempts : Nat, rows : Nat]
    BY <1>7, SpawnType DEF SpawnRetry, TypeOK, RetryType
  <2>2. retry' \in RetryType
    BY <1>7, NoRetryType DEF SpawnRetry
  <2> QED
    BY <1>7, <2>1, <2>2 DEF TypeOK, SpawnRetry, PCs
<1>8. CASE SpawnFlush
  <2>1. bg' \in TaskType /\ inflight' \in [attempts : Nat, rows : Nat]
    BY <1>8, SpawnType DEF SpawnFlush, TypeOK
  <2> QED
    BY <1>8, <2>1 DEF TypeOK, SpawnFlush, PCs
<1>9. CASE SpawnNothing
  BY <1>9 DEF TypeOK, SpawnNothing, PCs
<1>10. CASE Ingest
  BY <1>10, TakeSharedType DEF TypeOK, Ingest, PCs
<1>11. CASE Nap
  BY <1>11 DEF TypeOK, Nap, PCs
<1>12. CASE JoinNothing
  BY <1>12 DEF TypeOK, JoinNothing, AfterWait, shutdownUnchanged, PCs
<1>13. CASE JoinInFlight
  <2>1. /\ bg' \in TaskType /\ written' \in SUBSET Rows /\ lost' \in SUBSET Rows
        /\ total_written' \in Nat /\ rows_lost' \in Nat
    BY <1>13, SettleType, CountType DEF JoinInFlight, TypeOK, TaskType
  <2>2. retry' \in RetryType
    <3>1. bg.keep \in SUBSET Rows /\ inflight.attempts + 1 \in Nat
      BY DEF TypeOK, TaskType
    <3> QED
      BY <1>13, <3>1, RetainType DEF JoinInFlight, TypeOK
  <2> QED
    BY <1>13, <2>1, <2>2 DEF TypeOK, JoinInFlight, AfterWait, shutdownUnchanged, PCs
<1>14. CASE JoinLast
  <2>1. /\ bg' \in TaskType /\ written' \in SUBSET Rows /\ lost' \in SUBSET Rows
        /\ total_written' \in Nat /\ rows_lost' \in Nat
    <3>1. /\ bg.lost \cup bg.keep \in SUBSET Rows
          /\ CopyCount(bg.lost) + Cardinality(bg.keep) \in Nat
      BY CountType DEF TypeOK, TaskType
    <3> QED
      BY <1>14, <3>1, SettleType DEF JoinLast
  <2> QED
    BY <1>14, <2>1 DEF TypeOK, JoinLast, Awaiting, AfterWait, shutdownUnchanged, PCs
<1>15. CASE JoinPanicked
  BY <1>15, SettleBrokenType
  DEF TypeOK, JoinPanicked, Awaiting, AfterWait, shutdownUnchanged, PCs
<1>16. CASE JoinAborted
  <2>1. /\ archive' \in SUBSET Rows /\ duplicated' \in SUBSET Rows
        /\ ackLost' \in SUBSET Rows /\ sends' \in [Rows -> Nat]
    <3>1. \A C \in Chunks(bg.todo) : C \in SUBSET Rows
      BY ChunksInside DEF TypeOK, TaskType
    <3> QED
      BY <1>16, <3>1, ServerType DEF TypeOK, JoinAborted
  <2> QED
    BY <1>16, <2>1, SettleBrokenType
    DEF TypeOK, JoinAborted, Awaiting, AfterWait, shutdownUnchanged, PCs
<1>17. CASE FinalRetry
  <2>1. /\ bg' \in TaskType /\ inflight' \in [attempts : Nat, rows : Nat]
    BY <1>17, SpawnType DEF FinalRetry, TypeOK, RetryType
  <2>2. retry' \in RetryType
    BY <1>17, NoRetryType DEF FinalRetry, TypeOK
  <2> QED
    BY <1>17, <2>1, <2>2 DEF TypeOK, FinalRetry, PCs
<1>18. CASE Drain
  <2>1. PICK A \in Accepted :
          LET rest == writer \cup ScalarsOf(InShared) \cup A
          IN  /\ TakeShared(A)
              /\ IF rest = {}
                   THEN pc' = "done" /\ UNCHANGED <<bg, inflight>>
                   ELSE pc' = "await_flush" /\ Spawn(rest, 0)
    BY <1>18 DEF Drain
  <2>2. bg' \in TaskType /\ inflight' \in [attempts : Nat, rows : Nat]
    BY <2>1, TakeSharedType, SpawnType DEF TypeOK
  <2> QED
    BY <1>18, <2>1, <2>2, TakeSharedType DEF TypeOK, Drain, PCs
<1>19. CASE Main
  BY <1>19 DEF TypeOK, Main, StopProducers, Cancel, MainGivesUp, PCs
<1>20. CASE Tick
  BY <1>20 DEF TypeOK, Tick
<1>21. CASE FlushTimer
  BY <1>21 DEF TypeOK, FlushTimer
<1>22. CASE RetryTimer
  <2>1. retry' \in RetryType
    BY <1>22 DEF TypeOK, RetryTimer, RetryType
  <2> QED
    BY <1>22, <2>1 DEF TypeOK, RetryTimer
<1>23. CASE UNCHANGED vars
  BY <1>23 DEF TypeOK, vars
<1> QED
  BY <1>1, <1>2, <1>3, <1>4, <1>5, <1>6, <1>7, <1>8, <1>9, <1>10, <1>11, <1>12,
     <1>13, <1>14, <1>15, <1>16, <1>17, <1>18, <1>19, <1>20, <1>21, <1>22, <1>23
  DEF Next, Producers, Loop, Reap, Schedule, Shutdown, Clock, Terminated

\* The state of the storage half is always well typed.
THEOREM StoreTypeCorrect == Spec => []TypeOK
BY InitTypeOK, NextTypeOK, PTL DEF Spec

-----------------------------------------------------------------------------
(* The two slots of the loop: the task in flight and the retained bundle.   *)

\* A task that starts has all of its rows to send.
LEMMA SpawnFields ==
  ASSUME NEW S, NEW n, Spawn(S, n)
  PROVE  /\ bg'.st = "running" /\ bg'.todo = S
         /\ bg'.acked = {} /\ bg'.keep = {} /\ bg'.lost = {}
         /\ inflight'.attempts = n /\ inflight'.rows = Cardinality(S)
BY DEF Spawn

\* A task that is dropped leaves an empty slot.
LEMMA SettleFields ==
  ASSUME NEW gone, NEW counted, Settle(gone, counted)
  PROVE  /\ bg'.st = "none" /\ bg'.todo = {}
         /\ bg'.acked = {} /\ bg'.keep = {} /\ bg'.lost = {}
         /\ written' = written \cup bg.acked /\ lost' = lost \cup gone
BY DEF Settle, NoTask

\* The rows a task has kept are what the retry slot holds afterwards.
LEMMA RetainFields ==
  ASSUME NEW n, NEW d, Retain(n, d)
  PROVE  retry'.on = TRUE /\ retry'.bundle = bg.keep /\ retry'.attempts = n
BY DEF Retain

\* The empty retry slot.
LEMMA NoRetryFields ==
  ASSUME retry' = NoRetry
  PROVE  retry'.on = FALSE /\ retry'.bundle = {} /\ retry'.attempts = 0
BY DEF NoRetry

\* How one COPY of a chunk moves the chunk between the fields of the task.
LEMMA CopyFields ==
  ASSUME TypeOK, NEW C,
         CopyOk(C) \/ CopyTransient(C) \/ CopyPermanent(C)
  PROVE  /\ bg'.st \in {"running", "finished"} /\ bg'.todo = bg.todo \ C
         /\ bg'.st = "finished" => bg'.todo = {}
         /\ \/ /\ bg'.acked = bg.acked \cup C
               /\ bg'.keep = bg.keep /\ bg'.lost = bg.lost
            \/ /\ bg'.keep = bg.keep \cup C
               /\ bg'.acked = bg.acked /\ bg'.lost = bg.lost
            \/ /\ bg'.lost = bg.lost \cup C
               /\ bg'.acked = bg.acked /\ bg'.keep = bg.keep
<1>1. CASE CopyOk(C)
  BY <1>1 DEF CopyOk, TypeOK, TaskType, StateAfter
<1>2. CASE CopyTransient(C)
  BY <1>2 DEF CopyTransient, TypeOK, TaskType, StateAfter
<1>3. CASE CopyPermanent(C)
  BY <1>3 DEF CopyPermanent, TypeOK, TaskType, StateAfter
<1> QED
  BY <1>1, <1>2, <1>3

\* Init fills no slot.
LEMMA InitSlots == Init => SlotDiscipline
BY DEF Init, SlotDiscipline, OneBundle, TaskRows, NoTask, NoRetry

\* No step lets a task and a retained bundle exist together, or leaves rows in
\* a slot that is empty.
LEMMA NextSlots == TypeOK /\ SlotDiscipline /\ [Next]_vars => SlotDiscipline'
<1> SUFFICES ASSUME TypeOK, SlotDiscipline, [Next]_vars PROVE SlotDiscipline'
  OBVIOUS
<1> USE DEF loopVars, SlotDiscipline, OneBundle, TaskRows
<1>1. ASSUME UNCHANGED <<pc, bg, retry>> PROVE SlotDiscipline'
  BY <1>1
<1>2. CASE TaskCopy
  <2>1. PICK C \in Chunks(bg.todo) :
          CopyOk(C) \/ CopyTransient(C) \/ CopyPermanent(C)
    BY <1>2 DEF TaskCopy
  <2>2. /\ bg.st = "running" /\ bg'.st \in {"running", "finished"}
        /\ bg'.st = "finished" => bg'.todo = {}
    BY <1>2, <2>1, CopyFields DEF TaskCopy, TaskRuns
  <2> QED
    BY <1>2, <2>2 DEF TaskCopy, taskUnchanged
<1>3. CASE TaskPanic
  BY <1>3 DEF TaskPanic, TaskRuns, taskUnchanged, TypeOK, TaskType
<1>4. CASE ReapNothing
  BY <1>4 DEF ReapNothing
<1>5. CASE ReapOutcome
  BY <1>5, SettleFields, RetainFields DEF ReapOutcome
<1>6. CASE ReapPanic
  BY <1>6, SettleFields DEF ReapPanic, SettleBroken
<1>7. CASE SpawnRetry
  BY <1>7, SpawnFields, NoRetryFields DEF SpawnRetry
<1>8. CASE SpawnFlush
  BY <1>8, SpawnFields DEF SpawnFlush, FlushWanted
<1>9. CASE SpawnNothing \/ Ingest \/ Nap
  BY <1>9 DEF SpawnNothing, Ingest, Nap
<1>10. CASE JoinNothing
  BY <1>10 DEF JoinNothing, AfterWait
<1>11. CASE JoinInFlight
  BY <1>11, SettleFields, RetainFields DEF JoinInFlight, AfterWait
<1>12. CASE JoinLast
  BY <1>12, SettleFields DEF JoinLast, AfterWait, Awaiting
<1>13. CASE JoinPanicked
  BY <1>13, SettleFields DEF JoinPanicked, SettleBroken, AfterWait, Awaiting
<1>14. CASE JoinAborted
  BY <1>14, SettleFields DEF JoinAborted, SettleBroken, AfterWait, Awaiting
<1>15. CASE FinalRetry
  BY <1>15, SpawnFields, NoRetryFields DEF FinalRetry
<1>16. CASE Drain
  BY <1>16, SpawnFields DEF Drain
<1>17. CASE MainGivesUp
  BY <1>17 DEF MainGivesUp
<1>18. CASE RetryTimer
  BY <1>18 DEF RetryTimer, TypeOK, RetryType
<1> QED
  BY <1>1, <1>2, <1>3, <1>4, <1>5, <1>6, <1>7, <1>8, <1>9, <1>10, <1>11, <1>12,
     <1>13, <1>14, <1>15, <1>16, <1>17, <1>18
  DEF Next, Producers, Push, Loop, Reap, Schedule, Shutdown, Main,
      StopProducers, Cancel, Clock, Tick, FlushTimer, Terminated, vars

\* A retained bundle is never overwritten by the outcome of a task in flight:
\* the loop has one or the other.
THEOREM StoreOneBundle == Spec => []OneBundle
<1>1. Init => TypeOK /\ SlotDiscipline
  BY InitTypeOK, InitSlots
<1>2. TypeOK /\ SlotDiscipline /\ [Next]_vars => (TypeOK /\ SlotDiscipline)'
  BY NextTypeOK, NextSlots
<1>3. SlotDiscipline => OneBundle
  BY DEF SlotDiscipline
<1> QED
  BY <1>1, <1>2, <1>3, PTL DEF Spec

-----------------------------------------------------------------------------
(* Every row is in one place, and none is forgotten.                        *)

\* What draining does: the shared buffers are empty, and each of their rows
\* has gone to a writer's buffer or was pushed back.
LEMMA TakeSharedFields ==
  ASSUME TypeOK, NEW A \in Accepted, TakeShared(A)
  PROVE  /\ InShared' = {}
         /\ A \subseteq InShared /\ A \cap ScalarsOf(InShared) = {}
         /\ ScalarsOf(InShared) \subseteq InShared
         /\ pushedBack' = pushedBack \cup ((InShared \ ScalarsOf(InShared)) \ A)
         /\ \A s \in Shards : shared'[s] = {}
BY SharedType DEF TakeShared, InShared

\* Init places no row.
LEMMA InitPartition == Init => NoRowVanishes /\ OneHolder
BY DEF Init, NoRowVanishes, OneHolder, Holding, Decided, TaskRows, Retained,
       InShared, NoTask, NoRetry

\* Every step moves rows between places without losing or copying one.
LEMMA NextPartition ==
  TypeOK /\ SlotDiscipline /\ NoRowVanishes /\ OneHolder /\ [Next]_vars
    => NoRowVanishes' /\ OneHolder'
<1> SUFFICES ASSUME TypeOK, SlotDiscipline, NoRowVanishes, OneHolder, [Next]_vars
             PROVE  NoRowVanishes' /\ OneHolder'
  OBVIOUS
<1> DEFINE ShardsApart == \A s, t \in Shards : s # t => shared[s] \cap shared[t] = {}
<1> USE DEF bufVars, loopVars, fateVars, NoRowVanishes, OneHolder, Holding,
            Decided, TaskRows, Retained
<1>s. UNCHANGED shared => InShared' = InShared /\ (ShardsApart' <=> ShardsApart)
  BY DEF InShared
<1>1. ASSUME UNCHANGED <<shared, writer, fateVars>>,
             bg'.todo = bg.todo, bg'.keep = bg.keep, bg'.acked = bg.acked,
             bg'.lost = bg.lost, retry'.bundle = retry.bundle
      PROVE  NoRowVanishes' /\ OneHolder'
  BY <1>1, <1>s
<1>2. ASSUME NEW r \in Rows, NEW s \in Shards, Push(r, s)
      PROVE  NoRowVanishes' /\ OneHolder'
  <2>1. CASE shared' = [shared EXCEPT ![s] = @ \cup {r}] /\ UNCHANGED dropped
    <3>1. InShared' = InShared \cup {r}
      BY <2>1 DEF InShared, TypeOK
    <3>2. ShardsApart'
      BY <1>2, <2>1 DEF InShared, TypeOK, Push
    <3> QED
      BY <1>2, <2>1, <3>1, <3>2 DEF Push
  <2>2. CASE dropped' = dropped \cup {r} /\ UNCHANGED shared
    BY <1>2, <2>2, <1>s DEF Push
  <2> QED
    BY <1>2, <2>1, <2>2 DEF Push
<1>3. CASE TaskCopy
  <2>1. PICK C \in Chunks(bg.todo) :
          CopyOk(C) \/ CopyTransient(C) \/ CopyPermanent(C)
    BY <1>3 DEF TaskCopy
  <2>2. C \subseteq bg.todo
    BY ChunksInside
  <2> QED
    BY <1>3, <1>s, <2>1, <2>2, CopyFields DEF TaskCopy, taskUnchanged
<1>4. CASE TaskPanic
  BY <1>1, <1>4 DEF TaskPanic, taskUnchanged, TypeOK, TaskType
<1>5. CASE ReapOutcome
  <2>1. /\ bg.todo = {} /\ retry.bundle = {}
        /\ UNCHANGED <<bufVars, produced, dropped, pushedBack>>
    BY <1>5 DEF ReapOutcome, reapUnchanged, SlotDiscipline, OneBundle
  <2>2. \/ /\ lost' = lost \cup (bg.lost \cup bg.keep) /\ retry'.bundle = {}
        \/ /\ lost' = lost \cup bg.lost /\ retry'.bundle = bg.keep
    <3>1. CASE bg.keep # {} /\ inflight.attempts + 1 >= BackoffLen + 1
      BY <1>5, <2>1, <3>1, SettleFields DEF ReapOutcome
    <3>2. CASE bg.keep # {} /\ ~(inflight.attempts + 1 >= BackoffLen + 1)
      BY <1>5, <3>2, SettleFields, RetainFields DEF ReapOutcome
    <3>3. CASE bg.keep = {}
      BY <1>5, <2>1, <3>3, SettleFields DEF ReapOutcome
    <3> QED
      BY <3>1, <3>2, <3>3
  <2>3. /\ bg'.todo = {} /\ bg'.keep = {} /\ bg'.acked = {} /\ bg'.lost = {}
        /\ written' = written \cup bg.acked
    BY <1>5, SettleFields DEF ReapOutcome
  <2> QED
    BY <1>s, <2>1, <2>2, <2>3
<1>6. CASE ReapPanic
  BY <1>6, <1>s, SettleFields DEF ReapPanic, SettleBroken, reapUnchanged
<1>7. CASE SpawnRetry
  BY <1>7, <1>s, SpawnFields, NoRetryFields DEF SpawnRetry, SlotDiscipline
<1>8. CASE SpawnFlush
  BY <1>8, <1>s, SpawnFields DEF SpawnFlush, SlotDiscipline
<1>9. CASE Ingest
  <2>1. CASE retry.on
    BY <1>1, <1>9, <2>1 DEF Ingest
  <2>2. CASE ~retry.on
    BY <1>9, <2>2, TakeSharedFields DEF Ingest
  <2> QED
    BY <2>1, <2>2
<1>10. CASE JoinInFlight
  <2>1. /\ bg.todo = {} /\ retry.bundle = {}
        /\ UNCHANGED <<bufVars, produced, dropped, pushedBack>>
    BY <1>10 DEF JoinInFlight, shutdownUnchanged, SlotDiscipline, OneBundle
  <2>2. lost' = lost \cup bg.lost /\ retry'.bundle = bg.keep
    BY <1>10, <2>1, SettleFields, RetainFields DEF JoinInFlight
  <2>3. /\ bg'.todo = {} /\ bg'.keep = {} /\ bg'.acked = {} /\ bg'.lost = {}
        /\ written' = written \cup bg.acked
    BY <1>10, SettleFields DEF JoinInFlight
  <2> QED
    BY <1>s, <2>1, <2>2, <2>3
<1>11. CASE JoinLast
  BY <1>11, <1>s, SettleFields DEF JoinLast, shutdownUnchanged, SlotDiscipline
<1>12. CASE JoinPanicked \/ JoinAborted
  BY <1>12, <1>s, SettleFields
  DEF JoinPanicked, JoinAborted, SettleBroken, shutdownUnchanged
<1>13. CASE FinalRetry
  BY <1>13, <1>s, SpawnFields, NoRetryFields DEF FinalRetry, SlotDiscipline
<1>14. CASE Drain
  BY <1>14, SpawnFields, TakeSharedFields DEF Drain, SlotDiscipline
<1>15. CASE RetryTimer
  BY <1>1, <1>15 DEF RetryTimer, TypeOK, RetryType
<1> QED
  BY <1>1, <1>2, <1>3, <1>4, <1>5, <1>6, <1>7, <1>8, <1>9, <1>10, <1>11, <1>12,
     <1>13, <1>14, <1>15
  DEF Next, Producers, Loop, Reap, ReapNothing, reapUnchanged,
      Schedule, SpawnNothing, Nap, Shutdown, JoinNothing, shutdownUnchanged, Main,
      StopProducers, Cancel, MainGivesUp, Clock, Tick, FlushTimer, Terminated, vars

-----------------------------------------------------------------------------
(* The ordered shutdown drains every buffer.                                *)

\* Init is a running system.
LEMMA InitShutdown == Init => OrderedShutdown
BY DEF Init, OrderedShutdown, ShuttingDown, LastAttempt

\* No step of a producer, of main or of the loop breaks the order.
LEMMA NextShutdown ==
  TypeOK /\ OrderedShutdown /\ [Next]_vars => OrderedShutdown'
<1> SUFFICES ASSUME TypeOK, OrderedShutdown, [Next]_vars PROVE OrderedShutdown'
  OBVIOUS
<1> USE DEF bufVars, mainVars, OrderedShutdown, ShuttingDown, LastAttempt
<1>s. UNCHANGED shared => InShared' = InShared
  BY DEF InShared
<1>1. ASSUME UNCHANGED <<pc, shared, writer, stopped, cancel>> PROVE OrderedShutdown'
  BY <1>1, <1>s
<1>2. ASSUME NEW r \in Rows, NEW s \in Shards, Push(r, s) PROVE OrderedShutdown'
  <2>1. ~cancel /\ UNCHANGED <<pc, stopped, cancel, writer>>
    BY <1>2 DEF Push
  <2> QED
    BY <2>1
<1>3. CASE Reap
  <2>1. pc' = "schedule" /\ UNCHANGED <<stopped, cancel>>
    BY <1>3 DEF Reap, ReapNothing, ReapOutcome, ReapPanic, reapUnchanged
  <2> QED
    BY <2>1
<1>4. CASE Schedule
  BY <1>4, <1>s DEF Schedule, SpawnRetry, SpawnFlush, SpawnNothing
<1>5. CASE Ingest
  BY <1>5 DEF Ingest
<1>6. CASE Nap
  BY <1>6, <1>s DEF Nap
<1>7. CASE JoinNothing \/ JoinInFlight \/ JoinLast \/ JoinPanicked \/ JoinAborted
  <2>1. UNCHANGED <<shared, writer, stopped, cancel>> /\ pc \in Awaiting /\ AfterWait
    BY <1>7 DEF JoinNothing, JoinInFlight, JoinLast, JoinPanicked, JoinAborted,
                shutdownUnchanged, Awaiting
  <2> QED
    BY <1>s, <2>1 DEF AfterWait, Awaiting
<1>8. CASE FinalRetry
  BY <1>8, <1>s DEF FinalRetry
<1>9. CASE Drain
  BY <1>9, TakeSharedFields DEF Drain
<1>10. CASE StopProducers \/ Cancel
  BY <1>10, <1>s DEF StopProducers, Cancel
<1>11. CASE MainGivesUp
  BY <1>11, <1>s DEF MainGivesUp
<1> QED
  BY <1>1, <1>2, <1>3, <1>4, <1>5, <1>6, <1>7, <1>8, <1>9, <1>10, <1>11
  DEF Next, Producers, TaskCopy, TaskPanic, taskUnchanged,
      Loop, Shutdown, Main, Clock, Tick, FlushTimer, RetryTimer, Terminated, vars

-----------------------------------------------------------------------------
(* What the database holds.                                                 *)

\* Init has an empty database.
LEMMA InitArchive == Init => ArchiveKnown
BY DEF Init, ArchiveKnown, NoTask

\* Only rows that are still to be sent reach the database, so a row is there
\* twice only if an earlier COPY of it had lost its reply.
LEMMA NextArchive ==
  TypeOK /\ SlotDiscipline /\ OneHolder /\ ArchiveKnown /\ [Next]_vars
    => ArchiveKnown'
<1> SUFFICES ASSUME TypeOK, SlotDiscipline, OneHolder, ArchiveKnown, [Next]_vars
             PROVE  ArchiveKnown'
  OBVIOUS
<1> USE DEF dbVars, fateVars, ArchiveKnown
<1>1. ASSUME UNCHANGED <<dbVars, written>>, bg'.acked = bg.acked PROVE ArchiveKnown'
  BY <1>1
<1>2. CASE TaskCopy
  <2>1. PICK C \in Chunks(bg.todo) :
          CopyOk(C) \/ CopyTransient(C) \/ CopyPermanent(C)
    BY <1>2 DEF TaskCopy
  <2>2. C \subseteq bg.todo /\ C \cap (bg.acked \cup written) = {}
    BY ChunksInside DEF OneHolder, TaskRows, Decided
  <2>3. written' = written
    BY <1>2 DEF TaskCopy, taskUnchanged
  <2>4. CASE CopyOk(C)
    BY <2>2, <2>3, <2>4 DEF CopyOk, ServerCommits, TypeOK, TaskType
  <2>5. CASE CopyTransient(C)
    BY <2>2, <2>3, <2>5 DEF CopyTransient, ServerCommits, TypeOK, TaskType
  <2>6. CASE CopyPermanent(C)
    BY <2>3, <2>6 DEF CopyPermanent, TypeOK, TaskType, StateAfter
  <2> QED
    BY <2>1, <2>4, <2>5, <2>6
<1>3. CASE TaskPanic
  BY <1>1, <1>3 DEF TaskPanic, taskUnchanged, TypeOK, TaskType
<1>4. CASE ReapOutcome
  BY <1>4, SettleFields DEF ReapOutcome, reapUnchanged
<1>5. CASE ReapPanic
  BY <1>5, SettleFields DEF ReapPanic, SettleBroken, reapUnchanged
<1>6. CASE SpawnRetry
  BY <1>6, SpawnFields DEF SpawnRetry, SlotDiscipline, TaskRows
<1>7. CASE SpawnFlush
  BY <1>7, SpawnFields DEF SpawnFlush, SlotDiscipline, TaskRows
<1>8. CASE JoinInFlight \/ JoinLast
  BY <1>8, SettleFields DEF JoinInFlight, JoinLast
<1>9. CASE JoinPanicked
  BY <1>9, SettleFields DEF JoinPanicked, SettleBroken
<1>10. CASE JoinAborted
  <2>1. written' = written \cup bg.acked /\ bg'.acked = {}
    BY <1>10, SettleFields DEF JoinAborted, SettleBroken
  <2>2. CASE UNCHANGED dbVars
    BY <2>1, <2>2
  <2>3. ASSUME NEW C \in Chunks(bg.todo),
               ServerCommits(C), ackLost' = ackLost \cup C
        PROVE  ArchiveKnown'
    BY <2>1, <2>3 DEF ServerCommits
  <2> QED
    BY <1>10, <2>2, <2>3 DEF JoinAborted
<1>11. CASE FinalRetry
  BY <1>11, SpawnFields DEF FinalRetry, SlotDiscipline, TaskRows
<1>12. CASE Drain
  BY <1>12, SpawnFields DEF Drain, SlotDiscipline, TaskRows
<1> QED
  BY <1>1, <1>2, <1>3, <1>4, <1>5, <1>6, <1>7, <1>8, <1>9, <1>10, <1>11, <1>12
  DEF Next, Producers, Push, Loop, Reap, ReapNothing, reapUnchanged,
      Schedule, SpawnNothing, Ingest, Nap, Shutdown, JoinNothing,
      shutdownUnchanged, Main, StopProducers, Cancel, MainGivesUp, Clock, Tick,
      FlushTimer, RetryTimer, Terminated, vars

-----------------------------------------------------------------------------
(* The inductive invariant and what follows from it.                        *)

StoreInv ==
  /\ TypeOK
  /\ SlotDiscipline
  /\ NoRowVanishes
  /\ OneHolder
  /\ OrderedShutdown
  /\ ArchiveKnown

\* The invariant holds initially and every step preserves it.
THEOREM StoreInvariant == Spec => []StoreInv
<1>1. Init => StoreInv
  BY InitTypeOK, InitSlots, InitPartition, InitShutdown, InitArchive DEF StoreInv
<1>2. StoreInv /\ [Next]_vars => StoreInv'
  BY NextTypeOK, NextSlots, NextPartition, NextShutdown, NextArchive DEF StoreInv
<1> QED
  BY <1>1, <1>2, PTL DEF Spec

\* Through retries, partial failures, panics, aborted tasks and shutdown, every
\* row that was pushed is held by the process or has a fate.
THEOREM StoreNoRowVanishes == Spec => []NoRowVanishes
<1>1. StoreInv => NoRowVanishes
  BY DEF StoreInv
<1> QED
  BY <1>1, StoreInvariant, PTL

\* No row is held twice, and no row that has a fate is still held.
THEOREM StoreOneHolder == Spec => []OneHolder
<1>1. StoreInv => OneHolder
  BY DEF StoreInv
<1> QED
  BY <1>1, StoreInvariant, PTL

\* When the store loop returns, no row is left in memory.
THEOREM StoreDrainedAtExit == Spec => []DrainedAtExit
<1>1. StoreInv => DrainedAtExit
  BY DEF StoreInv, SlotDiscipline, OrderedShutdown, DrainedAtExit, Holding,
         Retained
<1> QED
  BY <1>1, StoreInvariant, PTL

\* A row reported written is in the database, and a row is there twice only if
\* the reply to one of its COPYs was lost.
THEOREM StoreWrittenIsArchived == Spec => []WrittenIsArchived
<1>1. StoreInv => WrittenIsArchived
  BY DEF StoreInv, ArchiveKnown, WrittenIsArchived
<1> QED
  BY <1>1, StoreInvariant, PTL

-----------------------------------------------------------------------------
(* How often a row is sent.                                                 *)

\* SendsKnown with the budget itself: the sends of a row that is acknowledged,
\* lost or decided are known no more exactly, but they do not change any more.
SendsInv == SendsKnown /\ RetryBudget

\* Init has sent nothing.
LEMMA InitSends == Init => SendsInv
BY BoundsAssumption
DEF Init, SendsInv, SendsKnown, RetryBudget, InShared, NoTask, NoRetry,
    ShuttingDown, LastAttempt

\* A step that sends nothing and leaves the rows of the task where they are
\* keeps the count.
LEMMA SendsSame ==
  ASSUME TypeOK, SendsInv, UNCHANGED <<sends, produced, inflight>>,
         (InShared \cup writer)' \subseteq InShared \cup writer,
         bg'.todo = bg.todo, bg'.keep = bg.keep,
         retry'.bundle = retry.bundle, retry'.attempts = retry.attempts,
         LastAttempt => LastAttempt', ShuttingDown => ShuttingDown'
  PROVE  SendsInv'
<1>1. /\ inflight.attempts \in Nat /\ retry.attempts \in Nat /\ BackoffLen \in Nat
      /\ \A r \in Rows : sends[r] \in Nat
  BY BoundsAssumption DEF TypeOK, RetryType
<1>2. SendsKnown'
  BY <1>1 DEF SendsInv, SendsKnown
<1>3. RetryBudget'
  BY <1>1 DEF SendsInv, RetryBudget
<1> QED
  BY <1>2, <1>3 DEF SendsInv

\* A task that starts on rows sent n times each.
LEMMA SendsSpawn ==
  ASSUME TypeOK, SendsInv, UNCHANGED <<sends, produced>>,
         NEW S, NEW n \in Nat, Spawn(S, n), \A r \in S : sends[r] = n,
         n <= BackoffLen + (IF LastAttempt' THEN 1 ELSE 0),
         (InShared \cup writer)' \subseteq InShared \cup writer,
         UNCHANGED retry \/ retry' = NoRetry,
         LastAttempt => LastAttempt', ShuttingDown => ShuttingDown'
  PROVE  SendsInv'
<1>1. /\ retry.attempts \in Nat /\ BackoffLen \in Nat
      /\ \A r \in Rows : sends[r] \in Nat
  BY BoundsAssumption DEF TypeOK, RetryType
<1>2. /\ bg'.todo = S /\ bg'.keep = {} /\ inflight'.attempts = n
      /\ \A r \in retry'.bundle : sends[r] = retry'.attempts
      /\ retry'.attempts <= BackoffLen + (IF LastAttempt' THEN 1 ELSE 0)
  BY <1>1 DEF SendsInv, SendsKnown, Spawn, NoRetry
<1>3. SendsKnown'
  BY <1>1, <1>2 DEF SendsInv, SendsKnown
<1>4. RetryBudget'
  BY <1>1 DEF SendsInv, RetryBudget
<1> QED
  BY <1>3, <1>4 DEF SendsInv

\* A task that is dropped without a successor.
LEMMA SendsSettled ==
  ASSUME TypeOK, SendsInv, UNCHANGED <<sends, produced, shared, writer, retry>>,
         bg'.todo = {}, bg'.keep = {},
         UNCHANGED inflight \/ inflight' = [attempts |-> 0, rows |-> 0],
         LastAttempt => LastAttempt', ShuttingDown => ShuttingDown'
  PROVE  SendsInv'
<1>1. /\ inflight.attempts \in Nat /\ retry.attempts \in Nat /\ BackoffLen \in Nat
      /\ \A r \in Rows : sends[r] \in Nat
  BY BoundsAssumption DEF TypeOK, RetryType
<1>2. InShared' = InShared
  BY DEF InShared
<1>3. SendsKnown'
  BY <1>1, <1>2 DEF SendsInv, SendsKnown
<1>4. RetryBudget'
  BY <1>1 DEF SendsInv, RetryBudget
<1> QED
  BY <1>3, <1>4 DEF SendsInv

\* A task that is dropped and leaves the rows it kept in the retry slot.
LEMMA SendsRetained ==
  ASSUME TypeOK, SendsInv, UNCHANGED <<sends, produced, shared, writer>>,
         bg'.todo = {}, bg'.keep = {},
         UNCHANGED inflight \/ inflight' = [attempts |-> 0, rows |-> 0],
         NEW d, Retain(inflight.attempts + 1, d),
         inflight.attempts + 1 <= BackoffLen + (IF LastAttempt' THEN 1 ELSE 0),
         LastAttempt => LastAttempt', ShuttingDown => ShuttingDown'
  PROVE  SendsInv'
<1>1. /\ inflight.attempts \in Nat /\ retry.attempts \in Nat /\ BackoffLen \in Nat
      /\ \A r \in Rows : sends[r] \in Nat
  BY BoundsAssumption DEF TypeOK, RetryType
<1>2. InShared' = InShared
  BY DEF InShared
<1>3. /\ retry'.bundle = bg.keep /\ retry'.attempts = inflight.attempts + 1
      /\ inflight'.attempts = inflight.attempts \/ inflight'.attempts = 0
  BY DEF Retain
<1>4. SendsKnown'
  BY <1>1, <1>2, <1>3 DEF SendsInv, SendsKnown
<1>5. RetryBudget'
  BY <1>1 DEF SendsInv, RetryBudget
<1> QED
  BY <1>4, <1>5 DEF SendsInv

\* Sending rows of the task once more stays within the budget.
LEMMA SentWithin ==
  ASSUME TypeOK, SendsInv, NEW C \in SUBSET bg.todo, Sent(C),
         ShuttingDown => ShuttingDown'
  PROVE  RetryBudget'
<1>1. /\ inflight.attempts \in Nat /\ BackoffLen \in Nat
      /\ \A r \in Rows : sends[r] \in Nat
  BY BoundsAssumption DEF TypeOK
<1>2. \A r \in C : sends[r] <= BackoffLen + (IF ShuttingDown THEN 1 ELSE 0)
  BY <1>1 DEF SendsInv, SendsKnown, ShuttingDown
<1> QED
  BY <1>1, <1>2 DEF SendsInv, RetryBudget, Sent

\* No step sends a row more often than its attempts say.
LEMMA NextSends ==
  TypeOK /\ SlotDiscipline /\ NoRowVanishes /\ OneHolder /\ SendsInv /\ [Next]_vars
    => SendsInv'
<1> SUFFICES ASSUME TypeOK, SlotDiscipline, NoRowVanishes, OneHolder, SendsInv,
                    [Next]_vars
             PROVE  SendsInv'
  OBVIOUS
<1> USE DEF bufVars, loopVars, fateVars, dbVars, ShuttingDown, LastAttempt
<1>n. inflight.attempts \in Nat /\ retry.attempts \in Nat /\ BackoffLen \in Nat
  BY BoundsAssumption DEF TypeOK, RetryType
<1>s. UNCHANGED shared => InShared' = InShared
  BY DEF InShared
<1>1. ASSUME UNCHANGED <<pc, shared, writer, inflight, sends, produced>>,
             bg'.todo = bg.todo, bg'.keep = bg.keep,
             retry'.bundle = retry.bundle, retry'.attempts = retry.attempts
      PROVE  SendsInv'
  BY <1>1, <1>s, SendsSame
<1>2. ASSUME NEW r \in Rows, NEW s \in Shards, Push(r, s) PROVE SendsInv'
  <2>1. /\ UNCHANGED <<pc, writer, bg, inflight, retry, sends>>
        /\ r \notin produced /\ produced' = produced \cup {r} /\ r \in Rows
        /\ InShared' \subseteq InShared \cup {r}
    BY <1>2 DEF Push, InShared, TypeOK
  <2>2. SendsKnown'
    BY <2>1 DEF SendsInv, SendsKnown
  <2>3. RetryBudget'
    BY <2>1 DEF SendsInv, RetryBudget
  <2> QED
    BY <2>2, <2>3 DEF SendsInv
<1>3. CASE TaskCopy
  <2>1. PICK C \in Chunks(bg.todo) :
          /\ Sent(C)
          /\ CopyOk(C) \/ CopyTransient(C) \/ CopyPermanent(C)
    BY <1>3 DEF TaskCopy
  <2>2. C \subseteq bg.todo
    BY ChunksInside
  <2>3. /\ UNCHANGED <<pc, shared, writer, inflight, retry, produced>>
        /\ retry.bundle = {}
    BY <1>3 DEF TaskCopy, taskUnchanged, TaskRuns, SlotDiscipline, OneBundle
  <2>4. C \subseteq produced /\ C \cap (InShared \cup writer \cup bg.keep) = {}
    BY <2>2 DEF NoRowVanishes, OneHolder, Holding, TaskRows
  <2>5. \A r \in Rows : sends'[r] = IF r \in C THEN sends[r] + 1 ELSE sends[r]
    BY <2>1 DEF Sent
  <2>6. bg.todo \subseteq Rows /\ bg.keep \subseteq Rows /\ writer \subseteq Rows
         /\ InShared \subseteq Rows
    BY SharedType DEF TypeOK, TaskType
  <2>7. bg'.todo = bg.todo \ C /\ bg'.keep \subseteq bg.keep \cup C
    BY <2>1, CopyFields
  <2>8. SendsKnown'
    BY <1>n, <1>s, <2>2, <2>3, <2>4, <2>5, <2>6, <2>7 DEF SendsInv, SendsKnown
  <2>9. RetryBudget'
    BY <2>1, <2>2, <2>3, SentWithin
  <2> QED
    BY <2>8, <2>9 DEF SendsInv
<1>4. CASE TaskPanic
  BY <1>1, <1>4 DEF TaskPanic, taskUnchanged, TypeOK, TaskType
<1>5. CASE ReapNothing
  BY <1>5, <1>s, SendsSame DEF ReapNothing, reapUnchanged
<1>6. CASE ReapOutcome
  <2>1. /\ UNCHANGED <<sends, produced, shared, writer>>
        /\ inflight' = [attempts |-> 0, rows |-> 0]
        /\ bg'.todo = {} /\ bg'.keep = {}
        /\ ~LastAttempt /\ ~ShuttingDown
    BY <1>6, SettleFields DEF ReapOutcome, reapUnchanged
  <2>2. CASE bg.keep # {} /\ ~(inflight.attempts + 1 >= BackoffLen + 1)
    <3>1. Retain(inflight.attempts + 1, FALSE)
      BY <1>6, <2>2 DEF ReapOutcome
    <3>2. inflight.attempts + 1 <= BackoffLen + (IF LastAttempt' THEN 1 ELSE 0)
      BY <1>n, <2>2
    <3> HIDE DEF ShuttingDown, LastAttempt
    <3> QED
      BY <2>1, <3>1, <3>2, SendsRetained
  <2>3. CASE ~(bg.keep # {} /\ ~(inflight.attempts + 1 >= BackoffLen + 1))
    <3>1. UNCHANGED retry
      BY <1>6, <2>3 DEF ReapOutcome
    <3> HIDE DEF ShuttingDown, LastAttempt
    <3> QED
      BY <2>1, <3>1, SendsSettled
  <2> QED
    BY <2>2, <2>3
<1>7. CASE ReapPanic
  <2>1. bg'.todo = {} /\ bg'.keep = {}
    BY <1>7, SettleFields DEF ReapPanic, SettleBroken
  <2> QED
    BY <1>7, <2>1, SendsSettled DEF ReapPanic, reapUnchanged
<1>8. CASE SpawnRetry
  <2>1. /\ UNCHANGED <<sends, produced, shared, writer>> /\ ~LastAttempt /\ ~ShuttingDown
        /\ ~LastAttempt' /\ Spawn(retry.bundle, retry.attempts) /\ retry' = NoRetry
    BY <1>8 DEF SpawnRetry
  <2>2. /\ \A r \in retry.bundle : sends[r] = retry.attempts
        /\ retry.attempts <= BackoffLen + (IF LastAttempt' THEN 1 ELSE 0)
    BY <2>1 DEF SendsInv, SendsKnown
  <2> HIDE DEF ShuttingDown, LastAttempt
  <2> QED
    BY <1>n, <1>s, <2>1, <2>2, SendsSpawn
<1>9. CASE SpawnFlush
  <2>1. /\ UNCHANGED <<sends, produced, shared, retry>> /\ ~LastAttempt /\ ~ShuttingDown
        /\ writer' = {} /\ Spawn(writer, 0)
    BY <1>9 DEF SpawnFlush
  <2>2. /\ \A r \in writer : sends[r] = 0
        /\ 0 <= BackoffLen + (IF LastAttempt' THEN 1 ELSE 0)
    BY <1>n DEF SendsInv, SendsKnown
  <2> HIDE DEF ShuttingDown, LastAttempt
  <2> QED
    BY <1>s, <2>1, <2>2, SendsSpawn
<1>10. CASE SpawnNothing \/ Nap
  BY <1>10, <1>s, SendsSame DEF SpawnNothing, Nap
<1>11. CASE Ingest
  <2>1. (InShared \cup writer)' \subseteq InShared \cup writer
    BY <1>11, <1>s, TakeSharedFields DEF Ingest
  <2> QED
    BY <1>11, <2>1, SendsSame DEF Ingest
<1>12. CASE JoinNothing
  BY <1>12, <1>s, SendsSame DEF JoinNothing, shutdownUnchanged, AfterWait
<1>13. CASE JoinInFlight
  <2>1. /\ UNCHANGED <<sends, produced, shared, writer, inflight>>
        /\ bg'.todo = {} /\ bg'.keep = {}
        /\ ~LastAttempt /\ LastAttempt' /\ ShuttingDown'
    BY <1>13, SettleFields DEF JoinInFlight, shutdownUnchanged, AfterWait
  <2>2. inflight.attempts + 1 <= BackoffLen + (IF LastAttempt' THEN 1 ELSE 0)
    BY <1>n, <2>1 DEF SendsInv, SendsKnown
  <2>3. Retain(inflight.attempts + 1, TRUE) \/ UNCHANGED retry
    BY <1>13 DEF JoinInFlight
  <2> HIDE DEF ShuttingDown, LastAttempt
  <2> QED
    BY <2>1, <2>2, <2>3, SendsRetained, SendsSettled
<1>14. CASE JoinLast \/ JoinPanicked
  <2>1. /\ UNCHANGED <<sends, produced, shared, writer, inflight, retry>>
        /\ bg'.todo = {} /\ bg'.keep = {}
    BY <1>14, SettleFields DEF JoinLast, JoinPanicked, SettleBroken, shutdownUnchanged
  <2>2. LastAttempt' /\ ShuttingDown'
    BY <1>14 DEF JoinLast, JoinPanicked, AfterWait, Awaiting
  <2> HIDE DEF ShuttingDown, LastAttempt
  <2> QED
    BY <2>1, <2>2, SendsSettled
<1>15. CASE JoinAborted
  <2>1. /\ UNCHANGED <<produced, shared, writer, inflight, retry>>
        /\ bg'.todo = {} /\ bg'.keep = {} /\ bg.st = "running"
    BY <1>15, SettleFields DEF JoinAborted, SettleBroken, shutdownUnchanged
  <2>2. LastAttempt' /\ ShuttingDown'
    BY <1>15 DEF JoinAborted, AfterWait, Awaiting
  <2>3. CASE UNCHANGED dbVars
    <3> HIDE DEF ShuttingDown, LastAttempt
    <3> QED
      BY <2>1, <2>2, <2>3, SendsSettled
  <2>4. ASSUME NEW C \in Chunks(bg.todo), Sent(C) PROVE SendsInv'
    <3>1. C \subseteq bg.todo
      BY ChunksInside
    <3>2. retry.bundle = {}
      BY <2>1 DEF SlotDiscipline, OneBundle
    <3>3. C \subseteq produced /\ C \cap (InShared \cup writer) = {}
      BY <3>1 DEF NoRowVanishes, OneHolder, Holding, TaskRows
    <3>4. \A r \in Rows : sends'[r] = IF r \in C THEN sends[r] + 1 ELSE sends[r]
      BY <2>4 DEF Sent
    <3>5. writer \subseteq Rows /\ InShared \subseteq Rows
      BY SharedType DEF TypeOK
    <3>6. RetryBudget'
      BY <2>2, <2>4, <3>1, SentWithin
    <3> HIDE DEF ShuttingDown, LastAttempt
    <3>7. SendsKnown'
      BY <1>n, <1>s, <2>1, <2>2, <3>2, <3>3, <3>4, <3>5 DEF SendsInv, SendsKnown
    <3> QED
      BY <3>6, <3>7 DEF SendsInv
  <2> QED
    BY <1>15, <2>3, <2>4 DEF JoinAborted
<1>16. CASE FinalRetry
  <2>1. /\ UNCHANGED <<sends, produced, shared, writer>>
        /\ LastAttempt /\ LastAttempt' /\ ShuttingDown /\ ShuttingDown'
    BY <1>16 DEF FinalRetry
  <2>2. CASE retry.on
    <3>1. Spawn(retry.bundle, retry.attempts) /\ retry' = NoRetry
      BY <1>16, <2>2 DEF FinalRetry
    <3>2. /\ \A r \in retry.bundle : sends[r] = retry.attempts
          /\ retry.attempts <= BackoffLen + (IF LastAttempt' THEN 1 ELSE 0)
      BY <2>1 DEF SendsInv, SendsKnown
    <3> HIDE DEF ShuttingDown, LastAttempt
    <3> QED
      BY <1>n, <1>s, <2>1, <3>1, <3>2, SendsSpawn
  <2>3. CASE ~retry.on
    <3>1. UNCHANGED <<bg, inflight, retry>>
      BY <1>16, <2>3 DEF FinalRetry
    <3> HIDE DEF ShuttingDown, LastAttempt
    <3> QED
      BY <1>s, <2>1, <3>1, SendsSame
  <2> QED
    BY <2>2, <2>3
<1>17. CASE Drain
  <2>1. PICK A \in Accepted :
          LET rest == writer \cup ScalarsOf(InShared) \cup A
          IN  /\ TakeShared(A)
              /\ IF rest = {}
                   THEN pc' = "done" /\ UNCHANGED <<bg, inflight>>
                   ELSE pc' = "await_flush" /\ Spawn(rest, 0)
    BY <1>17 DEF Drain
  <2> DEFINE rest == writer \cup ScalarsOf(InShared) \cup A
  <2>2. InShared' = {} /\ writer' = {} /\ rest \subseteq InShared \cup writer
    BY <1>17, <2>1, TakeSharedFields DEF Drain
  <2>3. /\ UNCHANGED <<sends, produced, retry>>
        /\ LastAttempt /\ LastAttempt' /\ ShuttingDown /\ ShuttingDown'
    BY <1>17, <2>1 DEF Drain
  <2>4. /\ \A r \in rest : sends[r] = 0
        /\ 0 <= BackoffLen + (IF LastAttempt' THEN 1 ELSE 0)
    BY <1>n, <2>2 DEF SendsInv, SendsKnown
  <2>5. Spawn(rest, 0) \/ UNCHANGED <<bg, inflight>>
    BY <2>1
  <2> HIDE DEF ShuttingDown, LastAttempt, rest
  <2> QED
    BY <2>2, <2>3, <2>4, <2>5, SendsSpawn, SendsSame
<1>18. CASE MainGivesUp
  BY <1>18, <1>s, SendsSame DEF MainGivesUp
<1>19. CASE RetryTimer
  BY <1>1, <1>19 DEF RetryTimer, TypeOK, RetryType
<1> QED
  BY <1>1, <1>2, <1>3, <1>4, <1>5, <1>6, <1>7, <1>8, <1>9, <1>10, <1>11, <1>12,
     <1>13, <1>14, <1>15, <1>16, <1>17, <1>18, <1>19
  DEF Next, Producers, Loop, Reap, Schedule, Shutdown, Main,
      StopProducers, Cancel, Clock, Tick, FlushTimer, Terminated, vars

\* A row is sent at most once per backoff delay plus the first attempt, and once
\* more by the shutdown sequence, however tasks fail, panic or are aborted.
THEOREM StoreRetryBudget == Spec => []RetryBudget
<1>1. Init => SendsInv
  BY InitSends
<1>2. StoreInv /\ SendsInv /\ [Next]_vars => SendsInv'
  BY NextSends DEF StoreInv
<1>3. SendsInv => RetryBudget
  BY DEF SendsInv
<1> QED
  BY <1>1, <1>2, <1>3, StoreInvariant, PTL DEF Spec

-----------------------------------------------------------------------------
(* The counters.                                                            *)

\* Every buffered row is one COPY row.  It is so for every table but those of
\* destructured JSON captures, and the counters balance only where it is.
OneEach == \A S \in SUBSET Rows : CopyCount(S) = Cardinality(S)

\* The rows at risk are counted when their task starts, and the task holds
\* exactly these until it is dropped.
AtRisk == bg.st # "none" => inflight.rows = Cardinality(TaskRows)

\* Counting the union of two disjoint sets of rows.
LEMMA CountUnion ==
  ASSUME NEW S \in SUBSET Rows, NEW T \in SUBSET Rows, S \cap T = {}
  PROVE  Cardinality(S \cup T) = Cardinality(S) + Cardinality(T)
<1>1. IsFiniteSet(S) /\ IsFiniteSet(T)
  BY FS_Subset, RowsAssumption
<1>2. Cardinality(S \cup T) = Cardinality(S) + Cardinality(T) - Cardinality(S \cap T)
  BY <1>1, FS_Union
<1> QED
  BY <1>1, <1>2, FS_EmptySet, CountType

\* Booking a task adds as many rows to the two sets as to their counters.
LEMMA SettleBooks ==
  ASSUME TypeOK, OneEach, BooksBalance,
         NEW gone \in SUBSET Rows, NEW counted \in Nat, Settle(gone, counted),
         written \cap bg.acked = {}, lost \cap gone = {},
         counted = Cardinality(gone)
  PROVE  BooksBalance' /\ AtRisk'
<1>1. /\ bg.acked \in SUBSET Rows /\ written \in SUBSET Rows /\ lost \in SUBSET Rows
  BY DEF TypeOK, TaskType
<1>2. /\ Cardinality(written \cup bg.acked) = Cardinality(written) + Cardinality(bg.acked)
      /\ Cardinality(lost \cup gone) = Cardinality(lost) + Cardinality(gone)
      /\ CopyCount(bg.acked) = Cardinality(bg.acked)
  BY <1>1, CountUnion DEF OneEach
<1>3. BooksBalance'
  BY <1>2 DEF BooksBalance, Settle
<1>4. AtRisk'
  BY SettleFields DEF AtRisk
<1> QED
  BY <1>3, <1>4

\* A broken task: what was at risk and is not acknowledged is what is given up.
LEMMA BrokenBooks ==
  ASSUME TypeOK, OneEach, BooksBalance, AtRisk, OneHolder, bg.st # "none", SettleBroken
  PROVE  BooksBalance' /\ AtRisk'
<1> DEFINE gone == bg.todo \cup bg.keep \cup bg.lost
<1>1. gone \in SUBSET Rows /\ bg.acked \in SUBSET Rows /\ gone \cap bg.acked = {}
  BY DEF TypeOK, TaskType, OneHolder
<1>2. TaskRows = gone \cup bg.acked
  BY DEF TaskRows
<1>3. inflight.rows = Cardinality(gone) + Cardinality(bg.acked)
  BY <1>1, <1>2, CountUnion DEF AtRisk
<1>4. /\ Cardinality(gone) \in Nat /\ Cardinality(bg.acked) \in Nat
      /\ CopyCount(bg.acked) = Cardinality(bg.acked)
  BY <1>1, CountType DEF OneEach
<1>5. SatSub(inflight.rows, CopyCount(bg.acked)) = Cardinality(gone)
  BY <1>3, <1>4 DEF SatSub
<1>6. written \cap bg.acked = {} /\ lost \cap gone = {}
  BY DEF OneHolder, TaskRows, Decided
<1>7. Settle(gone, Cardinality(gone))
  BY <1>5 DEF SettleBroken
<1> HIDE DEF gone
<1> QED
  BY <1>1, <1>4, <1>6, <1>7, SettleBooks

\* A task that ended: its permanent failures, and those it leaves behind.
LEMMA OutcomeBooks ==
  ASSUME TypeOK, OneEach, BooksBalance, OneHolder,
         \/ Settle(bg.lost, CopyCount(bg.lost))
         \/ Settle(bg.lost \cup bg.keep, CopyCount(bg.lost) + Cardinality(bg.keep))
  PROVE  BooksBalance' /\ AtRisk'
<1>1. /\ bg.lost \in SUBSET Rows /\ bg.keep \in SUBSET Rows
      /\ bg.lost \cup bg.keep \in SUBSET Rows /\ bg.lost \cap bg.keep = {}
      /\ written \cap bg.acked = {} /\ lost \cap (bg.lost \cup bg.keep) = {}
      /\ lost \cap bg.lost = {}
  BY DEF TypeOK, TaskType, OneHolder, TaskRows, Decided
<1>2. /\ CopyCount(bg.lost) = Cardinality(bg.lost) /\ Cardinality(bg.lost) \in Nat
      /\ Cardinality(bg.keep) \in Nat
      /\ Cardinality(bg.lost \cup bg.keep) = Cardinality(bg.lost) + Cardinality(bg.keep)
  BY <1>1, CountType, CountUnion DEF OneEach
<1>3. CASE Settle(bg.lost, CopyCount(bg.lost))
  BY <1>1, <1>2, <1>3, SettleBooks
<1>4. CASE Settle(bg.lost \cup bg.keep, CopyCount(bg.lost) + Cardinality(bg.keep))
  BY <1>1, <1>2, <1>4, SettleBooks
<1> QED
  BY <1>3, <1>4

\* A task that starts has all of its rows at risk.
LEMMA SpawnBooks ==
  ASSUME NEW S, NEW n, Spawn(S, n), BooksBalance,
         UNCHANGED <<rows_lost, total_written, written, lost>>
  PROVE  BooksBalance' /\ AtRisk'
<1>1. TaskRows' = S /\ inflight'.rows = Cardinality(S)
  BY DEF Spawn, TaskRows
<1> QED
  BY <1>1 DEF BooksBalance, AtRisk

\* Every step keeps the books.
LEMMA NextBooks ==
  ASSUME OneEach, TypeOK, SlotDiscipline, OneHolder, BooksBalance, AtRisk, [Next]_vars
  PROVE  BooksBalance' /\ AtRisk'
<1> USE DEF loopVars, counters, fateVars
<1>1. ASSUME UNCHANGED <<inflight, counters, written, lost>>, TaskRows' = TaskRows,
             bg'.st # "none" => bg.st # "none"
      PROVE  BooksBalance' /\ AtRisk'
  BY <1>1 DEF BooksBalance, AtRisk
<1>2. CASE TaskCopy
  <2>1. PICK C \in Chunks(bg.todo) :
          CopyOk(C) \/ CopyTransient(C) \/ CopyPermanent(C)
    BY <1>2 DEF TaskCopy
  <2>2. C \subseteq bg.todo
    BY ChunksInside
  <2>3. TaskRows' = TaskRows /\ bg.st # "none"
    BY <1>2, <2>1, <2>2, CopyFields DEF TaskRows, TaskCopy, TaskRuns
  <2> QED
    BY <1>1, <1>2, <2>3 DEF TaskCopy, taskUnchanged
<1>3. CASE TaskPanic
  <2>1. TaskRows' = TaskRows /\ bg.st # "none"
    BY <1>3 DEF TaskPanic, TaskRuns, TypeOK, TaskType, TaskRows
  <2> QED
    BY <1>1, <1>3, <2>1 DEF TaskPanic, taskUnchanged
<1>4. CASE ReapOutcome
  BY <1>4, OutcomeBooks DEF ReapOutcome
<1>5. CASE ReapPanic
  BY <1>5, BrokenBooks DEF ReapPanic
<1>6. CASE SpawnRetry
  BY <1>6, SpawnBooks DEF SpawnRetry
<1>7. CASE SpawnFlush
  BY <1>7, SpawnBooks DEF SpawnFlush
<1>8. CASE JoinInFlight \/ JoinLast
  BY <1>8, OutcomeBooks DEF JoinInFlight, JoinLast
<1>9. CASE JoinPanicked \/ JoinAborted
  BY <1>9, BrokenBooks DEF JoinPanicked, JoinAborted
<1>10. CASE FinalRetry
  <2>1. CASE retry.on
    BY <1>10, <2>1, SpawnBooks DEF FinalRetry
  <2>2. CASE ~retry.on
    BY <1>1, <1>10, <2>2 DEF FinalRetry, TaskRows
  <2> QED
    BY <2>1, <2>2
<1>11. CASE Drain
  <2>1. (\E S : Spawn(S, 0)) \/ UNCHANGED <<bg, inflight>>
    BY <1>11 DEF Drain
  <2> QED
    BY <1>1, <1>11, <2>1, SpawnBooks DEF Drain, TaskRows
<1>12. CASE UNCHANGED <<bg, inflight, counters, written, lost>>
  BY <1>1, <1>12 DEF TaskRows
<1> QED
  BY <1>2, <1>3, <1>4, <1>5, <1>6, <1>7, <1>8, <1>9, <1>10, <1>11, <1>12
  DEF Next, Producers, Push, Loop, Reap, ReapNothing, reapUnchanged,
      Schedule, SpawnNothing, Ingest, Nap, Shutdown, JoinNothing,
      shutdownUnchanged, Main, StopProducers, Cancel, MainGivesUp, Clock, Tick,
      FlushTimer, RetryTimer, Terminated, vars

\* Where a buffered row is one COPY row, rows_lost counts each row given up on
\* once and total_written each row written once.
THEOREM StoreBooksBalance ==
  ASSUME OneEach
  PROVE  Spec => []BooksBalance
<1>1. Init => BooksBalance /\ AtRisk
  BY FS_EmptySet DEF Init, BooksBalance, AtRisk, NoTask
<1>2. StoreInv /\ BooksBalance /\ AtRisk /\ [Next]_vars => (BooksBalance /\ AtRisk)'
  BY OneEach, NextBooks DEF StoreInv
<1> QED
  BY <1>1, <1>2, StoreInvariant, PTL DEF Spec

\* Where a buffered row is one COPY row, a loop that returns and has counted no
\* loss leaves every row it accepted in the database.
THEOREM StoreCleanExitMeansArchived ==
  ASSUME OneEach
  PROVE  Spec => []CleanExitMeansArchived
<1>1. StoreInv /\ BooksBalance => CleanExitMeansArchived
  <2> SUFFICES ASSUME StoreInv, BooksBalance, pc = "done", rows_lost = 0
               PROVE  produced \subseteq archive \cup dropped \cup pushedBack
    BY DEF CleanExitMeansArchived
  <2>1. lost = {}
    <3>1. IsFiniteSet(lost)
      BY FS_Subset, RowsAssumption DEF StoreInv, TypeOK
    <3> QED
      BY <3>1, FS_EmptySet DEF BooksBalance
  <2>2. Holding = {}
    BY DEF StoreInv, SlotDiscipline, OrderedShutdown, Holding, Retained
  <2> QED
    BY <2>1, <2>2 DEF StoreInv, NoRowVanishes, Decided, ArchiveKnown
<1> QED
  BY <1>1, StoreInvariant, StoreBooksBalance, OneEach, PTL

-----------------------------------------------------------------------------
(* The store loop implements the ledger.                                    *)

\* The fate of a row says where it is.
FateMeans(r) ==
  /\ Fate[r] \in Ledger!Fates
  /\ Fate[r] = "held" <=> r \in Holding
  /\ Fate[r] = "dropped" <=> r \in dropped
  /\ Fate[r] = "pushed_back" <=> r \in pushedBack
  /\ Fate[r] = "written" <=> r \in written
  /\ Fate[r] = "lost" <=> r \in lost
  /\ Fate[r] = "unseen" <=> r \notin produced

\* It does while every row is in one place.
LEMMA FateIs ==
  ASSUME NEW r \in Rows, OneHolder, NoRowVanishes
  PROVE  FateMeans(r)
<1>1. /\ Holding \cap Decided = {}
      /\ dropped \cap (pushedBack \cup written \cup lost) = {}
      /\ pushedBack \cap (written \cup lost) = {} /\ written \cap lost = {}
      /\ produced = Holding \cup Decided
  BY DEF OneHolder, NoRowVanishes, Holding
<1> QED
  BY <1>1 DEF FateMeans, Fate, Decided, Ledger!Fates, Ledger!Decisions

\* Also in the next state.
LEMMA FatePrimed ==
  ASSUME OneHolder', NoRowVanishes'
  PROVE  \A r \in Rows : FateMeans(r)'
<1>1. ASSUME NEW r \in Rows PROVE FateMeans(r)'
  BY FateIs, PTL
<1> QED
  BY <1>1

\* A step of anyone but a producer decides held rows, reports only archived
\* rows written and commits only held rows.
LEMMA ProgressStep ==
  ASSUME OneHolder, NoRowVanishes, OneHolder', NoRowVanishes',
         UNCHANGED <<produced, dropped>>, pushedBack \subseteq pushedBack',
         written \subseteq written', lost \subseteq lost',
         written' \ written \subseteq archive,
         archive \subseteq archive', archive' \ archive \subseteq Holding,
         archive' \subseteq Rows
  PROVE  Ledger!Progress
<1>1. \A r \in Rows : FateMeans(r)
  BY FateIs
<1>2. \A r \in Rows : FateMeans(r)'
  BY FatePrimed
<1>3. Fate' \in [Rows -> Ledger!Fates]
  BY <1>2 DEF Fate, FateMeans
<1>4. ASSUME NEW r \in Rows, Fate'[r] # Fate[r]
      PROVE  /\ Fate[r] = "held" /\ Fate'[r] \in Ledger!Decisions
             /\ Fate'[r] = "written" => r \in archive
  BY <1>1, <1>2, <1>4 DEF FateMeans, Ledger!Fates, Ledger!Decisions
<1>5. \A r \in archive' \ archive : Fate[r] = "held"
  BY <1>1 DEF FateMeans
<1> QED
  BY <1>3, <1>4, <1>5 DEF Ledger!Progress

\* A producer's push is an Accept of the ledger.
LEMMA AcceptStep ==
  ASSUME OneHolder, NoRowVanishes, OneHolder', NoRowVanishes',
         NEW r \in Rows, r \notin produced, produced' = produced \cup {r},
         dropped' \in {dropped, dropped \cup {r}},
         UNCHANGED <<pushedBack, written, lost, archive>>
  PROVE  Ledger!Accept(r)
<1>1. \A q \in Rows : FateMeans(q)
  BY FateIs
<1>2. \A q \in Rows : FateMeans(q)'
  BY FatePrimed
<1>3. Fate[r] = "unseen" /\ Fate'[r] \in {"held", "dropped"}
  BY <1>1, <1>2 DEF FateMeans, Ledger!Fates, Ledger!Decisions, NoRowVanishes, Decided
<1>4. \A q \in Rows \ {r} : Fate'[q] = Fate[q]
  BY <1>1, <1>2 DEF FateMeans, Ledger!Fates, Ledger!Decisions
<1>5. Fate \in [Rows -> Ledger!Fates] /\ Fate' \in [Rows -> Ledger!Fates]
  BY <1>1, <1>2 DEF FateMeans, Fate
<1>6. Fate' = [Fate EXCEPT ![r] = Fate'[r]]
  BY <1>4, <1>5
<1> QED
  BY <1>3, <1>6 DEF Ledger!Accept

\* Every step of the store loop is a step of the ledger or leaves it alone.
LEMMA LedgerStep ==
  ASSUME StoreInv, StoreInv', [Next]_vars
  PROVE  [Ledger!Next]_<<Fate, archive>>
<1> USE DEF bufVars, fateVars, dbVars
<1>p. /\ OneHolder /\ NoRowVanishes /\ OneHolder' /\ NoRowVanishes'
      /\ archive' \subseteq Rows /\ bg.acked \subseteq archive
  BY DEF StoreInv, TypeOK, ArchiveKnown
<1>1. ASSUME UNCHANGED <<produced, dropped, archive>>,
             pushedBack \subseteq pushedBack', lost \subseteq lost',
             written' \in {written, written \cup bg.acked}
      PROVE  Ledger!Next
  <2>1. written \subseteq written' /\ written' \ written \subseteq archive
    BY <1>1, <1>p
  <2> QED
    BY <1>1, <1>p, <2>1, ProgressStep DEF Ledger!Next
<1>2. ASSUME NEW r \in Rows, NEW s \in Shards, Push(r, s)
      PROVE  Ledger!Next
  <2>1. /\ r \notin produced /\ produced' = produced \cup {r}
        /\ dropped' \in {dropped, dropped \cup {r}}
        /\ UNCHANGED <<pushedBack, written, lost, archive>>
    BY <1>2 DEF Push
  <2> QED
    BY <1>p, <2>1, AcceptStep DEF Ledger!Next
<1>3. CASE TaskCopy
  <2>1. PICK C \in Chunks(bg.todo) :
          CopyOk(C) \/ CopyTransient(C) \/ CopyPermanent(C)
    BY <1>3 DEF TaskCopy
  <2>2. C \subseteq Holding
    BY ChunksInside DEF Holding, TaskRows
  <2>3. archive \subseteq archive' /\ archive' \ archive \subseteq Holding
    BY <2>1, <2>2 DEF CopyOk, CopyTransient, CopyPermanent, ServerCommits
  <2>4. UNCHANGED <<produced, dropped, pushedBack, written, lost>>
    BY <1>3 DEF TaskCopy, taskUnchanged
  <2> QED
    BY <1>p, <2>3, <2>4, ProgressStep DEF Ledger!Next
<1>4. CASE Reap
  BY <1>1, <1>4
  DEF Reap, ReapNothing, ReapOutcome, ReapPanic, SettleBroken, Settle, reapUnchanged
<1>5. CASE Ingest
  BY <1>1, <1>5 DEF Ingest, TakeShared
<1>6. CASE JoinNothing \/ JoinInFlight \/ JoinLast \/ JoinPanicked
  BY <1>1, <1>6
  DEF JoinNothing, JoinInFlight, JoinLast, JoinPanicked, SettleBroken, Settle,
      shutdownUnchanged
<1>7. CASE JoinAborted
  <2>1. /\ UNCHANGED <<produced, dropped, pushedBack>> /\ lost \subseteq lost'
        /\ written' = written \cup bg.acked
    BY <1>7 DEF JoinAborted, SettleBroken, Settle, shutdownUnchanged
  <2>2. \A C \in Chunks(bg.todo) : C \subseteq Holding
    BY ChunksInside DEF Holding, TaskRows
  <2>3. archive \subseteq archive' /\ archive' \ archive \subseteq Holding
    BY <1>7, <2>2 DEF JoinAborted, ServerCommits
  <2> QED
    BY <1>p, <2>1, <2>3, ProgressStep DEF Ledger!Next
<1>8. CASE Drain
  BY <1>1, <1>8 DEF Drain, TakeShared
<1>9. CASE UNCHANGED <<fateVars, archive>>
  BY <1>1, <1>9
<1> QED
  BY <1>2, <1>3, <1>4, <1>5, <1>6, <1>7, <1>8, <1>9
  DEF Next, Producers, TaskPanic, taskUnchanged, Loop,
      Schedule, SpawnRetry, SpawnFlush, SpawnNothing, Nap, Shutdown, FinalRetry,
      Main, StopProducers, Cancel, MainGivesUp, Clock, Tick, FlushTimer,
      RetryTimer, Terminated, vars

\* The store loop, its tasks and its shutdown implement the ledger: a row is
\* decided once and for all, and reported written only if it is archived.
THEOREM StoreImplementsLedger == Spec => ImplementsLedger
<1>1. Init => Ledger!Init
  BY DEF Init, Ledger!Init, Fate, Holding, InShared, TaskRows, Retained, NoTask, NoRetry
<1>2. StoreInv /\ StoreInv' /\ [Next]_vars => [Ledger!Next]_<<Fate, archive>>
  BY LedgerStep
<1> QED
  BY <1>1, <1>2, StoreInvariant, PTL DEF Spec, ImplementsLedger, Ledger!Spec, Ledger!ledger
=============================================================================
