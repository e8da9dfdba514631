----------------------------- MODULE MainProofs -----------------------------
(***************************************************************************)
(* Proofs about what main keeps in its event loop.  About PvStatus, for    *)
(* any PVs, event loops, channel capacity and bounds: the types,           *)
(* StoredHasRow, and LiveIsNotDown from an invariant about the last report *)
(* on a PV that still waits in the lifecycle channel.  About Alerts, the   *)
(* rest of the stats tick, for every throttle, every series of ticks,      *)
(* drops and rates and every capacity: the throttle of the data-loss alert *)
(* and the tuning of the chunk interval.                                   *)
(***************************************************************************)
EXTENDS PvStatus, Alerts, TLAPS


-----------------------------------------------------------------------------
(* Reports in a queue.                                                     *)

\* Some report of the queue names p; the last one that does is Disconnected.
Named(q, p) == \E i \in 1..Len(q) : p \in q[i].pvs
EndsDown(q, p) ==
    \E i \in 1..Len(q) :
        /\ q[i].event = "Disconnected" /\ p \in q[i].pvs
        /\ \A j \in 1..Len(q) : j > i => p \notin q[j].pvs

LEMMA AppendReport ==
  ASSUME NEW q \in Seq(Report), NEW r \in Report, NEW p
  PROVE  /\ Append(q, r) \in Seq(Report) /\ Len(Append(q, r)) = Len(q) + 1
         /\ p \notin r.pvs => /\ Named(Append(q, r), p) <=> Named(q, p)
                              /\ EndsDown(Append(q, r), p) => EndsDown(q, p)
         /\ p \in r.pvs => /\ Named(Append(q, r), p)
                           /\ EndsDown(Append(q, r), p) => r.event = "Disconnected"
<1> DEFINE s == Append(q, r)
<1>1. /\ s \in Seq(Report) /\ Len(s) = Len(q) + 1 /\ Len(q) \in Nat
      /\ \A k \in 1..Len(q) : s[k] = q[k]
      /\ s[Len(q) + 1] = r
  OBVIOUS
<1> HIDE DEF s
<1>2. 1..Len(s) = 1..Len(q) \cup {Len(q) + 1}
  BY <1>1
<1>3. \A k \in 1..Len(q) : Len(q) + 1 > k
  BY <1>1
<1>4. p \notin r.pvs => (Named(s, p) <=> Named(q, p))
  BY <1>1, <1>2 DEF Named
<1>5. ASSUME p \notin r.pvs, EndsDown(s, p)
      PROVE  EndsDown(q, p)
  BY <1>1, <1>2, <1>5 DEF EndsDown
<1>6. p \in r.pvs => Named(s, p)
  BY <1>1, <1>2 DEF Named
<1>7. ASSUME p \in r.pvs, EndsDown(s, p)
      PROVE  r.event = "Disconnected"
  BY <1>1, <1>2, <1>3, <1>7 DEF EndsDown
<1> QED
  BY <1>1, <1>4, <1>5, <1>6, <1>7 DEF s

LEMMA TailReport ==
  ASSUME NEW q \in Seq(Report), q # << >>, NEW p
  PROVE  /\ Head(q) \in Report /\ Tail(q) \in Seq(Report)
         /\ Len(Tail(q)) <= Len(q)
         /\ EndsDown(Tail(q), p) => EndsDown(q, p)
         /\ Named(Tail(q), p) => Named(q, p)
         /\ p \notin Head(q).pvs => (Named(Tail(q), p) <=> Named(q, p))
         /\ ~Named(Tail(q), p) /\ p \in Head(q).pvs
              => (Head(q).event = "Disconnected" => EndsDown(q, p))
<1> DEFINE t == Tail(q)
<1>1. /\ t \in Seq(Report) /\ Len(q) \in Nat \ {0} /\ Len(t) = Len(q) - 1
      /\ Head(q) = q[1] /\ q[1] \in Report
      /\ \A k \in 1..(Len(q) - 1) : t[k] = q[k + 1]
  OBVIOUS
<1> HIDE DEF t
<1>2. \A k \in 1..Len(t) : k + 1 \in 1..Len(q) /\ t[k] = q[k + 1]
  BY <1>1
<1>3. \A j \in 1..Len(q) : j > 1 => j - 1 \in 1..Len(t) /\ t[j - 1] = q[j]
  BY <1>1
<1>4. ASSUME EndsDown(t, p) PROVE EndsDown(q, p)
  <2>1. PICK i \in 1..Len(t) :
          /\ t[i].event = "Disconnected" /\ p \in t[i].pvs
          /\ \A j \in 1..Len(t) : j > i => p \notin t[j].pvs
    BY <1>4 DEF EndsDown
  <2>2. \A j \in 1..Len(q) : j > i + 1 => p \notin q[j].pvs
    <3> SUFFICES ASSUME NEW j \in 1..Len(q), j > i + 1 PROVE p \notin q[j].pvs
      OBVIOUS
    <3>1. j > 1 /\ j - 1 > i
      BY <1>1
    <3> QED
      BY <1>3, <2>1, <3>1
  <2> QED
    BY <1>2, <2>1, <2>2 DEF EndsDown
<1>5. Named(t, p) => Named(q, p)
  BY <1>2 DEF Named
<1>6. ASSUME p \notin Head(q).pvs, Named(q, p) PROVE Named(t, p)
  <2>1. PICK i \in 1..Len(q) : p \in q[i].pvs
    BY <1>6 DEF Named
  <2>2. i > 1
    BY <1>1, <1>6, <2>1
  <2> QED
    BY <1>3, <2>1, <2>2 DEF Named
<1>7. ASSUME ~Named(t, p), p \in Head(q).pvs, Head(q).event = "Disconnected"
      PROVE  EndsDown(q, p)
  <2>1. \A j \in 1..Len(q) : j > 1 => p \notin q[j].pvs
    BY <1>3, <1>7 DEF Named
  <2>2. 1 \in 1..Len(q)
    BY <1>1
  <2> QED
    BY <1>1, <1>7, <2>1, <2>2 DEF EndsDown
<1>8. Len(t) <= Len(q)
  BY <1>1
<1> QED
  BY <1>1, <1>4, <1>5, <1>6, <1>7, <1>8 DEF t

-----------------------------------------------------------------------------
(* Types.                                                                  *)

\* What the bounded channel does with a report.
LEMMA TrySendTyped ==
  ASSUME TypeOK, NEW e \in {"Connected", "Disconnected", "Reconnected"},
         NEW pvs \in SUBSET PVs, TrySend(e, pvs)
  PROVE  /\ lifecycle' \in Seq(Report) /\ Len(lifecycle') <= LifecycleCap
         /\ missed \subseteq missed'
<1>1. [event |-> e, pvs |-> pvs] \in Report
  BY DEF Report
<1>2. LifecycleCap \in Nat /\ lifecycle \in Seq(Report) /\ Len(lifecycle) \in Nat
  BY PvStatusAssumption DEF TypeOK
<1> DEFINE r == [event |-> e, pvs |-> pvs]
<1>3. Append(lifecycle, r) \in Seq(Report) /\ Len(Append(lifecycle, r)) = Len(lifecycle) + 1
  BY <1>1, <1>2, AppendReport
<1>4. /\ \/ Len(lifecycle) < LifecycleCap /\ lifecycle' = Append(lifecycle, r)
         \/ lifecycle' = lifecycle
      /\ missed \subseteq missed' /\ Len(lifecycle) <= LifecycleCap
  BY DEF TrySend, TypeOK
<1> HIDE DEF r
<1> QED
  BY <1>2, <1>3, <1>4

LEMMA SetStateTyped ==
  ASSUME TypeOK, NEW pvs, NEW new \in State, NEW fails \in BOOLEAN,
         SetState(pvs, new, fails)
  PROVE  /\ state' \in [PVs -> State]
         /\ fails => state' = state
         /\ ~fails => \A p \in PVs : state'[p] = IF p \in pvs THEN new ELSE state[p]
BY DEF SetState, TypeOK

\* A statement writes the batch, leaves the table alone or, when it is bulk,
\* deletes the batch's rows.
LEMMA UpsertOutcome ==
  ASSUME NEW table, NEW batch, NEW fails, NEW t \in UpsertBatch(table, batch, fails)
  PROVE  /\ ~fails => t = table \cup batch
         /\ t = table \cup batch \/ t = table \/ t = table \ batch
BY DEF UpsertBatch

\* What an action does with the sequence of senders.
LEMMA ClosedSenders ==
  ASSUME NEW q \in Seq(Loops \cup {NoLoop}), NEW l \in Loops
  PROVE  [i \in 1..Len(q) |-> Closed(l, q[i])] \in Seq(Loops \cup {NoLoop})
<1>1. \A i \in 1..Len(q) : Closed(l, q[i]) \in Loops \cup {NoLoop}
  <2> SUFFICES ASSUME NEW i \in 1..Len(q) PROVE Closed(l, q[i]) \in Loops \cup {NoLoop}
    OBVIOUS
  <2>1. q[i] \in Loops \cup {NoLoop}
    OBVIOUS
  <2> QED
    BY <2>1 DEF Closed
<1>2. Len(q) \in Nat
  OBVIOUS
<1> QED
  BY <1>1, <1>2

LEMMA NextTyped == TypeOK /\ [Next]_vars => TypeOK'
<1> SUFFICES ASSUME TypeOK, [Next]_vars PROVE TypeOK'
  OBVIOUS
<1>1. ASSUME NEW p \in PVs, NEW via \in {"redis", "notify"}, NEW fails \in BOOLEAN,
             Subscribe(p, via, fails)
      PROVE  TypeOK'
  <2>1. [event |-> "Connected", pvs |-> {p}] \in Report
    BY DEF Report
  <2>2. LifecycleCap \in Nat /\ lifecycle \in Seq(Report) /\ Len(lifecycle) \in Nat
    BY PvStatusAssumption DEF TypeOK
  <2>3. lifecycle' \in Seq(Report) /\ Len(lifecycle') <= LifecycleCap
    <3> DEFINE r == [event |-> "Connected", pvs |-> {p}]
    <3>1. Append(lifecycle, r) \in Seq(Report)
          /\ Len(Append(lifecycle, r)) = Len(lifecycle) + 1
      BY <2>1, <2>2, AppendReport
    <3>2. /\ \/ Len(lifecycle) < LifecycleCap /\ lifecycle' = Append(lifecycle, r)
             \/ lifecycle' = lifecycle
          /\ Len(lifecycle) <= LifecycleCap
      BY <1>1 DEF Subscribe, TypeOK
    <3> HIDE DEF r
    <3> QED
      BY <2>2, <3>1, <3>2
  <2>4. state' \in [PVs -> State]
    BY <1>1 DEF Subscribe, SubscribeRow, SetState, State, TypeOK
  <2>5. PICK l \in Loops :
          /\ current' = l /\ (token' = token \/ token' = l)
          /\ \/ loops' = [loops EXCEPT ![l].monitors = @ \cup {p}]
             \/ loops' = [loops EXCEPT ![l] = NewLoop({p}, {p})]
    BY <1>1 DEF Subscribe
  <2>6. loops' \in [Loops -> EventLoop]
    <3>1. CASE loops' = [loops EXCEPT ![l].monitors = @ \cup {p}]
      BY <3>1 DEF TypeOK, EventLoop
    <3>2. CASE loops' = [loops EXCEPT ![l] = NewLoop({p}, {p})]
      BY <3>2 DEF TypeOK, EventLoop, NewLoop
    <3> QED
      BY <2>5, <3>1, <3>2
  <2>7. /\ current' \in Loops \cup {NoLoop} /\ token' \in Loops \cup {NoLoop}
        /\ subscribed' \subseteq PVs /\ first' \subseteq PVs
        /\ main' \in {"select", "status", "collect"}
        /\ engine' \in [PVs -> {"none", "new", "used"}]
        /\ UNCHANGED << reconnects, name_server, last_event, sink, metadata_buf,
                        inline_meta, pv_metadata, stored, torn >>
    BY <1>1, <2>5 DEF Subscribe, TypeOK
  <2> QED
    BY <2>3, <2>4, <2>6, <2>7 DEF TypeOK
<1>2. ASSUME NEW p \in PVs, NEW via \in {"redis", "notify"}, NEW fails \in BOOLEAN,
             Unsubscribe(p, via, fails)
      PROVE  TypeOK'
  <2>1. state' \in [PVs -> State]
    BY <1>2 DEF Unsubscribe, SetState, State, TypeOK
  <2>2. \A l \in Loops : [loops[l] EXCEPT !.monitors = @ \ {p}] \in EventLoop
    BY DEF TypeOK, EventLoop
  <2>3. loops' \in [Loops -> EventLoop]
    BY <1>2, <2>2 DEF Unsubscribe, TypeOK
  <2>4. /\ subscribed' \subseteq PVs /\ engine' \in [PVs -> {"none", "new", "used"}]
        /\ UNCHANGED << current, token, reconnects, name_server, first, lifecycle,
                        last_event, sink, metadata_buf, inline_meta, pv_metadata,
                        stored, torn, main >>
    BY <1>2 DEF Unsubscribe, TypeOK
  <2> QED
    BY <2>1, <2>3, <2>4 DEF TypeOK
<1>3. CASE RemoveIoc
  <2>1. \A l \in Loops : [loops[l] EXCEPT !.cancelled = "yes"] \in EventLoop
    BY DEF TypeOK, EventLoop
  <2>2. loops' \in [Loops -> EventLoop]
    BY <1>3, <2>1 DEF RemoveIoc, TypeOK
  <2> QED
    BY <1>3, <2>2 DEF RemoveIoc, TypeOK, row, meta
<1>4. ASSUME NEW found \in SUBSET PVs, NEW ok \in SUBSET PVs, HotAddIoc(found, ok)
      PROVE  TypeOK'
  <2>1. /\ loops' \in [Loops -> EventLoop]
        /\ current' \in Loops \cup {NoLoop} /\ token' \in Loops \cup {NoLoop}
    <3>1. CASE UNCHANGED << loops, current, token >>
      BY <3>1 DEF TypeOK
    <3>2. ASSUME NEW l \in Loops, current' = l, token' = l,
                 loops' = [loops EXCEPT ![l] = NewLoop(found, ok)]
          PROVE  <2>1!1
      BY <3>2 DEF TypeOK, NewLoop, EventLoop
    <3> QED
      BY <1>4, <3>1, <3>2 DEF HotAddIoc
  <2> QED
    BY <1>4, <2>1 DEF HotAddIoc, TypeOK, row, meta
<1>5. ASSUME NEW l \in Loops, Break(l) PROVE TypeOK'
  <2>1. loops[l].pvs \in SUBSET PVs
    BY DEF TypeOK, EventLoop
  <2>2. lifecycle' \in Seq(Report) /\ Len(lifecycle') <= LifecycleCap
    BY <1>5, <2>1, TrySendTyped DEF Break
  <2>3. loops' \in [Loops -> EventLoop]
    <3>1. [loops[l] EXCEPT !.st = "down", !.monitors = {}] \in EventLoop
      BY DEF TypeOK, EventLoop
    <3>2. Over \in EventLoop
      BY DEF Over, EventLoop
    <3>3. \/ loops' = [loops EXCEPT ![l] = Over]
          \/ loops' = [loops EXCEPT ![l] = [loops[l] EXCEPT !.st = "down",
                                                           !.monitors = {}]]
      BY <1>5 DEF Break
    <3> QED
      BY <3>1, <3>2, <3>3 DEF TypeOK
  <2>4. reconnects' \in Seq(Loops \cup {NoLoop}) /\ current' \in Loops \cup {NoLoop}
    BY <1>5, ClosedSenders DEF Break, TypeOK, Closed
  <2> QED
    BY <1>5, <2>2, <2>3, <2>4 DEF Break, TypeOK, row, meta
<1>6. ASSUME NEW l \in Loops, StopWaiting(l) PROVE TypeOK'
  <2>1. loops' \in [Loops -> EventLoop]
    BY <1>6 DEF StopWaiting, TypeOK, EventLoop, Over
  <2> QED
    BY <1>6, <2>1 DEF StopWaiting, TypeOK, row, meta
<1>7. ASSUME NEW l \in Loops, NEW ok \in SUBSET PVs, Reconnect(l, ok) PROVE TypeOK'
  <2>1. loops[l].pvs \in SUBSET PVs
    BY DEF TypeOK, EventLoop
  <2>2. lifecycle' \in Seq(Report) /\ Len(lifecycle') <= LifecycleCap
    BY <1>7, <2>1, TrySendTyped DEF Reconnect
  <2>3. loops' \in [Loops -> EventLoop]
    <3>1. [loops[l] EXCEPT !.st = "up", !.monitors = ok] \in EventLoop
      BY DEF TypeOK, EventLoop
    <3>2. loops' = [loops EXCEPT ![l] = [loops[l] EXCEPT !.st = "up", !.monitors = ok]]
      BY <1>7 DEF Reconnect
    <3> QED
      BY <3>1, <3>2 DEF TypeOK
  <2>4. reconnects' \in Seq(Loops \cup {NoLoop})
    BY <1>7 DEF Reconnect, TypeOK
  <2> QED
    BY <1>7, <2>2, <2>3, <2>4 DEF Reconnect, TypeOK, row, meta
<1>8. CASE RouteReconnect
  <2>1. /\ reconnects \in Seq(Loops \cup {NoLoop}) /\ reconnects # << >>
        /\ current' = Head(reconnects) /\ reconnects' = Tail(reconnects)
    BY <1>8 DEF RouteReconnect, TypeOK
  <2>2. current' \in Loops \cup {NoLoop} /\ reconnects' \in Seq(Loops \cup {NoLoop})
    BY <2>1
  <2> QED
    BY <1>8, <2>2 DEF RouteReconnect, TypeOK, row, meta
<1>9. ASSUME NEW p \in PVs, Update(p) PROVE TypeOK'
  BY <1>9 DEF Update, TypeOK, row
<1>10. ASSUME NEW p \in PVs, Age(p) PROVE TypeOK'
  BY <1>10 DEF Age, TypeOK, net, meta
<1>11. ASSUME NEW fails \in BOOLEAN, HandleLifecycle(fails) PROVE TypeOK'
  <2>1. lifecycle \in Seq(Report) /\ lifecycle # << >>
    BY <1>11 DEF HandleLifecycle, TypeOK
  <2>2. Tail(lifecycle) \in Seq(Report) /\ Len(Tail(lifecycle)) <= Len(lifecycle)
        /\ Head(lifecycle) \in Report
    BY <2>1, TailReport
  <2>3. Head(lifecycle).event \in {"Connected", "Disconnected", "Reconnected"}
    BY <2>2 DEF Report
  <2>4. \E pvs : \/ SetState(pvs, "connected", fails)
                 \/ SetState(pvs, "disconnected", fails)
                 \/ SetState(pvs, "archiving", fails)
    BY <1>11, <2>3 DEF HandleLifecycle, HandleConnect, HandleDisconnect, HandleReconnect
  <2>5. state' \in [PVs -> State]
    BY <2>4, SetStateTyped DEF State
  <2>6. /\ lifecycle' = Tail(lifecycle)
        /\ UNCHANGED << loops, current, token, reconnects, name_server, first,
                        subscribed, last_event, sink, engine, metadata_buf,
                        inline_meta, pv_metadata, stored, torn, main >>
    BY <1>11 DEF HandleLifecycle, net, meta
  <2>7. LifecycleCap \in Nat /\ Len(lifecycle) \in Nat
    BY <2>1, PvStatusAssumption
  <2>8. Len(lifecycle') <= LifecycleCap
    BY <2>1, <2>2, <2>6, <2>7 DEF TypeOK
  <2> QED
    BY <2>2, <2>5, <2>6, <2>8 DEF TypeOK
<1>12. ASSUME NEW fails \in BOOLEAN, CollectMetadata(fails) PROVE TypeOK'
  <2> DEFINE batch == { p \in metadata_buf : engine[p] = "new" }
  <2>1. /\ main' = "select" /\ metadata_buf' = {}
        /\ engine' = [p \in PVs |-> IF p \in batch THEN "used" ELSE engine[p]]
        /\ pv_metadata' \in UpsertBatch(pv_metadata, batch, fails)
        /\ stored' = MarkStored(stored, batch, fails)
        /\ torn' \subseteq torn \cup stored
        /\ UNCHANGED << loops, current, token, reconnects, name_server, first,
                        subscribed, lifecycle, state, last_event, sink, inline_meta >>
    BY <1>12 DEF CollectMetadata, net, row
  <2>2. batch \subseteq PVs
    BY DEF TypeOK
  <2> HIDE DEF batch
  <2>3. engine' \in [PVs -> {"none", "new", "used"}]
    BY <2>1 DEF TypeOK
  <2>4. pv_metadata' \subseteq PVs /\ stored' \subseteq PVs /\ torn' \subseteq PVs
    BY <2>1, <2>2 DEF UpsertBatch, MarkStored, TypeOK
  <2> QED
    BY <2>1, <2>3, <2>4 DEF TypeOK
<1>13. ASSUME NEW fails_row \in BOOLEAN, NEW fails \in BOOLEAN,
              NEW fails_inline \in BOOLEAN, DrainMetadata(fails_row, fails, fails_inline)
       PROVE  TypeOK'
  <2> DEFINE batch == metadata_buf \ stored
             names == MarkStored(stored, batch, fails)
             inline == inline_meta \ names
  <2>1. /\ SetState(batch, "archiving", fails_row) /\ main' = "status"
        /\ stored' = MarkStored(names, inline, fails_inline)
        /\ metadata_buf' = {} /\ inline_meta' = {}
        /\ UNCHANGED << loops, current, token, reconnects, name_server, first,
                        subscribed, lifecycle, last_event, sink, engine, torn >>
    BY <1>13 DEF DrainMetadata, net
  <2>2. PICK table \in UpsertBatch(pv_metadata, batch, fails) :
          pv_metadata' \in UpsertBatch(table, inline, fails_inline)
    BY <1>13 DEF DrainMetadata
  <2>3. batch \subseteq PVs /\ names \subseteq PVs /\ inline \subseteq PVs
    BY DEF MarkStored, TypeOK
  <2>4. state' \in [PVs -> State]
    BY <2>1, SetStateTyped DEF State
  <2> HIDE DEF batch, names, inline
  <2>5. pv_metadata' \subseteq PVs /\ stored' \subseteq PVs
    BY <2>1, <2>2, <2>3 DEF UpsertBatch, MarkStored, TypeOK
  <2> QED
    BY <2>1, <2>4, <2>5 DEF TypeOK
<1>14. ASSUME NEW fails \in BOOLEAN, UpdatePvStatus(fails) PROVE TypeOK'
  <2> DEFINE counted == IF fails THEN {} ELSE { p \in sink : state[p] # "none" }
             touched == [p \in PVs |-> IF p \in counted THEN "fresh"
                                                        ELSE last_event[p]]
             promoted == [p \in PVs |-> Counted(counted, p)]
  <2>1. /\ last_event' = touched /\ sink' = {} /\ main' = "select"
        /\ state' = [p \in PVs |->
                        IF promoted[p] = "archiving" /\ touched[p] = "stale"
                        THEN "timeout" ELSE promoted[p]]
        /\ UNCHANGED << loops, current, token, reconnects, name_server, first,
                        subscribed, lifecycle, engine, metadata_buf, inline_meta,
                        pv_metadata, stored, torn >>
    BY <1>14 DEF UpdatePvStatus, net, meta
  <2>2. touched \in [PVs -> {"null", "fresh", "stale"}]
    BY DEF TypeOK
  <2>3. promoted \in [PVs -> State]
    BY DEF TypeOK, Counted, State
  <2> HIDE DEF counted, touched, promoted
  <2>4. state' \in [PVs -> State]
    BY <2>1, <2>3 DEF State
  <2> QED
    BY <2>1, <2>2, <2>4 DEF TypeOK
<1>15. CASE UNCHANGED vars
  BY <1>15 DEF vars, net, row, meta, bounds, TypeOK
<1> QED
  BY <1>1, <1>2, <1>3, <1>4, <1>5, <1>6, <1>7, <1>8, <1>9, <1>10, <1>11, <1>12,
     <1>13, <1>14, <1>15 DEF Next, IocChange, StatsTick

LEMMA InitTyped == Init => TypeOK
<1> SUFFICES ASSUME Init PROVE TypeOK
  OBVIOUS
<1>1. PICK known \in SUBSET PVs, found \in SUBSET PVs, collected \in SUBSET PVs,
           fails \in BOOLEAN, fails_row \in BOOLEAN :
          /\ subscribed = found /\ StartNet(found) /\ found \subseteq known
          /\ StartMetadata(known, found, collected, fails) /\ collected \subseteq found
          /\ StartRows(known, fails_row)
  BY DEF Init
<1>2. LifecycleCap \in Nat \ {0}
  BY PvStatusAssumption
<1>3. lifecycle \in Seq(Report) /\ Len(lifecycle) <= LifecycleCap
  <2> DEFINE r == [event |-> "Connected", pvs |-> found]
  <2>1. lifecycle = << >> \/ lifecycle = << r >>
    BY <1>1 DEF StartNet
  <2>2. r \in Report
    BY DEF Report
  <2> HIDE DEF r
  <2>3. << r >> \in Seq(Report) /\ Len(<< r >>) = 1 /\ Len(<< >>) = 0
    BY <2>2
  <2>4. << >> \in Seq(Report)
    OBVIOUS
  <2>5. 0 <= LifecycleCap /\ 1 <= LifecycleCap
    BY <1>2
  <2> QED
    BY <2>1, <2>3, <2>4, <2>5
<1>4. loops \in [Loops -> EventLoop] /\ current \in Loops \cup {NoLoop}
  BY <1>1 DEF StartNet, Idle, NewLoop, EventLoop
<1>5. state \in [PVs -> State] /\ last_event \in [PVs -> {"null", "fresh", "stale"}]
  BY <1>1 DEF StartRows, State
<1>6. engine \in [PVs -> {"none", "new", "used"}]
  <2>1. \A p \in PVs : (CASE p \in collected -> "used"
                          [] p \in found \ collected -> "new"
                          [] OTHER -> "none") \in {"none", "new", "used"}
    OBVIOUS
  <2> QED
    BY <1>1, <2>1 DEF StartMetadata
<1>7. /\ first \subseteq PVs /\ inline_meta \subseteq PVs
      /\ pv_metadata \subseteq PVs /\ stored \subseteq PVs
  BY <1>1 DEF StartMetadata, UpsertBatch, MarkStored
<1>8. /\ token \in Loops \cup {NoLoop} /\ reconnects \in Seq(Loops \cup {NoLoop})
      /\ name_server \in {"up", "gone"} /\ subscribed \subseteq PVs
      /\ sink \subseteq PVs /\ metadata_buf \subseteq PVs /\ torn \subseteq PVs
      /\ main \in {"select", "status", "collect"}
  BY <1>1, <1>4 DEF Init
<1> QED
  BY <1>3, <1>4, <1>5, <1>6, <1>7, <1>8 DEF TypeOK

(***************************************************************************)
(* Every reachable state is typed: in particular the lifecycle channel     *)
(* (bounded, try_send) never holds more than its capacity, and pv_status   *)
(* never leaves the states of its check constraint.                        *)
(***************************************************************************)
THEOREM PvStatusTypeCorrect == Spec => []TypeOK
BY InitTyped, NextTyped, PTL DEF Spec

-----------------------------------------------------------------------------
(* Metadata.  A batch of a tick holds no name already marked, so a bulk    *)
(* DELETE whose INSERT fails takes no row a mark relies on; a batch of     *)
(* collect_initial_metadata may, and the names it takes are torn.          *)

LEMMA StoredStep == StoredHasRow /\ [Next]_vars => StoredHasRow'
<1> SUFFICES ASSUME StoredHasRow, [Next]_vars PROVE StoredHasRow'
  OBVIOUS
<1>1. ASSUME NEW fails_row \in BOOLEAN, NEW fails \in BOOLEAN,
             NEW fails_inline \in BOOLEAN, DrainMetadata(fails_row, fails, fails_inline)
      PROVE  StoredHasRow'
  <2> DEFINE batch == metadata_buf \ stored
             names == MarkStored(stored, batch, fails)
             inline == inline_meta \ names
  <2>1. stored' = MarkStored(names, inline, fails_inline) /\ torn' = torn
    BY <1>1 DEF DrainMetadata
  <2>2. PICK table \in UpsertBatch(pv_metadata, batch, fails) :
          pv_metadata' \in UpsertBatch(table, inline, fails_inline)
    BY <1>1 DEF DrainMetadata
  <2>3. names \ torn \subseteq table
    BY <2>2 DEF UpsertBatch, MarkStored, StoredHasRow
  <2>4. inline \cap names = {}
    OBVIOUS
  <2> HIDE DEF batch, names, inline
  <2> QED
    BY <2>1, <2>2, <2>3, <2>4 DEF UpsertBatch, MarkStored, StoredHasRow
<1>2. ASSUME NEW fails \in BOOLEAN, CollectMetadata(fails) PROVE StoredHasRow'
  <2> DEFINE batch == { p \in metadata_buf : engine[p] = "new" }
  <2>1. /\ pv_metadata' \in UpsertBatch(pv_metadata, batch, fails)
        /\ stored' = MarkStored(stored, batch, fails)
        /\ torn' = (torn \cup (stored \cap batch)) \ pv_metadata'
    BY <1>2 DEF CollectMetadata
  <2> HIDE DEF batch
  <2>2. \/ ~fails /\ pv_metadata' = pv_metadata \cup batch
        \/ fails /\ (pv_metadata' = pv_metadata \/ pv_metadata' = pv_metadata \ batch)
    BY <2>1 DEF UpsertBatch
  <2> QED
    BY <2>1, <2>2 DEF MarkStored, StoredHasRow
<1>3. ASSUME UNCHANGED << pv_metadata, stored, torn >> PROVE StoredHasRow'
  BY <1>3 DEF StoredHasRow
<1>4. \A p \in PVs, via \in {"redis", "notify"}, fails \in BOOLEAN :
        Subscribe(p, via, fails) \/ Unsubscribe(p, via, fails)
          => UNCHANGED << pv_metadata, stored, torn >>
  BY DEF Subscribe, Unsubscribe
<1>5. /\ \A l \in Loops : Break(l) \/ StopWaiting(l)
                            => UNCHANGED << pv_metadata, stored, torn >>
      /\ \A l \in Loops, ok \in SUBSET PVs :
           Reconnect(l, ok) => UNCHANGED << pv_metadata, stored, torn >>
      /\ RouteReconnect \/ IocChange => UNCHANGED << pv_metadata, stored, torn >>
  BY DEF Break, StopWaiting, Reconnect, RouteReconnect, IocChange, RemoveIoc, HotAddIoc,
         meta
<1>6. \A p \in PVs : Update(p) \/ Age(p) => UNCHANGED << pv_metadata, stored, torn >>
  BY DEF Update, Age, meta
<1>7. \A fails \in BOOLEAN : HandleLifecycle(fails) \/ UpdatePvStatus(fails)
                               => UNCHANGED << pv_metadata, stored, torn >>
  BY DEF HandleLifecycle, UpdatePvStatus, meta
<1>8. UNCHANGED vars => UNCHANGED << pv_metadata, stored, torn >>
  BY DEF vars, meta
<1> QED
  BY <1>1, <1>2, <1>3, <1>4, <1>5, <1>6, <1>7, <1>8 DEF Next, StatsTick

(***************************************************************************)
(* Whatever statements fail, a name in metadata_stored_pvs has its row in  *)
(* pv_metadata, except the names that a half-failed bulk write of          *)
(* collect_initial_metadata has taken and no later write brought back.     *)
(***************************************************************************)
THEOREM PvStatusStoredHasRow == Spec => []StoredHasRow
<1>1. Init => StoredHasRow
  <2> SUFFICES ASSUME Init PROVE StoredHasRow
    OBVIOUS
  <2>1. PICK known \in SUBSET PVs, collected \in SUBSET PVs, fails \in BOOLEAN :
            /\ pv_metadata \in UpsertBatch(known, collected, fails)
            /\ stored = MarkStored({}, collected, fails)
    BY DEF Init, StartMetadata
  <2> QED
    BY <2>1 DEF UpsertBatch, MarkStored, StoredHasRow
<1> QED
  BY <1>1, StoredStep, PTL DEF Spec

-----------------------------------------------------------------------------
(* LiveIsNotDown.                                                          *)

\* A loop that lost its connection, and will report again, has p in its
\* snapshot: its IOC has not been removed.
SomeDown(p) ==
    \E l \in Loops : loops[l].st = "down" /\ ~Cancelled(l) /\ p \in loops[l].pvs

\* The PVs whose row follows the reports.
Followed == subscribed \ (missed \cup moved)

(***************************************************************************)
(* What a followed PV owes its row.  The row is open, it is SEARCHING only *)
(* while a report on the PV waits, and when the last report, waiting or    *)
(* applied, says Disconnected a loop that will report again is still down. *)
(***************************************************************************)
RowFollows(p) ==
    /\ state[p] \notin {"none", "unsubscribed"}
    /\ state[p] = "searching" => Named(lifecycle, p)
    /\ EndsDown(lifecycle, p) => SomeDown(p)
    /\ state[p] = "disconnected" /\ ~Named(lifecycle, p) => SomeDown(p)

RowsFollow == \A p \in Followed : RowFollows(p)

LEMMA FollowsImpliesLive == TypeOK /\ RowsFollow => LiveIsNotDown
<1> SUFFICES ASSUME TypeOK, RowsFollow, NEW p \in subscribed \ (missed \cup moved),
                    Feeds(p) # {}, \E l \in Loops : Holders(p) = {l}, ~Pending(p)
             PROVE  state[p] \in {"connected", "archiving", "timeout"}
  BY DEF LiveIsNotDown
<1>1. RowFollows(p) /\ ~Named(lifecycle, p)
  BY DEF RowsFollow, Followed, Pending, Named
<1>2. ~SomeDown(p)
  <2> SUFFICES ASSUME SomeDown(p) PROVE FALSE
    OBVIOUS
  <2>1. PICK d \in Loops : loops[d].st = "down" /\ p \in loops[d].pvs
    BY DEF SomeDown
  <2>2. PICK u \in Loops : loops[u].st = "up" /\ p \in loops[u].monitors
    BY DEF Feeds
  <2>3. d \in Holders(p) /\ u \in Holders(p)
    BY <2>1, <2>2 DEF Holders
  <2> QED
    BY <2>1, <2>2, <2>3
<1>3. state[p] \in State
  BY DEF TypeOK
<1> QED
  BY <1>1, <1>2, <1>3 DEF RowFollows, State

\* A step that leaves the channel alone, and the loops that are down, and
\* follows no further PV.
LEMMA QuietStep ==
  ASSUME TypeOK, RowsFollow, UNCHANGED lifecycle, Followed' \subseteq Followed,
         \A l \in Loops : loops[l].st = "down" /\ ~Cancelled(l) =>
            /\ loops'[l].st = "down" /\ loops'[l].pvs = loops[l].pvs
            /\ loops'[l].cancelled = loops[l].cancelled,
         \A p \in Followed' :
            \/ state'[p] = state[p] \/ state'[p] = "archiving" \/ state'[p] = "timeout"
  PROVE  RowsFollow'
<1> SUFFICES ASSUME NEW p \in Followed' PROVE RowFollows(p)'
  BY DEF RowsFollow
<1>1. p \in Followed
  OBVIOUS
<1>2. RowFollows(p)
  BY <1>1 DEF RowsFollow
<1>3. /\ SomeDown(p) => SomeDown(p)'
      /\ Named(lifecycle, p)' <=> Named(lifecycle, p)
      /\ EndsDown(lifecycle, p)' <=> EndsDown(lifecycle, p)
  BY DEF SomeDown, Cancelled, Named, EndsDown
<1>4. state'[p] = state[p] \/ state'[p] = "archiving" \/ state'[p] = "timeout"
  OBVIOUS
<1> QED
  BY <1>2, <1>3, <1>4 DEF RowFollows

\* The channel takes a report of loop x, which then is as the report says.
LEMMA ReportStep ==
  ASSUME TypeOK, RowsFollow, NEW x \in Loops,
         NEW e \in {"Disconnected", "Reconnected"}, TrySend(e, loops[x].pvs),
         UNCHANGED << subscribed, state >>,
         \A l \in Loops : l # x => loops'[l] = loops[l],
         \/ e = "Reconnected" /\ moved' = moved
         \/ /\ e = "Disconnected" /\ ~Cancelled(x) /\ moved' = moved
            /\ loops'[x].st = "down" /\ loops'[x].pvs = loops[x].pvs
            /\ loops'[x].cancelled = loops[x].cancelled
         \/ /\ e = "Disconnected" /\ moved' = moved \cup loops[x].pvs
  PROVE  RowsFollow'
<1> DEFINE r == [event |-> e, pvs |-> loops[x].pvs]
<1>1. loops[x].pvs \in SUBSET PVs /\ lifecycle \in Seq(Report)
  BY DEF TypeOK, EventLoop
<1>2. r \in Report /\ r.event = e /\ r.pvs = loops[x].pvs
  BY <1>1 DEF Report
<1>3. \/ lifecycle' = Append(lifecycle, r) /\ missed' = missed
      \/ lifecycle' = lifecycle /\ missed' = missed \cup loops[x].pvs
  BY DEF TrySend
<1> HIDE DEF r
<1> SUFFICES ASSUME NEW p \in Followed' PROVE RowFollows(p)'
  BY DEF RowsFollow
<1>4. RowFollows(p) /\ p \in subscribed /\ p \notin missed' /\ p \notin moved'
  BY <1>3 DEF RowsFollow, Followed
<1>5. /\ Named(lifecycle, p)' <=> Named(lifecycle', p)
      /\ EndsDown(lifecycle, p)' <=> EndsDown(lifecycle', p)
  BY DEF Named, EndsDown
<1>6. CASE p \notin loops[x].pvs
  <2>1. /\ Named(lifecycle', p) <=> Named(lifecycle, p)
        /\ EndsDown(lifecycle', p) => EndsDown(lifecycle, p)
    <3>1. p \notin r.pvs
      BY <1>2, <1>6
    <3>2. /\ Named(Append(lifecycle, r), p) <=> Named(lifecycle, p)
          /\ EndsDown(Append(lifecycle, r), p) => EndsDown(lifecycle, p)
      BY <1>1, <1>2, <3>1, AppendReport
    <3> QED
      BY <1>3, <3>2
  <2>2. SomeDown(p) => SomeDown(p)'
    BY <1>6 DEF SomeDown, Cancelled
  <2> QED
    BY <1>4, <1>5, <2>1, <2>2 DEF RowFollows
<1>7. CASE p \in loops[x].pvs
  <2>1. lifecycle' = Append(lifecycle, r)
    BY <1>3, <1>4, <1>7
  <2>2. Named(lifecycle', p) /\ (EndsDown(lifecycle', p) => e = "Disconnected")
    BY <1>1, <1>2, <1>7, <2>1, AppendReport
  <2>3. e = "Disconnected" => SomeDown(p)'
    BY <1>4, <1>7 DEF SomeDown, Cancelled
  <2> QED
    BY <1>4, <1>5, <2>2, <2>3 DEF RowFollows
<1> QED
  BY <1>6, <1>7

\* subscribe_pvs opens the row and queues a Connected behind everything.
LEMMA SubscribeFollows ==
  ASSUME TypeOK, RowsFollow, NEW s \in PVs, NEW via \in {"redis", "notify"},
         NEW fails \in BOOLEAN, Subscribe(s, via, fails)
  PROVE  RowsFollow'
<1> DEFINE r == [event |-> "Connected", pvs |-> {s}]
<1>1. r \in Report /\ r.event = "Connected" /\ r.pvs = {s}
  BY DEF Report
<1>2. lifecycle \in Seq(Report)
  BY DEF TypeOK
<1>3. /\ lifecycle' = Append(lifecycle, r) \/ lifecycle' = lifecycle
      /\ s \notin missed' => lifecycle' = Append(lifecycle, r) /\ ~fails
      /\ missed \subseteq missed' \cup {s} /\ subscribed' = subscribed \cup {s}
      /\ moved' = moved \ {s}
  BY DEF Subscribe
<1>4. SetState({s}, "searching", fails)
  BY DEF Subscribe, SubscribeRow
<1>5. \A p \in PVs : /\ p # s => state'[p] = state[p]
                     /\ p = s /\ ~fails => state'[p] = "searching"
  BY <1>4 DEF SetState, TypeOK
<1>6. \A l \in Loops : loops[l].st = "down" =>
         /\ loops'[l].st = "down" /\ loops'[l].pvs = loops[l].pvs
         /\ loops'[l].cancelled = loops[l].cancelled
  <2>1. PICK l \in Loops :
          \/ loops' = [loops EXCEPT ![l].monitors = @ \cup {s}]
          \/ loops[l] = Idle
             /\ loops' = [loops EXCEPT ![l] = NewLoop({s}, {s})]
    BY DEF Subscribe, NextIdle
  <2>2. CASE loops' = [loops EXCEPT ![l].monitors = @ \cup {s}]
    BY <2>2 DEF TypeOK, EventLoop
  <2>3. CASE loops[l] = Idle /\ loops' = [loops EXCEPT ![l] = NewLoop({s}, {s})]
    BY <2>3 DEF TypeOK, EventLoop, Idle
  <2> QED
    BY <2>1, <2>2, <2>3
<1> HIDE DEF r
<1> SUFFICES ASSUME NEW p \in Followed' PROVE RowFollows(p)'
  BY DEF RowsFollow
<1>7. p \in PVs /\ p \in subscribed' /\ p \notin missed' /\ p \notin moved'
  BY <1>3 DEF TypeOK, Followed
<1>8. /\ Named(lifecycle, p)' <=> Named(lifecycle', p)
      /\ EndsDown(lifecycle, p)' <=> EndsDown(lifecycle', p)
      /\ SomeDown(p) => SomeDown(p)'
  BY <1>6 DEF Named, EndsDown, SomeDown, Cancelled
<1>9. CASE p = s
  <2>1. Named(lifecycle', p) /\ ~EndsDown(lifecycle', p)
    <3>1. p \in r.pvs /\ r.event # "Disconnected"
      BY <1>1, <1>9
    <3>2. /\ Named(Append(lifecycle, r), p)
          /\ EndsDown(Append(lifecycle, r), p) => r.event = "Disconnected"
      BY <1>1, <1>2, <3>1, AppendReport
    <3> QED
      BY <1>3, <1>7, <1>9, <3>1, <3>2
  <2>2. state'[p] = "searching"
    BY <1>3, <1>5, <1>7, <1>9
  <2> QED
    BY <1>8, <2>1, <2>2 DEF RowFollows
<1>10. CASE p # s
  <2>1. RowFollows(p)
    BY <1>3, <1>7, <1>10 DEF RowsFollow, Followed
  <2>2. /\ Named(lifecycle', p) <=> Named(lifecycle, p)
        /\ EndsDown(lifecycle', p) => EndsDown(lifecycle, p)
    <3>1. p \notin r.pvs
      BY <1>1, <1>10
    <3>2. /\ Named(Append(lifecycle, r), p) <=> Named(lifecycle, p)
          /\ EndsDown(Append(lifecycle, r), p) => EndsDown(lifecycle, p)
      BY <1>1, <1>2, <3>1, AppendReport
    <3> QED
      BY <1>3, <3>2
  <2>3. state'[p] = state[p]
    BY <1>5, <1>7, <1>10
  <2> QED
    BY <1>8, <2>1, <2>2, <2>3 DEF RowFollows
<1> QED
  BY <1>9, <1>10

\* The lifecycle arm applies the oldest report.
LEMMA HandleFollows ==
  ASSUME TypeOK, RowsFollow, NEW fails \in BOOLEAN, HandleLifecycle(fails)
  PROVE  RowsFollow'
<1> DEFINE q == lifecycle
           r == Head(lifecycle)
<1>1. q \in Seq(Report) /\ q # << >> /\ lifecycle' = Tail(q)
  BY DEF HandleLifecycle, TypeOK
<1>2. r \in Report
  BY <1>1, TailReport
<1>3. r.event \in {"Connected", "Disconnected", "Reconnected"}
  BY <1>2 DEF Report
<1>4. /\ missed' = IF fails THEN missed \cup r.pvs ELSE missed
      /\ UNCHANGED << subscribed, loops, moved >>
  BY DEF HandleLifecycle, net
<1>5. ASSUME NEW p \in PVs
      PROVE  /\ p \notin r.pvs \/ fails => state'[p] = state[p]
             /\ p \in r.pvs /\ ~fails /\ state[p] # "none" =>
                  /\ r.event = "Connected" =>
                       state'[p] = IF state[p] \in Connectable THEN "connected" ELSE state[p]
                  /\ r.event = "Disconnected" => state'[p] = "disconnected"
                  /\ r.event = "Reconnected" => state'[p] = "archiving"
  <2>1. CASE r.event = "Connected"
    <3>1. HandleConnect(r.pvs, fails)
      BY <2>1 DEF HandleLifecycle
    <3> QED
      BY <2>1, <3>1, <1>5 DEF HandleConnect, SetState, TypeOK
  <2>2. CASE r.event = "Disconnected"
    <3>1. HandleDisconnect(r.pvs, fails)
      BY <2>2 DEF HandleLifecycle
    <3> QED
      BY <2>2, <3>1, <1>5 DEF HandleDisconnect, SetState, TypeOK
  <2>3. CASE r.event = "Reconnected"
    <3>1. HandleReconnect(r.pvs, fails)
      BY <2>3 DEF HandleLifecycle
    <3> QED
      BY <2>3, <3>1, <1>5 DEF HandleReconnect, SetState, TypeOK
  <2> QED
    BY <1>3, <2>1, <2>2, <2>3
<1> HIDE DEF r
<1> SUFFICES ASSUME NEW p \in Followed' PROVE RowFollows(p)'
  BY <1>4 DEF RowsFollow
<1>6. p \in PVs /\ RowFollows(p) /\ (p \in r.pvs => ~fails)
  BY <1>4 DEF RowsFollow, Followed, TypeOK
<1>7. /\ Named(lifecycle, p)' <=> Named(Tail(q), p)
      /\ EndsDown(lifecycle, p)' <=> EndsDown(Tail(q), p)
      /\ SomeDown(p)' <=> SomeDown(p)
  BY <1>1, <1>4 DEF Named, EndsDown, SomeDown, Cancelled
<1>8. /\ EndsDown(Tail(q), p) => EndsDown(q, p)
      /\ Named(Tail(q), p) => Named(q, p)
      /\ p \notin r.pvs => (Named(Tail(q), p) <=> Named(q, p))
      /\ ~Named(Tail(q), p) /\ p \in r.pvs
           => (r.event = "Disconnected" => EndsDown(q, p))
  BY <1>1, TailReport DEF r
<1>9. CASE p \notin r.pvs
  BY <1>5, <1>6, <1>7, <1>8, <1>9 DEF RowFollows
<1>10. CASE p \in r.pvs /\ r.event = "Disconnected"
  BY <1>5, <1>6, <1>7, <1>8, <1>10 DEF RowFollows
<1>11. CASE p \in r.pvs /\ r.event = "Reconnected"
  BY <1>5, <1>6, <1>7, <1>8, <1>11 DEF RowFollows
<1>12. CASE p \in r.pvs /\ r.event = "Connected"
  BY <1>5, <1>6, <1>7, <1>8, <1>12 DEF RowFollows, Connectable
<1> QED
  BY <1>3, <1>9, <1>10, <1>11, <1>12

LEMMA NextFollows == TypeOK /\ RowsFollow /\ [Next]_vars => RowsFollow'
<1> SUFFICES ASSUME TypeOK, RowsFollow, [Next]_vars PROVE RowsFollow'
  OBVIOUS
<1>1. ASSUME NEW p \in PVs, NEW via \in {"redis", "notify"}, NEW fails \in BOOLEAN,
             Unsubscribe(p, via, fails)
      PROVE  RowsFollow'
  <2>1. /\ subscribed' = subscribed \ {p} /\ lifecycle' = lifecycle
        /\ missed \subseteq missed' /\ moved' = moved
    BY <1>1 DEF Unsubscribe
  <2>2. \A l \in Loops : loops'[l].st = loops[l].st /\ loops'[l].pvs = loops[l].pvs
                         /\ loops'[l].cancelled = loops[l].cancelled
    BY <1>1 DEF Unsubscribe, TypeOK, EventLoop
  <2>3. \A o \in PVs : o # p => state'[o] = state[o]
    BY <1>1 DEF Unsubscribe, SetState, TypeOK
  <2>4. Followed' \subseteq Followed \ {p} /\ Followed \subseteq PVs
    BY <2>1 DEF Followed, TypeOK
  <2> QED
    BY <2>1, <2>2, <2>3, <2>4, QuietStep
<1>2. CASE RemoveIoc
  BY <1>2 DEF RemoveIoc, RowsFollow, Followed
<1>3. ASSUME NEW found \in SUBSET PVs, NEW ok \in SUBSET PVs, HotAddIoc(found, ok)
      PROVE  RowsFollow'
  <2>1. /\ lifecycle' = lifecycle /\ missed' = missed /\ state' = state
        /\ subscribed' = subscribed \cup ok /\ moved' = moved \cup ok
        /\ \/ loops' = loops
           \/ \E l \in Loops :
                /\ loops[l] = Idle
                /\ loops' = [loops EXCEPT ![l] = NewLoop(found, ok)]
    BY <1>3 DEF HotAddIoc, NextIdle, row
  <2>2. \A l \in Loops : loops[l].st = "down" => loops'[l] = loops[l]
    BY <2>1 DEF TypeOK, Idle
  <2>3. Followed' \subseteq Followed
    BY <2>1 DEF Followed
  <2> QED
    BY <2>1, <2>2, <2>3, QuietStep
<1>4. ASSUME NEW l \in Loops, Break(l) PROVE RowsFollow'
  <2>1. /\ TrySend("Disconnected", loops[l].pvs) /\ UNCHANGED << subscribed, state >>
        /\ loops' = [loops EXCEPT ![l] =
                        IF Cancelled(l) THEN Over
                        ELSE [@ EXCEPT !.st = "down", !.monitors = {}]]
        /\ moved' = IF Cancelled(l) THEN moved \cup loops[l].pvs ELSE moved
    BY <1>4 DEF Break, row
  <2>2. /\ \A k \in Loops : k # l => loops'[k] = loops[k]
        /\ ~Cancelled(l) => /\ loops'[l].st = "down" /\ loops'[l].pvs = loops[l].pvs
                            /\ loops'[l].cancelled = loops[l].cancelled
    BY <2>1 DEF TypeOK, EventLoop
  <2> QED
    BY <2>1, <2>2, ReportStep
<1>5. ASSUME NEW l \in Loops, StopWaiting(l) PROVE RowsFollow'
  <2>1. /\ UNCHANGED << lifecycle, missed, moved, subscribed, state >>
        /\ loops' = [loops EXCEPT ![l] = Over] /\ Cancelled(l)
    BY <1>5 DEF StopWaiting, row
  <2>2. \A k \in Loops : k # l => loops'[k] = loops[k]
    BY <2>1 DEF TypeOK
  <2>3. Followed' = Followed
    BY <2>1 DEF Followed
  <2> QED
    BY <2>1, <2>2, <2>3, QuietStep
<1>6. ASSUME NEW l \in Loops, NEW ok \in SUBSET PVs, Reconnect(l, ok)
      PROVE  RowsFollow'
  <2>1. /\ TrySend("Reconnected", loops[l].pvs)
        /\ UNCHANGED << subscribed, state, moved >>
        /\ loops' = [loops EXCEPT ![l].st = "up", ![l].monitors = ok]
    BY <1>6 DEF Reconnect, row
  <2>2. \A k \in Loops : k # l => loops'[k] = loops[k]
    BY <2>1 DEF TypeOK
  <2> QED
    BY <2>1, <2>2, ReportStep
<1>7. ASSUME \/ RouteReconnect
             \/ \E p \in PVs : Update(p) \/ Age(p)
             \/ \E fails \in BOOLEAN : CollectMetadata(fails)
             \/ UNCHANGED vars
      PROVE  RowsFollow'
  <2>1. UNCHANGED << lifecycle, missed, moved, subscribed, loops, state >>
    BY <1>7 DEF RouteReconnect, Update, Age, CollectMetadata, vars, net, row
  <2>2. Followed' = Followed
    BY <2>1 DEF Followed
  <2> QED
    BY <2>1, <2>2, QuietStep
<1>8. ASSUME NEW fails_row \in BOOLEAN, NEW fails \in BOOLEAN,
             NEW fails_inline \in BOOLEAN, DrainMetadata(fails_row, fails, fails_inline)
      PROVE  RowsFollow'
  <2>1. /\ UNCHANGED << lifecycle, missed, moved, subscribed, loops >>
        /\ SetState(metadata_buf \ stored, "archiving", fails_row)
    BY <1>8 DEF DrainMetadata, net
  <2>2. \A p \in PVs : state'[p] = state[p] \/ state'[p] = "archiving"
    BY <2>1 DEF SetState, TypeOK
  <2>3. Followed' = Followed /\ Followed \subseteq PVs
    BY <2>1 DEF Followed, TypeOK
  <2> QED
    BY <2>1, <2>2, <2>3, QuietStep
<1>9. ASSUME NEW fails \in BOOLEAN, UpdatePvStatus(fails) PROVE RowsFollow'
  <2>1. UNCHANGED << lifecycle, missed, moved, subscribed, loops >>
    BY <1>9 DEF UpdatePvStatus, net
  <2>2. \A p \in PVs : state'[p] = state[p] \/ state'[p] = "archiving"
                         \/ state'[p] = "timeout"
    BY <1>9 DEF UpdatePvStatus, Counted
  <2>3. Followed' = Followed /\ Followed \subseteq PVs
    BY <2>1 DEF Followed, TypeOK
  <2> QED
    BY <2>1, <2>2, <2>3, QuietStep
<1> QED
  BY <1>1, <1>2, <1>3, <1>4, <1>5, <1>6, <1>7, <1>8, <1>9, SubscribeFollows,
     HandleFollows DEF Next, IocChange, StatsTick

LEMMA InitFollows == Init => RowsFollow
<1> SUFFICES ASSUME Init, NEW p \in Followed PROVE RowFollows(p)
  BY DEF RowsFollow
<1>1. p \in PVs /\ p \in subscribed /\ p \notin missed
  BY InitTyped DEF TypeOK, Followed
<1>2. PICK known \in SUBSET PVs, fails \in BOOLEAN :
          subscribed \subseteq known /\ StartRows(known, fails) /\ StartNet(subscribed)
  BY DEF Init
<1>3. state[p] = "archiving"
  BY <1>1, <1>2 DEF StartRows
<1>4. lifecycle = << >> \/ \E pvs : lifecycle = << [event |-> "Connected", pvs |-> pvs] >>
  BY <1>2 DEF StartNet
<1>5. ~EndsDown(lifecycle, p)
  BY <1>4 DEF EndsDown
<1> QED
  BY <1>3, <1>5 DEF RowFollows

(***************************************************************************)
(* A subscribed PV that one loop receives, that no other loop would report *)
(* on and about which no report waits is CONNECTED, ARCHIVING or TIMEOUT,  *)
(* for any number of loops, commands, breaks, reconnects and IOC changes,  *)
(* unless since its last subscribe a report on it was dropped by the full  *)
(* channel, a statement failed, it was hot-added, or a connected loop of a *)
(* removed IOC reported its own end after it.                              *)
(***************************************************************************)
THEOREM PvStatusLiveIsNotDown == Spec => []LiveIsNotDown
BY InitTyped, NextTyped, InitFollows, NextFollows, FollowsImpliesLive, PTL DEF Spec

-----------------------------------------------------------------------------
(* The data-loss alert.                                                     *)

\* LAST_ALERT_TICK stands for the newest alert: 0 for none, and 1 for tick 0 as
\* well as for tick 1.  While no alert was raised no tick has seen a drop.
\* Ticks are counted only after the first event, from a total of 0 drops.
AlertKnown ==
  /\ drops \in Nat /\ tick \in Nat /\ last_drops \in Nat /\ last_alert \in Nat
  /\ raised \subseteq Nat /\ losing \subseteq Nat
  /\ \A u \in raised : u < tick
  /\ tick = 0 => last_drops = 0
  /\ early => drops > 0
  /\ tick > 0 => received
  /\ last_alert = 0 => raised = {} /\ losing = {}
  /\ last_alert # 0 =>
       \E u \in raised : /\ \A t \in raised : t <= u
                         /\ u = last_alert \/ (u = 0 /\ last_alert = 1)

LossInv == AlertKnown /\ LossAlerted

\* No tick has passed.
LEMMA InitLoss == AlertsInit => LossInv
<1> SUFFICES ASSUME AlertsInit PROVE LossInv
  OBVIOUS
<1>1. /\ drops = 0 /\ tick = 0 /\ last_drops = 0 /\ last_alert = 0
      /\ raised = {} /\ losing = {}
  BY DEF AlertsInit
<1>2. ~early
  BY Zenon DEF AlertsInit
<1> QED
  BY <1>1, <1>2 DEF LossInv, AlertKnown, LossAlerted

\* A tick that sees drops raises an alert, or one was raised recently.
LEMMA TickLoss ==
  ASSUME LossInv, LossTick
  PROVE  LossInv'
<1> USE DEF LossInv, AlertKnown
<1>t. Throttle \in Nat \ {0}
  BY AlertsAssumption
<1>1. /\ tick' = tick + 1 /\ last_drops' = drops /\ drops' = drops
      /\ received /\ UNCHANGED <<received, early>>
  BY DEF LossTick
<1>2. CASE drops > last_drops /\ Due
  <2>1. last_alert' = AlertTick /\ raised' = raised \cup {tick}
        /\ losing' = losing \cup {tick}
    BY <1>2 DEF LossTick
  <2>2. \A u \in raised : tick - u >= Throttle
    <3>1. CASE last_alert = 0
      BY <3>1
    <3>2. CASE last_alert # 0
      <4>1. PICK u \in raised : /\ \A t \in raised : t <= u
                                /\ u = last_alert \/ (u = 0 /\ last_alert = 1)
        BY <3>2
      <4>2. u <= last_alert /\ u \in Nat
        BY <4>1
      <4> QED
        BY <1>2, <1>t, <3>2, <4>1, <4>2 DEF Due
    <3> QED
      BY <3>1, <3>2
  <2>3. last_alert' \in Nat \ {0} /\ (tick = last_alert' \/ (tick = 0 /\ last_alert' = 1))
    BY <2>1 DEF AlertTick
  <2>4. AlertKnown'
    BY <1>1, <2>1, <2>3
  <2>5. LossAlerted'
    BY <1>1, <1>t, <2>1, <2>2 DEF LossAlerted
  <2> QED
    BY <2>4, <2>5
<1>3. CASE drops > last_drops /\ ~Due
  <2>1. /\ UNCHANGED <<last_alert, raised>> /\ losing' = losing \cup {tick}
    BY <1>3 DEF LossTick
  <2>2. last_alert # 0 /\ tick - last_alert < Throttle
    BY <1>3, <1>t DEF Due
  <2>3. PICK u \in raised : /\ \A t \in raised : t <= u
                            /\ u = last_alert \/ (u = 0 /\ last_alert = 1)
    BY <2>2
  <2>4. u <= tick /\ tick - u <= Throttle
    BY <1>t, <2>2, <2>3
  <2>5. AlertKnown'
    BY <1>1, <2>1, <2>2
  <2>6. LossAlerted'
    BY <1>1, <2>1, <2>3, <2>4 DEF LossAlerted
  <2> QED
    BY <2>5, <2>6
<1>4. CASE ~(drops > last_drops)
  <2>1. UNCHANGED <<last_alert, raised, losing>>
    BY <1>4 DEF LossTick
  <2>2. AlertKnown'
    BY <1>1, <2>1
  <2>3. LossAlerted'
    BY <1>1, <1>4, <2>1 DEF LossAlerted
  <2> QED
    BY <2>2, <2>3
<1> QED
  BY <1>2, <1>3, <1>4

\* Every step keeps the alerts apart and covers every loss.
LEMMA NextLoss == LossInv /\ [AlertsNext]_alertsVars => LossInv'
<1> SUFFICES ASSUME LossInv, [AlertsNext]_alertsVars PROVE LossInv'
  OBVIOUS
<1>1. CASE Drop
  <2>1. AlertKnown'
    BY <1>1 DEF Drop, LossInv, AlertKnown
  <2>2. LossAlerted'
    BY <1>1 DEF Drop, LossInv, LossAlerted
  <2> QED
    BY <2>1, <2>2 DEF LossInv
<1>2. CASE LossTick
  BY <1>2, TickLoss
<1>r. CASE Receive \/ QuietTick
  <2>1. /\ UNCHANGED <<drops, tick, last_drops, last_alert, raised, losing>>
        /\ received => received'
    BY <1>r, Zenon DEF Receive, QuietTick
  <2>2. early' => early \/ (tick = 0 /\ drops > 0)
    <3>1. CASE Receive
      BY <3>1 DEF Receive
    <3>2. CASE QuietTick
      <4>1. ~received /\ (early' => early \/ drops > last_drops)
        BY <3>2, Zenon DEF QuietTick
      <4> QED
        BY <4>1 DEF LossInv, AlertKnown
    <3> QED
      BY <1>r, <3>1, <3>2
  <2>3. AlertKnown'
    BY <2>1, <2>2 DEF LossInv, AlertKnown
  <2>4. LossAlerted'
    BY <2>1, <2>2 DEF LossInv, LossAlerted
  <2> QED
    BY <2>3, <2>4 DEF LossInv
<1>3. CASE UNCHANGED lossVars
  BY <1>3 DEF lossVars, LossInv, AlertKnown, LossAlerted
<1> QED
  BY <1>1, <1>2, <1>3, <1>r
  DEF AlertsNext, Retune, WriteSpawned, WriteBatch, ReadAlerts, acknowledge_batch,
      purge_before, alertsVars

\* However drops and ticks fall, alerts are at least Throttle ticks apart and a
\* tick that saw drops raised one or follows one by no more than Throttle; drops
\* that no tick looked at because no event had come are alerted by the first
\* tick that does.
THEOREM AlertsLossAlerted == AlertsSpec => []LossAlerted
<1>1. LossInv => LossAlerted
  BY DEF LossInv
<1> QED
  BY <1>1, InitLoss, NextLoss, PTL DEF AlertsSpec

-----------------------------------------------------------------------------
(* The chunk interval.                                                      *)

\* A quotient, multiplied again.
LEMMA DivBound ==
  ASSUME NEW m \in Nat, NEW r \in Nat \ {0}
  PROVE  m \div r \in Nat /\ r * (m \div r) <= m
OBVIOUS

\* Multiplication is monotone.
LEMMA TimesMonotone ==
  ASSUME NEW m \in Nat, NEW n \in Nat, NEW r \in Nat, m <= n
  PROVE  r * m <= r * n
OBVIOUS

\* The constants, as the proofs use them.
LEMMA ChunkConstants ==
  /\ ChunkMaxRows \in Nat \ {0} /\ MinChunk \in Nat \ {0}
  /\ MaxChunk \in Nat \ {0} /\ Hour \in Nat \ {0}
  /\ MinChunk <= MaxChunk /\ 2 * MinChunk <= Hour
  /\ MaxPvs \in Nat \ {0} /\ Rates \subseteq Nat
BY AlertsAssumption

\* A tuned interval is within its limits, and holds no more rows than fit in
\* memory unless it is the shortest there is.
LEMMA TunedForBound ==
  ASSUME NEW r \in Nat \ {0}
  PROVE  /\ TunedFor(r) \in Nat
         /\ MinChunk <= TunedFor(r)
         /\ TunedFor(r) # MinChunk => r * TunedFor(r) <= ChunkMaxRows
<1> DEFINE q == ChunkMaxRows \div r
<1>1. q \in Nat /\ r * q <= ChunkMaxRows
  BY ChunkConstants, DivBound
<1>2. TunedFor(r) = Clamp(q, MinChunk, MaxChunk)
  BY DEF TunedFor
<1> HIDE DEF q
<1>3. /\ Clamp(q, MinChunk, MaxChunk) \in Nat
      /\ MinChunk <= Clamp(q, MinChunk, MaxChunk)
      /\ \/ Clamp(q, MinChunk, MaxChunk) = MinChunk
         \/ Clamp(q, MinChunk, MaxChunk) <= q
  BY <1>1, ChunkConstants DEF Clamp
<1>4. ASSUME NEW c \in Nat, c <= q PROVE r * c <= ChunkMaxRows
  <2>1. r * c <= r * q
    BY <1>1, <1>4, TimesMonotone
  <2>2. r * c \in Nat /\ r * q \in Nat
    BY <1>1
  <2> QED
    BY <1>1, <2>1, <2>2, ChunkConstants
<1> QED
  BY <1>2, <1>3, <1>4

\* Rounding to whole hours or minutes never lengthens an interval, and one that
\* is shorter than twice the shortest becomes the shortest.
LEMMA FormatBound ==
  ASSUME NEW secs \in Nat, MinChunk <= secs
  PROVE  /\ format_chunk_interval(secs) \in Nat
         /\ format_chunk_interval(secs) <= secs
         /\ secs < 2 * MinChunk => format_chunk_interval(secs) = MinChunk
<1>1. /\ (secs \div Hour) * Hour \in Nat /\ (secs \div Hour) * Hour <= secs
      /\ (secs \div MinChunk) * MinChunk \in Nat
      /\ (secs \div MinChunk) * MinChunk <= secs
  BY ChunkConstants, DivBound
<1>2. CASE secs >= 2 * Hour
  BY <1>1, <1>2, ChunkConstants DEF format_chunk_interval
<1>3. CASE secs >= Hour /\ secs < 2 * Hour
  BY <1>3, ChunkConstants DEF format_chunk_interval
<1>4. CASE secs >= 2 * MinChunk /\ secs < Hour
  BY <1>1, <1>4, ChunkConstants DEF format_chunk_interval
<1>5. CASE secs < 2 * MinChunk
  BY <1>5, ChunkConstants DEF format_chunk_interval
<1> QED
  BY <1>2, <1>3, <1>4, <1>5, ChunkConstants

\* The database has the rounded form of current_chunk_secs, and that is close
\* to what the last rate asked for.
ChunkKnown ==
  /\ current_chunk \in Nat /\ MinChunk <= current_chunk /\ rate \in Nat
  /\ applied => interval = format_chunk_interval(current_chunk)
  /\ rate > 0 => ~FarApart(TunedFor(rate))

\* The initial interval is tuned for 10 events a second of every PV.
LEMMA InitChunk == AlertsInit => ChunkKnown
<1> SUFFICES ASSUME AlertsInit PROVE ChunkKnown
  OBVIOUS
<1>1. PICK pvs \in 1..MaxPvs : current_chunk = TunedFor(10 * pvs)
  BY DEF AlertsInit
<1>2. 10 * pvs \in Nat \ {0}
  BY ChunkConstants
<1> QED
  BY <1>1, <1>2, TunedForBound DEF AlertsInit, ChunkKnown

\* Every step keeps it so: the interval follows a rate, or is close already.
LEMMA NextChunk == ChunkKnown /\ [AlertsNext]_alertsVars => ChunkKnown'
<1> SUFFICES ASSUME ChunkKnown, [AlertsNext]_alertsVars PROVE ChunkKnown'
  OBVIOUS
<1>1. CASE UNCHANGED chunkVars
  BY <1>1 DEF chunkVars, ChunkKnown, FarApart
<1>2. ASSUME NEW r \in Rates, NEW fails \in BOOLEAN, Retune(r, fails)
      PROVE  ChunkKnown'
  <2>1. CASE r = 0 \/ fails
    BY <1>2, <2>1 DEF Retune, ChunkKnown, FarApart
  <2>2. CASE ~(r = 0 \/ fails)
    <3>1. r \in Nat \ {0} /\ rate' = r /\ applied' = applied
      BY <1>2, <2>2, ChunkConstants DEF Retune
    <3>2. TunedFor(r) \in Nat /\ MinChunk <= TunedFor(r)
      BY <3>1, TunedForBound
    <3>3. CASE FarApart(TunedFor(r))
      <4>1. /\ current_chunk' = TunedFor(r)
            /\ interval' = format_chunk_interval(TunedFor(r))
        BY <1>2, <2>2, <3>3 DEF Retune
      <4> QED
        BY <3>1, <3>2, <4>1 DEF ChunkKnown, FarApart
    <3>4. CASE ~FarApart(TunedFor(r))
      <4>1. UNCHANGED <<current_chunk, interval>>
        BY <1>2, <2>2, <3>4 DEF Retune
      <4> QED
        BY <3>1, <3>4, <4>1 DEF ChunkKnown, FarApart
    <3> QED
      BY <3>3, <3>4
  <2> QED
    BY <2>1, <2>2
<1> QED
  BY <1>1, <1>2
  DEF AlertsNext, Drop, Receive, QuietTick, LossTick, WriteSpawned, WriteBatch, ReadAlerts,
      acknowledge_batch, purge_before, alertsVars

\* Whatever rates follow one another, once tuned the active chunk holds no more
\* than 1.3 times the rows whose index fits in memory, unless it is the
\* shortest there is.
THEOREM AlertsChunkFits == AlertsSpec => []ChunkFits
<1>1. ChunkKnown => ChunkFits
  <2> SUFFICES ASSUME ChunkKnown, rate > 0, applied, interval > MinChunk
               PROVE  10 * rate * interval <= 13 * ChunkMaxRows
    BY DEF ChunkFits
  <2> DEFINE new == TunedFor(rate)
  <2>1. /\ new \in Nat /\ MinChunk <= new /\ rate \in Nat \ {0}
        /\ new # MinChunk => rate * new <= ChunkMaxRows
    BY TunedForBound DEF ChunkKnown
  <2>2. 10 * current_chunk <= 13 * new
    BY <2>1, ChunkConstants DEF ChunkKnown, FarApart
  <2> HIDE DEF new
  <2>3. /\ interval \in Nat /\ interval <= current_chunk
        /\ current_chunk < 2 * MinChunk => interval = MinChunk
    BY FormatBound DEF ChunkKnown
  <2>4. new # MinChunk
    BY <2>1, <2>2, <2>3, ChunkConstants DEF ChunkKnown
  <2>5. 10 * interval <= 13 * new
    BY <2>1, <2>2, <2>3 DEF ChunkKnown
  <2>6. 10 * rate * interval <= 13 * (rate * new)
    BY <2>1, <2>3, <2>5
  <2>7. rate * new \in Nat /\ 13 * (rate * new) <= 13 * ChunkMaxRows
    BY <2>1, <2>4, ChunkConstants
  <2> QED
    BY <2>1, <2>3, <2>6, <2>7, ChunkConstants
<1> QED
  BY <1>1, InitChunk, NextChunk, PTL DEF AlertsSpec
=============================================================================
