------------------------------ MODULE Discover ------------------------------
(***************************************************************************)
(* How a row of pv_config becomes a subscription.  The orchestrator        *)
(* (aura-discover) polls the table, diffs it against what it knows and     *)
(* publishes commands on a Redis channel; the PgListener task forwards     *)
(* NOTIFY payloads; the main loop (main.rs) consumes both queues and calls *)
(* the driver.  The three run concurrently and each keeps its own idea of  *)
(* what is subscribed.                                                     *)
(*                                                                         *)
(* Time is kept only as far as the poll can see it: updated is the set of  *)
(* rows with updated_at > last_poll.  A PV's configuration is its enabled  *)
(* flag, its heartbeat and whether expected_ioc is set (0 and FALSE are    *)
(* SQL NULL); description and unit never reach a decision.  A driver call  *)
(* is one step: Driver models its inside.                                  *)
(***************************************************************************)
EXTENDS Naturals, Sequences, FiniteSets

CONSTANTS
    PVs,        \* process variable names
    IOCs,       \* server addresses
    None,       \* not subscribed
    Serves,     \* Serves[i]: the PVs that IOC i hosts
    HasNameServer,  \* config.discover.name_servers holds an address
    Edits,      \* the edits operators make: a subset of EditKinds
    MaxEdits,   \* bound: edits of pv_config and ioc_config
    MaxFaults   \* bound: failed queries, publishes, searches, lost listens

EditKinds == {"insert", "insert_off", "enable", "disable", "beat", "delete",
              "ioc"}

ASSUME DiscoverAssumption ==
    /\ None \notin IOCs
    /\ Serves \in [IOCs -> SUBSET PVs]
    /\ HasNameServer \in BOOLEAN
    /\ Edits \subseteq EditKinds
    /\ MaxEdits \in Nat /\ MaxFaults \in Nat

VARIABLES
    config,     \* pv_config: PV -> "absent", "off" or "on"
    beat,       \* pv_config.heartbeat_s of each PV
    ioc_config, \* the enabled addresses of ioc_config
    updated,    \* rows with updated_at > last_poll
    expected,   \* rows whose expected_ioc has been stamped
    orch,       \* the orchestrator: phase, result of its last query
    known,      \* ConfigPoller.known: PV -> configuration, on its domain
    resolved,   \* Reconciler.resolved
    pending,    \* Reconciler.pending
    commands,   \* CommandBatch.commands, not yet flushed
    redis,      \* published commands the main loop has not read
    listener,   \* the PgListener task
    notify,     \* the mpsc channel from the listener to the main loop
    main,       \* the main loop: "start", "listening", "running"
    name_servers,       \* driver: configured IOC addresses
    pv_server_cache,    \* driver: PV -> IOC it is subscribed on
    failed_pvs, \* driver: PVs of the last search without a server, or
                \* whose server was removed
    pv_ids,     \* names in the shared pv_id cache
    lost,       \* history: PVs whose subscription nobody will correct
    edits, faults

db == << config, beat, ioc_config >>
stamps == << updated, expected >>
discover == << orch, known, resolved, pending, commands >>
ingest == << main, name_servers, pv_server_cache, failed_pvs, pv_ids >>
vars == << db, stamps, discover, redis, listener, notify, ingest, lost,
           edits, faults >>

Enabled == { p \in PVs : config[p] = "on" }
Rows == { p \in PVs : config[p] # "absent" }
Subscribed == { p \in PVs : pv_server_cache[p] # None }

SubscribeBatch(pvs) == [cmd |-> "subscribe", pvs |-> pvs]
UnsubscribeBatch(pvs) == [cmd |-> "unsubscribe", pvs |-> pvs]
IocChange == [cmd |-> "ioc_change", pvs |-> {}]
Command == [cmd : {"subscribe", "unsubscribe", "ioc_change"},
            pvs : SUBSET PVs]

Init ==
    /\ config \in [PVs -> {"absent", "on"}]
    /\ beat = [p \in PVs |-> 0]
    /\ ioc_config = IOCs
    /\ updated = Rows                       \* last_poll = MIN_UTC
    /\ expected = {}
    /\ orch = [phase |-> "boot", rows |-> {}]
    /\ known = << >>
    /\ resolved = {} /\ pending = {}
    /\ commands = << >> /\ redis = << >>
    /\ listener = "connecting" /\ notify = << >>
    /\ main = "start" /\ name_servers = IOCs
    /\ pv_server_cache = [p \in PVs |-> None] /\ failed_pvs = {}
    /\ pv_ids = {} /\ lost = {}
    /\ edits = 0 /\ faults = 0

Fault == faults < MaxFaults /\ faults' = faults + 1

NamesOf(cmds, kind) ==
    UNION { cmds[k].pvs : k \in { j \in DOMAIN cmds : cmds[j].cmd = kind } }

\* Names in the commands of a kind that the orchestrator has queued or sent.
OnItsWay(kind) == NamesOf(redis, kind) \cup NamesOf(commands, kind)

Archived(p) == p \in Subscribed /\ p \in pv_ids

\* p stays or becomes archived without the orchestrator: a NOTIFY or the
\* startup subscribe brings it in and no unsubscribe is under way.
Held(p) ==
    /\ p \notin OnItsWay("unsubscribe")
    /\ main = "running" => Archived(p) \/ p \in NamesOf(notify, "subscribe")

\* The enabled PVs that only a poll would bring in.
Unpolled == { p \in Enabled \ DOMAIN known : ~Held(p) }

-----------------------------------------------------------------------------
(***************************************************************************)
(* The database.  INSERT and DELETE fire the statement triggers of         *)
(* migration 015, UPDATE only moves updated_at; a NOTIFY nobody listens to *)
(* is gone.  The window between a poll's query and its last_poll = now is  *)
(* where an update is older than last_poll and yet unseen.                 *)
(***************************************************************************)
InWindow == orch.phase \in {"boot_loaded", "polled"}

Notify(cmd) == notify' = IF listener = "on" THEN Append(notify, cmd)
                                            ELSE notify

Touch(p) == updated' = updated \cup {p}

Edit(kind) == kind \in Edits /\ edits < MaxEdits /\ edits' = edits + 1

\* Nobody will subscribe the new row: its NOTIFY is not heard and the poller
\* still knows the deleted one; or the orchestrator has ended, and the NOTIFY
\* is not heard or an old unsubscribe follows it.
InsertUnseen(p) ==
    \/ listener # "on" /\ p \in DOMAIN known
    \/ /\ orch.phase = "dead" /\ p \notin DOMAIN known /\ ~Held(p)
       /\ listener # "on" \/ p \in OnItsWay("unsubscribe")

Insert(p, on) ==
    /\ Edit(IF on THEN "insert" ELSE "insert_off")
    /\ config[p] = "absent"
    /\ config' = [config EXCEPT ![p] = IF on THEN "on" ELSE "off"]
    /\ beat' = [beat EXCEPT ![p] = 0]
    /\ Touch(p)
    /\ Notify(SubscribeBatch({p}))
    /\ lost' = IF InWindow \/ InsertUnseen(p) THEN lost \cup {p} ELSE lost
    /\ UNCHANGED << ioc_config, expected, discover, redis, listener, ingest, faults >>

SetEnabled(p, on) ==
    /\ Edit(IF on THEN "enable" ELSE "disable")
    /\ config[p] = (IF on THEN "off" ELSE "on")
    /\ config' = [config EXCEPT ![p] = IF on THEN "on" ELSE "off"]
    /\ Touch(p)
    /\ lost' = IF InWindow \/ (orch.phase = "dead" /\ p \notin DOMAIN known
                               /\ ~Held(p))
               THEN lost \cup {p} ELSE lost
    /\ UNCHANGED << beat, ioc_config, expected, discover, redis, listener, notify,
                    ingest, faults >>

UpdateHeartbeat(p) ==
    /\ Edit("beat")
    /\ p \in Rows
    /\ beat' = [beat EXCEPT ![p] = 1 - @]
    /\ Touch(p)
    /\ UNCHANGED << config, ioc_config, expected, discover, redis, listener,
                    notify, ingest, lost, faults >>

Delete(p) ==
    /\ Edit("delete")
    /\ p \in Rows
    /\ config' = [config EXCEPT ![p] = "absent"]
    /\ updated' = updated \ {p} /\ expected' = expected \ {p}
    /\ Notify(UnsubscribeBatch({p}))
    /\ UNCHANGED << beat, ioc_config, discover, redis, listener, ingest,
                    lost, faults >>

EditIoc(i) ==
    /\ Edit("ioc")
    /\ ioc_config' = IF i \in ioc_config THEN ioc_config \ {i}
                                         ELSE ioc_config \cup {i}
    /\ Notify(IocChange)
    /\ UNCHANGED << config, beat, stamps, discover, redis, listener, ingest,
                    lost, faults >>

-----------------------------------------------------------------------------
(***************************************************************************)
(* The orchestrator.  diff compares the whole enabled set with known;      *)
(* reconcile turns the changes into names to resolve and to unsubscribe;   *)
(* resolve_batch marks them resolved at the first name server without      *)
(* asking it, queues one SubscribeBatch for the new ones and, when there   *)
(* is a name server, stamps the rows (which makes them updated again).     *)
(***************************************************************************)
\* The fields of a row that config_changed compares.
Settings(p) == << beat[p], p \in expected >>

Diff(fresh) ==
    [added   |-> fresh \ DOMAIN known,
     removed |-> DOMAIN known \ fresh,
     modified |-> { p \in fresh \cap DOMAIN known : known[p] # Settings(p) }]

\* Mutant: a Modified PV is resolved, an Added one forgotten.
ToResolveModifiedOnly(d) == d.modified \ resolved

\* Names reconcile hands to resolve_batch.
ToResolve(d) == d.added \cup (d.modified \ resolved)

\* Mutant: the test of HashSet::insert inverted.
ToSubscribeKnown(names, res) == names \cap res

\* mark_resolved: only names newly resolved are subscribed.
ToSubscribe(names, res) == names \ res

Batch(subs, unsubs) ==
    (IF subs = {} THEN << >> ELSE << SubscribeBatch(subs) >>)
        \o (IF unsubs = {} THEN << >> ELSE << UnsubscribeBatch(unsubs) >>)

\* The UPDATE of expected_ioc in resolve_batch; its error is ignored.
StampRows(names, rest) ==
    IF names = {} \/ ~HasNameServer
    THEN updated' = rest /\ UNCHANGED << expected, faults >>
    ELSE \/ /\ updated' = rest \cup (names \cap Rows)
            /\ expected' = expected \cup (names \cap Rows)
            /\ UNCHANGED faults
         \/ updated' = rest /\ UNCHANGED expected /\ Fault

BootLoad ==
    /\ orch.phase = "boot"
    /\ orch' = [phase |-> "boot_loaded", rows |-> Enabled]
    /\ UNCHANGED << db, stamps, known, resolved, pending, commands, redis,
                    listener, notify, ingest, lost, edits, faults >>

\* load_initial, reconcile(Added for all), last_poll = now, resolve_batch.
BootReconcile ==
    /\ orch.phase = "boot_loaded"
    /\ known' = [p \in orch.rows |-> Settings(p)]
    /\ resolved' = resolved \cup orch.rows
    /\ pending' = pending \ orch.rows
    /\ commands' = commands \o Batch(ToSubscribe(orch.rows, resolved), {})
    /\ StampRows(orch.rows, {})
    /\ orch' = [phase |-> "flush", rows |-> {}]
    /\ UNCHANGED << db, redis, listener, notify, ingest, lost, edits >>

CycleQuery ==
    /\ orch.phase = "idle"
    /\ orch' = [phase |-> "polled", rows |-> updated]
    /\ UNCHANGED << db, stamps, known, resolved, pending, commands, redis,
                    listener, notify, ingest, lost, edits, faults >>

\* last_poll = now; nothing changed and nothing pending ends the cycle.
CycleAdvance ==
    /\ orch.phase = "polled"
    /\ updated' = {}
    /\ orch' = [orch EXCEPT !.phase = IF orch.rows = {} /\ pending = {}
                                      THEN "idle" ELSE "fetch"]
    /\ UNCHANGED << db, expected, known, resolved, pending, commands, redis, listener,
                    notify, ingest, lost, edits, faults >>

CycleReconcile ==
    /\ orch.phase = "fetch"
    /\ LET d == IF orch.rows # {} THEN Diff(Enabled)
                ELSE [added |-> {}, removed |-> {}, modified |-> {}]
           names == ToResolve(d) \cup pending     \* retried in any case
           res == resolved \ d.removed
           subs == ToSubscribe(names, res)
           changed == d.added \cup d.removed \cup d.modified # {}
       IN  /\ known' = [p \in (DOMAIN known \cup d.added) \ d.removed |->
                            Settings(p)]
           /\ resolved' = res \cup names
           /\ pending' = {}
           /\ commands' = commands \o Batch(subs, d.removed)
           /\ StampRows(names, updated)
           /\ lost' = lost \ { p \in d.added \cup d.removed :
                                   p \in Subscribed => p \in pv_ids }
           /\ orch' = [phase |-> IF changed \/ subs # {} THEN "flush"
                                                         ELSE "idle",
                       rows |-> {}]
    /\ UNCHANGED << db, redis, listener, notify, ingest, edits >>

\* A query that fails after last_poll moved leaves its changes behind.
QueryFails ==
    /\ Fault
    /\ \/ orch.phase = "boot" /\ orch' = [orch EXCEPT !.phase = "dead"]
          /\ lost' = lost \cup Unpolled
       \/ orch.phase = "idle" /\ UNCHANGED << orch, lost >>
       \/ /\ orch.phase = "fetch"
          /\ orch' = [phase |-> "idle", rows |-> {}]
          /\ lost' = lost \cup { p \in PVs : (p \in Enabled) #
                                             (p \in DOMAIN known) }
    /\ UNCHANGED << db, stamps, known, resolved, pending, commands, redis,
                    listener, notify, ingest, edits >>

\* Mutant: the loop does not go back to waiting for its timer.
FlushForever ==
    /\ orch.phase = "flush"
    /\ commands' = << >>
    /\ redis' = IF main = "start" THEN redis ELSE redis \o commands
    /\ UNCHANGED << db, stamps, orch, known, resolved, pending, listener,
                    notify, ingest, lost, edits, faults >>

\* flush_commands takes the batch first; its error ends run(), and the PVs
\* of the batch stay resolved.  Redis drops what is published while nobody is
\* subscribed: main reads the table itself when it starts.
Flush ==
    /\ orch.phase = "flush"
    /\ commands' = << >>
    /\ redis' = IF main = "start" THEN redis ELSE redis \o commands
    /\ orch' = [orch EXCEPT !.phase = "idle"]
    /\ UNCHANGED << db, stamps, known, resolved, pending, listener, notify,
                    ingest, lost, edits, faults >>

FlushFails ==
    /\ orch.phase = "flush" /\ commands # << >>
    /\ Fault
    /\ commands' = << >>
    /\ \E n \in 0 .. Len(commands) :
          /\ redis' = IF main = "start" THEN redis
                      ELSE redis \o SubSeq(commands, 1, n)
          /\ lost' = lost \cup Unpolled
                         \cup (IF main = "start" THEN {}
                               ELSE NamesOf(SubSeq(commands, n + 1,
                                                   Len(commands)),
                                            "subscribe"))
    /\ orch' = [orch EXCEPT !.phase = "dead"]
    /\ UNCHANGED << db, stamps, known, resolved, pending, listener, notify,
                    ingest, edits >>

-----------------------------------------------------------------------------
(***************************************************************************)
(* The PgListener task.  Its first connect may fail for good; a broken one *)
(* waits 5 s and reconnects; a reconnect whose LISTEN fails stays deaf.    *)
(***************************************************************************)
Listen ==
    /\ listener \in {"connecting", "broken"}
    /\ main # "start"
    /\ listener' = "on"
    /\ UNCHANGED << db, stamps, discover, redis, notify, ingest, lost,
                    edits, faults >>

ListenerFails ==
    /\ main # "start"
    /\ Fault
    /\ \/ listener = "connecting" /\ listener' = "gone"
       \/ listener = "on" /\ listener' = "broken"
       \/ listener = "broken" /\ listener' = "deaf"
    /\ UNCHANGED << db, stamps, discover, redis, notify, ingest, lost,
                    edits >>

-----------------------------------------------------------------------------
(***************************************************************************)
(* The main loop.  subscribe_pvs registers the names in pv_lookup and the  *)
(* id cache before the driver searches them; a PV no server answers for is *)
(* not subscribed and nobody retries it until an IOC is added.             *)
(***************************************************************************)
ServerOf(p) == CHOOSE i \in name_servers : p \in Serves[i]
Found(pvs) == { p \in pvs : \E i \in name_servers : p \in Serves[i] }

Cached(cache, pvs) ==
    [p \in PVs |-> IF p \in pvs THEN ServerOf(p) ELSE cache[p]]
Uncached(cache, pvs) ==
    [p \in PVs |-> IF p \in pvs THEN None ELSE cache[p]]

\* What subscribe_pvs(subs) and the unsubscribes of the same batch leave
\* when the driver subscribes ok and the names in reg got their ids.
Outcome(subs, unsubs, ok, reg) ==
    /\ pv_server_cache' = Uncached(Cached(pv_server_cache, ok), unsubs)
    /\ failed_pvs' = IF subs = {} \/ name_servers = {} THEN failed_pvs
                                                       ELSE subs \ ok
    /\ pv_ids' = (pv_ids \cup reg) \ unsubs
    /\ lost' = lost \cup (subs \ (ok \cup Subscribed))
                    \cup (subs \ (reg \cup pv_ids))
                    \cup (subs \cap unsubs)

\* A search or the registration in pv_lookup may fail; neither is retried.
Apply(subs, unsubs) ==
    \/ Outcome(subs, unsubs, Found(subs), subs) /\ UNCHANGED faults
    \/ /\ subs # {}
       /\ Fault
       /\ \E lame \in BOOLEAN :
             Outcome(subs, unsubs, IF lame THEN {} ELSE Found(subs),
                     IF lame THEN subs ELSE {})

MainListen ==
    /\ main = "start"
    /\ main' = "listening"
    /\ UNCHANGED << db, stamps, discover, redis, listener, notify,
                    name_servers, pv_server_cache, failed_pvs, pv_ids, lost,
                    edits, faults >>

\* SELECT ... WHERE enabled (an error reads as an empty table), subscribe.
\* A PV the orchestrator resolved already, paused just now, is subscribed
\* by neither when it is enabled again before the next poll.
MainStartup ==
    /\ main = "listening"
    /\ main' = "running"
    /\ \E ok \in {Found(Enabled), {}}, reg \in {Enabled, {}} :
          /\ IF ok = Found(Enabled) /\ reg = Enabled THEN UNCHANGED faults
                                                     ELSE Fault
          /\ pv_server_cache' = Cached(pv_server_cache, ok)
          /\ failed_pvs' = IF name_servers = {} THEN {} ELSE Enabled \ ok
          /\ pv_ids' = pv_ids \cup reg
          /\ lost' = lost \cup (DOMAIN known \ ok)
                         \cup (Enabled \ (ok \cap reg))
    /\ UNCHANGED << db, stamps, discover, redis, listener, notify,
                    name_servers, edits >>

\* The first message is filtered against the subscribed PVs, the drained
\* ones are not; all subscribes are done before any unsubscribe.
HandleRedis(n) ==
    /\ main = "running"
    /\ n \in 1 .. Len(redis)
    /\ LET first == SubSeq(redis, 1, 1)
           drained == SubSeq(redis, 2, n)
       IN  Apply((NamesOf(first, "subscribe") \ Subscribed)
                     \cup NamesOf(drained, "subscribe"),
                 NamesOf(SubSeq(redis, 1, n), "unsubscribe"))
    /\ redis' = SubSeq(redis, n + 1, Len(redis))
    /\ UNCHANGED << db, stamps, discover, listener, notify, main,
                    name_servers, edits >>

\* A NOTIFY subscribe drains the following ones; the message that ends the
\* drain has been received and is dropped.
HandleNotifyAdd(n) ==
    /\ main = "running"
    /\ n \in 1 .. Len(notify)
    /\ \A k \in 1 .. n : notify[k].cmd = "subscribe"
    /\ Apply(NamesOf(SubSeq(notify, 1, n), "subscribe") \ Subscribed, {})
    /\ notify' = SubSeq(notify, IF n < Len(notify)
                                   /\ notify[n + 1].cmd # "subscribe"
                                THEN n + 2 ELSE n + 1, Len(notify))
    /\ UNCHANGED << db, stamps, discover, redis, listener, main,
                    name_servers, edits >>

\* The poll may have subscribed a re-inserted PV through Redis before its
\* queued delete is read, and the insert's own NOTIFY may be lost.  A paused
\* one that the poller still knows is not subscribed again when it is enabled
\* before the next poll.
HandleNotifyDel ==
    /\ main = "running"
    /\ notify # << >> /\ Head(notify).cmd = "unsubscribe"
    /\ LET gone == Head(notify).pvs
           held == Enabled \cup (Rows \cap DOMAIN known)
       IN  /\ pv_server_cache' = Uncached(pv_server_cache, gone)
           /\ pv_ids' = pv_ids \ gone
           /\ lost' = lost \cup ((gone \cap held)
                                   \ NamesOf(Tail(notify), "subscribe"))
    /\ notify' = Tail(notify)
    /\ UNCHANGED << db, stamps, discover, redis, listener, main,
                    name_servers, failed_pvs, edits, faults >>

\* How hot_add_ioc of an added address may go: the server may refuse the
\* connection, the query of pv_config before it or the registration in
\* pv_lookup after it may fail.
Hot == {"ok", "refused", "blind", "mute"}

\* Removed addresses lose their sessions; an added one is searched for the
\* PVs that failed and the configured ones that are not subscribed.  A query
\* of ioc_config that fails reads as an empty table: every address goes.
HandleIocChange ==
    /\ main = "running"
    /\ notify # << >> /\ Head(notify).cmd = "ioc_change"
    /\ notify' = Tail(notify)
    /\ \E addrs \in {ioc_config, {}} :
       LET added == addrs \ name_servers
           dropped == { p \in Subscribed : pv_server_cache[p] \notin addrs }
       IN  \E how \in [added -> Hot] :
           LET found(i) ==
                   { p \in Serves[i] :
                       /\ how[i] # "refused"
                       /\ \/ p \in failed_pvs \cup dropped
                          \/ how[i] # "blind" /\ p \in Enabled \ Subscribed }
               recovered == UNION { found(i) : i \in added }
               reg == UNION { found(i) : i \in { k \in added :
                                                    how[k] # "mute" } }
               whole == recovered \cap (pv_ids \cup reg)
           IN  /\ name_servers' = addrs
               /\ pv_server_cache' = [p \in PVs |->
                      IF p \in recovered
                      THEN CHOOSE i \in added : p \in found(i)
                      ELSE IF p \in dropped THEN None
                      ELSE pv_server_cache[p]]
               /\ failed_pvs' = (failed_pvs \cup dropped) \ recovered
               /\ pv_ids' = pv_ids \cup reg
               /\ lost' = (lost \cup dropped \cup (recovered \ whole))
                              \ (whole \ OnItsWay("unsubscribe"))
               /\ IF addrs = ioc_config /\ \A i \in added : how[i] = "ok"
                  THEN UNCHANGED faults ELSE Fault
    /\ UNCHANGED << db, stamps, discover, redis, listener, main, edits >>

-----------------------------------------------------------------------------
Operator ==
    \/ \E p \in PVs, on \in BOOLEAN : Insert(p, on) \/ SetEnabled(p, on)
    \/ \E p \in PVs : UpdateHeartbeat(p) \/ Delete(p)
    \/ \E i \in IOCs : EditIoc(i)

Orchestrator == BootLoad \/ BootReconcile \/ CycleQuery \/ CycleAdvance
                    \/ CycleReconcile \/ Flush

Main ==
    \/ MainListen \/ MainStartup
    \/ \E n \in 1 .. Len(redis) : HandleRedis(n)
    \/ \E n \in 1 .. Len(notify) : HandleNotifyAdd(n)
    \/ HandleNotifyDel \/ HandleIocChange

Next == Operator \/ Orchestrator \/ QueryFails \/ FlushFails
            \/ Listen \/ ListenerFails \/ Main

(***************************************************************************)
(* Fairness: the orchestrator is a task driven by an interval timer, the   *)
(* main loop a select! that is always polled; an operator edits at will.   *)
(***************************************************************************)
Spec == Init /\ [][Next]_vars /\ WF_vars(Orchestrator) /\ WF_vars(Main)

-----------------------------------------------------------------------------
(* Types: what the tables, the orchestrator's cache and batch and the       *)
(* archiver's command queue may hold.                                      *)
TypeOK ==
    /\ config \in [PVs -> {"absent", "off", "on"}]
    /\ beat \in [PVs -> 0 .. 1]
    /\ ioc_config \subseteq IOCs /\ name_servers \subseteq IOCs
    /\ updated \subseteq PVs /\ expected \subseteq PVs
    /\ orch.phase \in {"boot", "boot_loaded", "idle", "polled", "fetch",
                       "flush", "dead"}
    /\ orch.rows \subseteq PVs
    /\ DOMAIN known \subseteq PVs /\ resolved \subseteq PVs
    /\ pending \subseteq PVs
    /\ commands \in Seq(Command) /\ redis \in Seq(Command)
    /\ notify \in Seq(Command)
    /\ listener \in {"connecting", "on", "broken", "deaf", "gone"}
    /\ main \in {"start", "listening", "running"}
    /\ pv_server_cache \in [PVs -> IOCs \cup {None}]
    /\ failed_pvs \subseteq PVs /\ pv_ids \subseteq PVs /\ lost \subseteq PVs

(***************************************************************************)
(* The poller and the reconciler are updated by different calls of a cycle *)
(* that can fail between them.  Whenever the orchestrator waits or has     *)
(* ended, what it resolved is what it knows and nothing is left pending:   *)
(* otherwise a PV is known and never subscribed, because diff reports it   *)
(* only once.                                                              *)
(***************************************************************************)
BooksAgree ==
    orch.phase \notin {"boot", "boot_loaded"} =>
        resolved = DOMAIN known /\ pending = {}

\* Nothing is on its way any more: only a new edit can start something.
Quiet == /\ main = "running" /\ redis = << >> /\ notify = << >>
         /\ orch.phase = "dead" \/ (orch.phase = "idle" /\ updated = {})

(***************************************************************************)
(* Once everything has settled an enabled PV is subscribed and its id is   *)
(* resolvable, whatever poll, NOTIFY and Redis commands crossed on the     *)
(* way, also when the orchestrator has ended, unless it is in lost: its    *)
(* last change fell between a poll's query and last_poll = now, or into a  *)
(* cycle that failed after moving last_poll, or the orchestrator ended     *)
(* before polling it; its subscribe was in the batch Redis did not take;   *)
(* its NOTIFY was lost while the poller still knew the deleted row; a      *)
(* delete was read after the PV was inserted again, or the PV was off; a   *)
(* subscribe was drained together with an earlier unsubscribe; its IOC was *)
(* removed, or the query of ioc_config failed; or the search or the        *)
(* registration failed, also when an IOC was added.  These are all the     *)
(* ways.                                                                   *)
(***************************************************************************)
EnabledIsArchived ==
    Quiet => \A p \in Enabled : Archived(p) \/ p \in lost

(***************************************************************************)
(* The same as progress: an enabled PV is eventually archived, paused      *)
(* again, or lost in one of those ways.                                    *)
(***************************************************************************)
EnabledGetsArchived ==
    \A p \in PVs :
        (p \in Enabled) ~> (Archived(p) \/ p \in lost \/ p \notin Enabled)

=============================================================================
