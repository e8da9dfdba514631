------------------------------- MODULE Driver -------------------------------
(***************************************************************************)
(* The PVA driver (aura-net/runtime/driver.rs) with the event-loop tasks   *)
(* it spawns (spawn_event_loop), the part of a session those tasks own     *)
(* (runtime/session.rs: channels, monitors, the command channel), and the  *)
(* branches of the main loop (main.rs) that call the driver.               *)
(*                                                                         *)
(* The main loop is one task: it owns the driver's tables and runs one     *)
(* driver call at a time, but every call awaits, and while it does the     *)
(* event loops keep running: they lose connections, reconnect, answer      *)
(* commands late.  An event loop is a record of the sequence loops; its    *)
(* position is never reused, so it stands for the task, its cancellation   *)
(* token and, with the session number sess, for one command channel.       *)
(*                                                                         *)
(* The names in a Vec<String> matter only as a set: every batch goes       *)
(* through a HashMap keyed by name before it reaches a session.            *)
(***************************************************************************)
EXTENDS Naturals, Sequences, FiniteSets

CONSTANTS
    PVs,            \* process variable names
    IOCs,           \* server addresses
    None,           \* an absent map entry
    Serves,         \* Serves[i]: the PVs that IOC i hosts
    CmdCap,         \* capacity of a session's command channel (256)
    ReconnectCap,   \* capacity of the reconnect channel (64)
    LifecycleCap,   \* capacity of the lifecycle channel (256)
    MaxLoops,       \* bound: event-loop tasks ever spawned
    MaxSessions,    \* bound: TCP sessions one event loop goes through
    MaxOps          \* bound: driver calls made by the main loop

LoopId == 1 .. MaxLoops
Sender == LoopId \X (1 .. MaxSessions)

ASSUME DriverAssumption ==
    /\ None \notin IOCs /\ None \notin LoopId
    /\ \A tx \in Sender : tx # None
    /\ \A pvs \in SUBSET PVs : pvs # None
    /\ Serves \in [IOCs -> SUBSET PVs]
    /\ CmdCap \in Nat \ {0} /\ ReconnectCap \in Nat \ {0}
    /\ LifecycleCap \in Nat \ {0}
    /\ MaxLoops \in Nat /\ MaxSessions \in Nat \ {0} /\ MaxOps \in Nat

VARIABLES
    name_servers,       \* the configured IOC addresses
    pv_server_cache,    \* PV -> the IOC it is subscribed on
    failed_pvs,         \* PVs the last search did not find
    session_commands,   \* IOC -> sender of a command channel, <<loop, sess>>
    ioc_pvs,            \* IOC -> PVs tracked for reconnect
    cancel_tokens,      \* IOC -> the loop whose token is held
    loops,              \* the event-loop tasks, in spawn order
    reconnect_rx,       \* queued (addr, new_cmd_tx) notifications
    lifecycle_rx,       \* queued lifecycle events
    main,               \* the driver call in progress in the main loop
    ops,                \* driver calls made so far
    home                \* history: the session that accepted each cached PV

tables == << name_servers, pv_server_cache, failed_pvs, session_commands,
             ioc_pvs, cancel_tokens, home >>
vars == << tables, loops, reconnect_rx, lifecycle_rx, main, ops >>

(***************************************************************************)
(* Types.  mons counts the MonitorEntries a session holds for a PV (a      *)
(* second subscribe of the same PV adds a second one); live are the PVs    *)
(* with an active channel entry, dead those with an entry that is still    *)
(* Creating or Closed.  restored (history) are the PVs the reconnect that  *)
(* opened the session got back; from (history) the session that answered.  *)
(***************************************************************************)
SessionCommand ==
    [op : {"add"}, pvs : SUBSET PVs, req : Nat]
        \cup [op : {"remove"}, pv : PVs] \cup [op : {"shutdown"}]

LoopPc == {"run", "backoff", "connect", "announce", "done"}

EventLoop ==
    [ioc : IOCs, reconnect_pvs : SUBSET PVs, token : {"live", "cancelled"},
     pc : LoopPc, sess : 1 .. MaxSessions, cmds : Seq(SessionCommand),
     mons : [PVs -> Nat], live : SUBSET PVs, dead : SUBSET PVs,
     restored : SUBSET PVs]

IsCancelled(l) == l.token = "cancelled"

LifecycleEvent ==
    [kind : {"Connected", "Disconnected", "Reconnected"}, addr : IOCs]

MainPc == {"idle", "add", "wait", "reply", "hotadd",
           "closing", "exit"}

Call == [pc : MainPc, found : [PVs -> IOCs \cup {None}],
         existing : SUBSET IOCs, fresh : SUBSET IOCs,
         at : IOCs \cup {None}, ok : SUBSET PVs, all_ok : SUBSET PVs,
         from : Sender \cup {None}]

NoFind == [p \in PVs |-> None]

Idle == [pc |-> "idle", found |-> NoFind, existing |-> {}, fresh |-> {},
         at |-> None, ok |-> {}, all_ok |-> {}, from |-> None]

Init ==
    /\ name_servers = IOCs
    /\ pv_server_cache = [p \in PVs |-> None]
    /\ failed_pvs = {}
    /\ session_commands = [i \in IOCs |-> None]
    /\ ioc_pvs = [i \in IOCs |-> None]
    /\ cancel_tokens = [i \in IOCs |-> None]
    /\ loops = << >>
    /\ reconnect_rx = << >>
    /\ lifecycle_rx = << >>
    /\ main = Idle
    /\ ops = 0
    /\ home = [p \in PVs |-> None]

-----------------------------------------------------------------------------
(***************************************************************************)
(* Channels and sessions.                                                  *)
(***************************************************************************)

(* The receiver of a command channel is dropped when its session ends, so  *)
(* a send fails unless the loop still runs that session.                   *)
Open(tx) == loops[tx[1]].pc = "run" /\ loops[tx[1]].sess = tx[2]

HasRoom(tx) == Len(loops[tx[1]].cmds) < CmdCap

(* A send with .await completes when there is room, or fails at once.      *)
CanSend(tx) == Open(tx) => HasRoom(tx)

Deliver(ls, tx, cmd) ==
    IF Open(tx) THEN [ls EXCEPT ![tx[1]].cmds = Append(@, cmd)] ELSE ls

(* try_send: a full channel drops the event.                               *)
TrySend(queue, event) ==
    IF Len(queue) < LifecycleCap THEN Append(queue, event) ELSE queue

(* add_monitors_bulk.  Phase 1 sends every CREATE_CHANNEL and reads        *)
(* answers until a deadline or an error: the PVs answered with success     *)
(* have an active channel; the entry of a rejected or unanswered one stays *)
(* behind, Closed or Creating.                                             *)
CreateChannels(i, pvs) == SUBSET (pvs \cap Serves[i])

(* Phase 2 does the same with MONITOR INIT, and phase 2b sends it again to *)
(* the PVs that did not answer the first one.                              *)
InitMonitors(live) == SUBSET live

RetryInit(live, first) == { first \cup late : late \in SUBSET (live \ first) }

(* Phase 3 starts the monitors whose INIT was answered, and these are the  *)
(* Ok results; the monitor of the others is removed, their channel stays.  *)
Bulk(i, pvs) ==
    UNION { UNION { [ok : RetryInit(live, first), live : {live}] :
                    first \in InitMonitors(live) } :
            live \in CreateChannels(i, pvs) }

Adopt(l, pvs, b) ==
    [l EXCEPT !.mons = [p \in PVs |-> @[p] + (IF p \in b.ok THEN 1 ELSE 0)],
              !.live = @ \cup b.live,
              !.dead = @ \cup (pvs \ b.live)]

NoSession(l) == [l EXCEPT !.cmds = << >>, !.mons = [p \in PVs |-> 0],
                          !.live = {}, !.dead = {}, !.restored = {}]

Cached(cache, pvs, i) == [p \in PVs |-> IF p \in pvs THEN i ELSE cache[p]]

(* Mutant: the token map is filled with entry().or_insert().               *)
SpawnKeepsToken(i, tracked, pvs, b) ==
    LET new == [ioc |-> i, reconnect_pvs |-> tracked, token |-> "live",
                pc |-> "run", sess |-> 1, cmds |-> << >>,
                mons |-> [p \in PVs |-> 0], live |-> {}, dead |-> {},
                restored |-> {}]
        id == Len(loops) + 1
    IN  /\ id <= MaxLoops
        /\ loops' = Append(loops, Adopt(new, pvs, b))
        /\ session_commands' = [session_commands EXCEPT ![i] = << id, 1 >>]
        /\ cancel_tokens' = [cancel_tokens EXCEPT ![i] =
                                IF @ = None THEN id ELSE @]
        /\ home' = Cached(home, b.ok, << id, 1 >>)

(* spawn_event_loop: a new command channel and a new token replace the     *)
(* IOC's entries; the old token is dropped without being cancelled.  The   *)
(* PVs to restore on reconnect are copied now.                             *)
Spawn(i, tracked, pvs, b) ==
    LET new == [ioc |-> i, reconnect_pvs |-> tracked, token |-> "live",
                  pc |-> "run", sess |-> 1, cmds |-> << >>,
                  mons |-> [p \in PVs |-> 0], live |-> {}, dead |-> {},
                restored |-> {}]
        id == Len(loops) + 1
    IN  /\ id <= MaxLoops
        /\ loops' = Append(loops, Adopt(new, pvs, b))
        /\ session_commands' = [session_commands EXCEPT ![i] = << id, 1 >>]
        /\ cancel_tokens' = [cancel_tokens EXCEPT ![i] = id]
        /\ home' = Cached(home, b.ok, << id, 1 >>)

-----------------------------------------------------------------------------
(***************************************************************************)
(* monitor_batch, one step per await.                                      *)
(***************************************************************************)

FoundAt(i) == { p \in PVs : main.found[p] = i }

(* The two-round TCP search finds each PV on at most one configured IOC    *)
(* that answers; an IOC that refuses the connection or answers too late    *)
(* finds nothing (every connect below may fail the same way).  failed_pvs  *)
(* is replaced by what this batch did not find.  The Redis branch of the   *)
(* main loop does not filter Subscribe messages, so names may be PVs that  *)
(* are already subscribed.                                                 *)
SearchResults(names) ==
    { f \in [PVs -> IOCs \cup {None}] :
        \A p \in PVs : f[p] # None =>
            /\ p \in names
            /\ f[p] \in name_servers
            /\ p \in Serves[f[p]] }

MonitorBatch(names) ==
    /\ main.pc = "idle" /\ ops < MaxOps
    /\ names # {} /\ name_servers # {}
    /\ \E found \in SearchResults(names) :
        LET hosts == { i \in IOCs : \E p \in PVs : found[p] = i }
            known == { i \in hosts : session_commands[i] # None }
        IN  /\ failed_pvs' = { p \in names : found[p] = None }
            /\ main' = [Idle EXCEPT !.pc = "add", !.found = found,
                                    !.existing = known,
                                    !.fresh = hosts \ known]
    /\ ops' = ops + 1
    /\ UNCHANGED << name_servers, pv_server_cache, session_commands, ioc_pvs,
                    cancel_tokens, home, loops, reconnect_rx, lifecycle_rx >>

(* AddMonitorBatch to the session of a known IOC; a closed channel sends   *)
(* the IOC to the fresh sessions.                                          *)
SendAddBatch(i) ==
    /\ main.pc = "add" /\ i \in main.existing
    /\ LET tx == session_commands[i]
       IN  /\ CanSend(tx)
           /\ loops' = Deliver(loops, tx, [op |-> "add", pvs |-> FoundAt(i),
                                           req |-> ops])
           /\ main' = [main EXCEPT
                        !.existing = @ \ {i},
                        !.fresh = IF Open(tx) THEN @ ELSE @ \cup {i},
                        !.pc = IF Open(tx) THEN "wait" ELSE @,
                        !.at = IF Open(tx) THEN i ELSE @]
    /\ UNCHANGED << tables, reconnect_rx, lifecycle_rx, ops >>

(* Mutant: every PV of the command is cached, not only the accepted ones.  *)
BatchReplyCachesAll ==
    /\ main.pc = "reply"
    /\ LET i == main.at
           cache == Cached(pv_server_cache, FoundAt(i), i)
       IN  /\ pv_server_cache' = cache
           /\ ioc_pvs' =
                [ioc_pvs EXCEPT ![i] =
                    IF @ = None THEN None
                    ELSE @ \cup { p \in FoundAt(i) : cache[p] # None }]
    /\ home' = Cached(home, FoundAt(main.at), main.from)
    /\ main' = [main EXCEPT !.pc = "add", !.at = None, !.ok = {},
                            !.all_ok = @ \cup main.ok, !.from = None]
    /\ UNCHANGED << name_servers, failed_pvs, session_commands, cancel_tokens,
                    loops, reconnect_rx, lifecycle_rx, ops >>

(* The reply came in time.                                                 *)
BatchReply ==
    /\ main.pc = "reply"
    /\ LET i == main.at
           cache == Cached(pv_server_cache, main.ok, i)
       IN  /\ pv_server_cache' = cache
           /\ ioc_pvs' =
                [ioc_pvs EXCEPT ![i] =
                    IF @ = None THEN None
                    ELSE @ \cup { p \in FoundAt(i) : cache[p] # None }]
    /\ home' = Cached(home, main.ok, main.from)
    /\ main' = [main EXCEPT !.pc = "add", !.at = None, !.ok = {},
                            !.all_ok = @ \cup main.ok, !.from = None]
    /\ UNCHANGED << name_servers, failed_pvs, session_commands, cancel_tokens,
                    loops, reconnect_rx, lifecycle_rx, ops >>

(* No reply within 30 s + , or the session died with the command queued:   *)
(* fall back to a fresh session.  The command is not taken back.           *)
BatchGiveUp ==
    /\ main.pc = "wait"
    /\ main' = [main EXCEPT !.pc = "add", !.at = None,
                            !.fresh = @ \cup {main.at}]
    /\ UNCHANGED << tables, loops, reconnect_rx, lifecycle_rx, ops >>

(* A fresh session: connect, subscribe, and spawn its loop when anything   *)
(* was accepted.                                                           *)
FreshSession(i) ==
    /\ main.pc = "add" /\ main.existing = {} /\ i \in main.fresh
    /\ \E b \in Bulk(i, FoundAt(i)) :
        IF b.ok = {}
        THEN /\ main' = [main EXCEPT !.fresh = @ \ {i}]
             /\ UNCHANGED << pv_server_cache, ioc_pvs, session_commands,
                             cancel_tokens, home, loops >>
        ELSE /\ pv_server_cache' = Cached(pv_server_cache, b.ok, i)
             /\ ioc_pvs' = [ioc_pvs EXCEPT ![i] = FoundAt(i)]
             /\ Spawn(i, FoundAt(i), FoundAt(i), b)
             /\ main' = [main EXCEPT !.fresh = @ \ {i},
                                     !.all_ok = @ \cup b.ok]
    /\ UNCHANGED << name_servers, failed_pvs, reconnect_rx, lifecycle_rx, ops >>

(* One Connected event per IOC that accepted something, then return.       *)
AnnounceConnected(i) ==
    LET pvs == { p \in main.all_ok : pv_server_cache[p] = i }
    IN  /\ main.pc = "add" /\ main.existing = {} /\ main.fresh = {}
        /\ pvs # {}
        /\ lifecycle_rx' = TrySend(lifecycle_rx,
                [kind |-> "Connected", addr |-> i])
        /\ main' = [main EXCEPT !.all_ok = @ \ pvs]
        /\ UNCHANGED << tables, loops, reconnect_rx, ops >>

BatchReturn ==
    /\ main.pc = "add" /\ main.existing = {} /\ main.fresh = {}
    /\ main.all_ok = {}
    /\ main' = Idle
    /\ UNCHANGED << tables, loops, reconnect_rx, lifecycle_rx, ops >>

-----------------------------------------------------------------------------
(***************************************************************************)
(* The other driver calls.                                                 *)
(***************************************************************************)

(* unsubscribe of one PV; a batch is a sequence of these.                  *)
Unsubscribe(p) ==
    LET i == pv_server_cache[p]
    IN  /\ main.pc = "idle" /\ ops < MaxOps
        /\ i # None
        /\ session_commands[i] # None => CanSend(session_commands[i])
        /\ pv_server_cache' = [pv_server_cache EXCEPT ![p] = None]
        /\ loops' = IF session_commands[i] = None THEN loops
                    ELSE Deliver(loops, session_commands[i],
                                 [op |-> "remove", pv |-> p])
        /\ ioc_pvs' = [ioc_pvs EXCEPT ![i] = IF @ = None THEN None
                                             ELSE @ \ {p}]
        /\ home' = [home EXCEPT ![p] = None]
        /\ ops' = ops + 1
        /\ UNCHANGED << name_servers, failed_pvs, session_commands,
                        cancel_tokens, reconnect_rx, lifecycle_rx, main >>

(* remove_session for every removed address, in one synchronous stretch.   *)
Cancelled(ls, ids) ==
    [k \in DOMAIN ls |-> IF k \in ids THEN [ls[k] EXCEPT !.token = "cancelled"]
                         ELSE ls[k]]

(* Mutant: remove_session leaves the cache entries of the IOC behind.      *)
RemoveKeepsCache(gone) ==
    /\ loops' = Cancelled(loops, { cancel_tokens[i] : i \in gone } \ {None})
    /\ cancel_tokens' = [i \in IOCs |-> IF i \in gone THEN None
                                        ELSE cancel_tokens[i]]
    /\ failed_pvs' = failed_pvs \cup
            UNION { ioc_pvs[i] : i \in { j \in gone : ioc_pvs[j] # None } }
    /\ ioc_pvs' = [i \in IOCs |-> IF i \in gone THEN None ELSE ioc_pvs[i]]
    /\ session_commands' = [i \in IOCs |-> IF i \in gone THEN None
                                           ELSE session_commands[i]]
    /\ UNCHANGED << pv_server_cache, home >>

RemoveSessions(gone) ==
    /\ loops' = Cancelled(loops, { cancel_tokens[i] : i \in gone } \ {None})
    /\ cancel_tokens' = [i \in IOCs |-> IF i \in gone THEN None
                                        ELSE cancel_tokens[i]]
    /\ failed_pvs' = failed_pvs \cup
            UNION { ioc_pvs[i] : i \in { j \in gone : ioc_pvs[j] # None } }
    /\ ioc_pvs' = [i \in IOCs |-> IF i \in gone THEN None ELSE ioc_pvs[i]]
    /\ session_commands' = [i \in IOCs |-> IF i \in gone THEN None
                                           ELSE session_commands[i]]
    /\ pv_server_cache' = [p \in PVs |-> IF pv_server_cache[p] \in gone
                                         THEN None ELSE pv_server_cache[p]]
    /\ home' = [p \in PVs |-> IF pv_server_cache[p] \in gone
                              THEN None ELSE home[p]]

(* The ioc_change notification: the enabled rows of ioc_config are now     *)
(* addrs.                                                                  *)
IocChange(addrs) ==
    /\ main.pc = "idle" /\ ops < MaxOps
    /\ addrs # name_servers
    /\ name_servers' = addrs
    /\ RemoveSessions(name_servers \ addrs)
    /\ main' = IF addrs \ name_servers = {} THEN Idle
               ELSE [Idle EXCEPT !.pc = "hotadd",
                                 !.fresh = addrs \ name_servers]
    /\ ops' = ops + 1
    /\ UNCHANGED << reconnect_rx, lifecycle_rx >>

(* hot_add_ioc: search the failed PVs and the configured ones that are not *)
(* subscribed, on the new IOC only.  configured is what the SELECT on      *)
(* pv_config returned.                                                     *)
HotAddIoc(i, configured) ==
    /\ main.pc = "hotadd" /\ i \in main.fresh
    /\ main' = IF main.fresh = {i} THEN Idle
               ELSE [main EXCEPT !.fresh = @ \ {i}]
    /\ LET search == failed_pvs \cup
                       { p \in configured : pv_server_cache[p] = None }
       IN \E found \in SUBSET (search \cap Serves[i]) :
          \E b \in Bulk(i, found) :
            IF b.ok = {}
            THEN UNCHANGED << pv_server_cache, failed_pvs, ioc_pvs,
                              session_commands, cancel_tokens, home, loops >>
            ELSE /\ pv_server_cache' = Cached(pv_server_cache, b.ok, i)
                 /\ failed_pvs' = failed_pvs \ b.ok
                 /\ ioc_pvs' = [ioc_pvs EXCEPT ![i] = found]
                 /\ Spawn(i, found, found, b)
    /\ UNCHANGED << name_servers, reconnect_rx, lifecycle_rx, ops >>

(* A loop has reconnected: its new command channel becomes the IOC's.      *)
ReconnectRecv ==
    /\ main.pc = "idle" /\ reconnect_rx # << >>
    /\ session_commands' = [session_commands EXCEPT
                                ![Head(reconnect_rx).addr] =
                                    Head(reconnect_rx).tx]
    /\ reconnect_rx' = Tail(reconnect_rx)
    /\ UNCHANGED << name_servers, pv_server_cache, failed_pvs, ioc_pvs,
                    cancel_tokens, home, loops, lifecycle_rx, main, ops >>

(* handle_connect / handle_disconnect / handle_reconnect write the         *)
(* database only; the driver sees the event leave its queue.               *)
LifecycleRecv ==
    /\ main.pc = "idle" /\ lifecycle_rx # << >>
    /\ lifecycle_rx' = Tail(lifecycle_rx)
    /\ UNCHANGED << tables, loops, reconnect_rx, main, ops >>

(* SIGINT or SIGTERM: shutdown_sessions sends Shutdown on every channel,   *)
(* then cancels every token it holds, and the main loop never comes back.  *)
SendShutdown ==
    /\ main.pc = "idle"
    /\ LET txs == { session_commands[i] : i \in IOCs } \ {None}
       IN  /\ \A tx \in txs : CanSend(tx)
           /\ loops' = [k \in DOMAIN loops |->
                IF \E tx \in txs : tx[1] = k /\ Open(tx)
                THEN [loops[k] EXCEPT !.cmds = Append(@, [op |-> "shutdown"])]
                ELSE loops[k]]
    /\ main' = [main EXCEPT !.pc = "closing"]
    /\ UNCHANGED << tables, reconnect_rx, lifecycle_rx, ops >>

CancelAll ==
    /\ main.pc = "closing"
    /\ loops' = Cancelled(loops, { cancel_tokens[i] : i \in IOCs } \ {None})
    /\ main' = [main EXCEPT !.pc = "exit"]
    /\ UNCHANGED << tables, reconnect_rx, lifecycle_rx, ops >>

-----------------------------------------------------------------------------
(***************************************************************************)
(* The event-loop task k.                                                  *)
(***************************************************************************)

(* AddMonitorBatch.  The reply reaches the main loop only while that call  *)
(* still waits for it.                                                     *)
LoopAdd(k) ==
    LET l == loops[k]
        cmd == Head(l.cmds)
    IN  /\ l.pc = "run" /\ l.cmds # << >> /\ cmd.op = "add"
        /\ \E b \in Bulk(l.ioc, cmd.pvs) :
            /\ loops' = [loops EXCEPT
                            ![k] = [Adopt(l, cmd.pvs, b) EXCEPT
                                        !.cmds = Tail(@)]]
            /\ main' = IF main.pc = "wait" /\ main.at = l.ioc
                                           /\ cmd.req = ops
                       THEN [main EXCEPT !.pc = "reply", !.ok = b.ok,
                                         !.from = << k, l.sess >>]
                       ELSE main
        /\ UNCHANGED << tables, reconnect_rx, lifecycle_rx, ops >>

(* RemoveMonitor: the first channel entry of that name decides (hash       *)
(* order); if it is not active nothing happens.  Otherwise one monitor is  *)
(* stopped and every entry of the name goes.                               *)
LoopRemove(k) ==
    LET l == loops[k]
        p == Head(l.cmds).pv
        next == [l EXCEPT !.cmds = Tail(@)]
    IN  /\ l.pc = "run" /\ l.cmds # << >> /\ Head(l.cmds).op = "remove"
        /\ \/ /\ p \notin l.live \/ p \in l.dead
              /\ loops' = [loops EXCEPT ![k] = next]
           \/ /\ p \in l.live
              /\ loops' = [loops EXCEPT ![k] =
                    [next EXCEPT !.mons[p] = IF @ > 0 THEN @ - 1 ELSE 0,
                                 !.live = @ \ {p}, !.dead = @ \ {p}]]
        /\ UNCHANGED << tables, reconnect_rx, lifecycle_rx, main, ops >>

(* The session ends: the Disconnected event, then the token decides        *)
(* between returning and the reconnect loop.                               *)
EndSession(k) ==
    LET l == loops[k]
    IN  /\ loops' = [loops EXCEPT ![k] =
              [NoSession(l) EXCEPT
                  !.pc = IF l.reconnect_pvs = {} \/ IsCancelled(l) THEN "done"
                         ELSE "backoff"]]
        /\ lifecycle_rx' =
              IF l.reconnect_pvs = {} THEN lifecycle_rx
              ELSE TrySend(lifecycle_rx, [kind |-> "Disconnected",
                                          addr |-> l.ioc])
        /\ UNCHANGED << tables, reconnect_rx, main, ops >>

LoopShutdown(k) ==
    /\ loops[k].pc = "run" /\ loops[k].cmds # << >>
    /\ Head(loops[k].cmds).op = "shutdown"
    /\ EndSession(k)

LoopDisconnect(k) ==
    /\ loops[k].pc = "run"
    /\ loops[k].sess < MaxSessions
    /\ EndSession(k)

SetPc(k, pc) == loops' = [loops EXCEPT ![k].pc = pc]

LoopCancelled(k) ==
    /\ loops[k].pc = "backoff" /\ IsCancelled(loops[k])
    /\ SetPc(k, "done")
    /\ UNCHANGED << tables, reconnect_rx, lifecycle_rx, main, ops >>

(* The backoff has elapsed; the select! is not biased, so this branch may  *)
(* be taken when the token is cancelled too.                               *)
LoopWake(k) ==
    /\ loops[k].pc = "backoff"
    /\ SetPc(k, "connect")
    /\ UNCHANGED << tables, reconnect_rx, lifecycle_rx, main, ops >>

(* Mutant: the top of the reconnect loop does not test the token.          *)
LoopRetryUntested(k) ==
    /\ loops[k].pc = "connect"
    /\ SetPc(k, "backoff")
    /\ UNCHANGED << tables, reconnect_rx, lifecycle_rx, main, ops >>

(* No connection, or no PV accepted: back to the top of the loop, where    *)
(* the token is tested.                                                    *)
LoopRetry(k) ==
    /\ loops[k].pc = "connect"
    /\ SetPc(k, IF IsCancelled(loops[k]) THEN "done" ELSE "backoff")
    /\ UNCHANGED << tables, reconnect_rx, lifecycle_rx, main, ops >>

(* Connected and at least one PV of the copy made at spawn accepted.  The  *)
(* token is not tested between the connect and the new event loop.         *)
LoopReconnect(k) ==
    LET l == loops[k]
    IN  /\ l.pc = "connect" /\ l.sess < MaxSessions
        /\ \E b \in Bulk(l.ioc, l.reconnect_pvs) :
            /\ b.ok # {}
            /\ loops' = [loops EXCEPT ![k] =
                  [Adopt(l, l.reconnect_pvs, b) EXCEPT !.pc = "announce",
                                                       !.sess = @ + 1,
                                                       !.restored = b.ok]]
        /\ lifecycle_rx' = TrySend(lifecycle_rx,
              [kind |-> "Reconnected", addr |-> l.ioc])
        /\ UNCHANGED << tables, reconnect_rx, main, ops >>

(* reconnect_tx.send(..).await, then the event loop on the new channel.    *)
(* After the main loop has left, its receiver still exists but is never    *)
(* read.                                                                   *)
LoopAnnounce(k) ==
    LET l == loops[k]
    IN  /\ l.pc = "announce"
        /\ Len(reconnect_rx) < ReconnectCap
        /\ reconnect_rx' = Append(reconnect_rx,
                             [addr |-> l.ioc, tx |-> << k, l.sess >>])
        /\ SetPc(k, "run")
        /\ UNCHANGED << tables, lifecycle_rx, main, ops >>

-----------------------------------------------------------------------------
LoopStep(k) ==
    \/ LoopAdd(k) \/ LoopRemove(k) \/ LoopShutdown(k) \/ LoopDisconnect(k)
    \/ LoopCancelled(k) \/ LoopWake(k) \/ LoopRetry(k) \/ LoopReconnect(k)
    \/ LoopAnnounce(k)

MainStep ==
    \/ \E names \in SUBSET PVs : MonitorBatch(names)
    \/ \E i \in IOCs : SendAddBatch(i) \/ FreshSession(i)
                       \/ AnnounceConnected(i)
    \/ BatchReply \/ BatchGiveUp \/ BatchReturn
    \/ \E p \in PVs : Unsubscribe(p)
    \/ \E addrs \in SUBSET IOCs : IocChange(addrs)
    \/ \E i \in IOCs, configured \in SUBSET PVs : HotAddIoc(i, configured)
    \/ ReconnectRecv \/ LifecycleRecv \/ SendShutdown \/ CancelAll

Next ==
    \/ MainStep
    \/ \E k \in DOMAIN loops : LoopStep(k)

Spec == Init /\ [][Next]_vars

-----------------------------------------------------------------------------
(* Every table, task and queue keeps its shape, and the queues keep their  *)
(* capacities.                                                             *)
TypeOK ==
    /\ name_servers \subseteq IOCs
    /\ pv_server_cache \in [PVs -> IOCs \cup {None}]
    /\ failed_pvs \subseteq PVs
    /\ session_commands \in [IOCs -> Sender \cup {None}]
    /\ ioc_pvs \in [IOCs -> (SUBSET PVs) \cup {None}]
    /\ cancel_tokens \in [IOCs -> LoopId \cup {None}]
    /\ loops \in Seq(EventLoop) /\ Len(loops) <= MaxLoops
    /\ \A k \in DOMAIN loops : Len(loops[k].cmds) <= CmdCap
    /\ reconnect_rx \in Seq([addr : IOCs, tx : Sender])
    /\ Len(reconnect_rx) <= ReconnectCap
    /\ lifecycle_rx \in Seq(LifecycleEvent)
    /\ Len(lifecycle_rx) <= LifecycleCap
    /\ main \in Call
    /\ ops \in 0 .. MaxOps
    /\ home \in [PVs -> Sender \cup {None}]

(* Whatever IOC the cache says a PV is on, the driver has a command        *)
(* channel for that IOC, so unsubscribe can always route; and the channel  *)
(* is one of that IOC's own event loops, through every late reconnect      *)
(* notification and every removal.                                         *)
Routable ==
    /\ \A p \in PVs : pv_server_cache[p] # None =>
            session_commands[pv_server_cache[p]] # None
    /\ \A i \in IOCs : session_commands[i] # None =>
            /\ session_commands[i][1] \in DOMAIN loops
            /\ loops[session_commands[i][1]].ioc = i

(* The token the driver holds for an IOC is the one of the loop spawned    *)
(* last for it, that loop has not been cancelled, and a token is held      *)
(* exactly while the IOC's PVs are tracked: remove_session can therefore   *)
(* always cancel the newest loop.                                          *)
TokenIsNewest ==
    \A i \in IOCs :
        /\ cancel_tokens[i] = None <=> ioc_pvs[i] = None
        /\ cancel_tokens[i] # None =>
            /\ cancel_tokens[i] \in DOMAIN loops
            /\ loops[cancel_tokens[i]].ioc = i
            /\ main.pc # "exit" => ~IsCancelled(loops[cancel_tokens[i]])
            /\ \A k \in DOMAIN loops :
                    loops[k].ioc = i => k <= cancel_tokens[i]

(* A PV the driver believes subscribed is monitored by the session that    *)
(* accepted it for as long as that session lasts, and by each later        *)
(* session of the same loop whose reconnect got it back: neither the order *)
(* of commands, late replies and notifications, fallback sessions, nor     *)
(* removals leave a cached PV without a monitor; only the end of the very  *)
(* connection that carried it does.  A reconnect gets back at most the     *)
(* copy made when its loop was spawned, so a PV that joined the loop later *)
(* is lost with the connection.                                            *)
SubscribedHasHome ==
    \A p \in PVs : pv_server_cache[p] # None =>
        LET k == home[p][1]
            s == home[p][2]
        IN  /\ k \in DOMAIN loops
            /\ loops[k].ioc = pv_server_cache[p] /\ s <= loops[k].sess
            /\ /\ loops[k].pc = "run"
               /\ loops[k].sess = s \/ p \in loops[k].restored
               => loops[k].mons[p] > 0

(* How far a loop is from its end if it never waits again.                 *)
Rank(pc) == CASE pc = "backoff" -> 4 [] pc = "connect" -> 3
              [] pc = "announce" -> 2 [] pc = "run" -> 1 [] pc = "done" -> 0

(* A cancelled loop can still make the connection attempt it waits for or  *)
(* is in, and run that session: select! may take the sleep that is over    *)
(* although the token is cancelled.  But it never goes back to waiting, so *)
(* it opens at most one more connection (spawn_event_loop).                *)
CancelledNeverRetries ==
    [][\A k \in DOMAIN loops : IsCancelled(loops[k]) =>
            /\ IsCancelled(loops'[k])
            /\ Rank(loops'[k].pc) <= Rank(loops[k].pc)]_vars

=============================================================================
