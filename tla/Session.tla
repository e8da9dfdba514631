------------------------------ MODULE Session ------------------------------
(***************************************************************************)
(* One PvaSession: the handshake, a search, the bulk subscription in its   *)
(* phases, and the event loop with its commands, against a server that     *)
(* answers in any order, late, or not at all, over a connection that may   *)
(* be cut.  A reconnection makes a new session, which starts here again.   *)
(*                                                                         *)
(* The server is external.  What is written reaches it at once, and it may *)
(* let anything it received wait, so a slow connection is a slow server;   *)
(* one that stops reading keeps whoever writes to it waiting.              *)
(***************************************************************************)
EXTENDS Integers, Sequences, FiniteSets, Functions

CONSTANTS
  PVs,
  Hosted,        \* the names the server has
  SearchLists,   \* lists of names that are searched
  Lists,         \* lists of names a new session subscribes, without repetition
  AddLists,      \* those of AddMonitorBatch
  MaxFrames,     \* bound: frames on their way to the client
  BatchSize,     \* batch_size of search_pvs, 500
  MaxEvents      \* bound: commands to the session, updates of the server, its
                 \* pauses in reading and ticks of the echo timer, together

ASSUME SessionAssumption ==
  /\ Hosted \subseteq PVs
  /\ {MaxEvents, MaxFrames} \subseteq Nat /\ BatchSize \in Nat \ {0}
  /\ SearchLists \cup Lists \cup AddLists \subseteq Seq(PVs) \ {<< >>}
  /\ \A names \in Lists \cup AddLists : IsInjective(names)

VARIABLES
  phase,        \* where the session waits
  channels,     \* ConnectionState.channels: client id -> [pv, state, sid]
  monitors,     \* request id -> [pv, sid, typed]
  next_id,      \* NEXT_ID
  work,         \* the locals of the call that runs
  published,    \* << name, name the server meant >> of the events sent on
  toClient,     \* frames on their way
  server,       \* [held, channels, monitors]: requests it has not answered,
                \* what it has created
  open,         \* the connection is not cut
  reads,        \* the server reads, or the buffers between have room
  events        \* so far, of MaxEvents

clientVars == << channels, monitors, next_id, work, published >>
vars == << phase, clientVars, toClient, server, open, reads, events >>

NoWork == [kind |-> "none"]
Creating == "Creating"
Active == "Active"
Closed == "Closed"

NewServer == [held |-> {}, channels |-> << >>, monitors |-> << >>]

\* A session that is over is dropped with all it holds.
Dropped ==
  /\ phase' = "ended" /\ open' = FALSE /\ reads' = TRUE
  /\ channels' = << >> /\ monitors' = << >> /\ toClient' = << >>
  /\ published' = {} /\ work' = NoWork /\ server' = NewServer
  /\ next_id' = 0 /\ events' = MaxEvents

\* HashMap::insert.
InsertAll(table, rows) ==
  [id \in DOMAIN table \cup DOMAIN rows |->
     IF id \in DOMAIN rows THEN rows[id] ELSE table[id]]

Insert(table, id, row) == InsertAll(table, [x \in {id} |-> row])

----------------------------------------------------------------------------
(* The server.                                                             *)

Event == events < MaxEvents /\ events' = events + 1

\* What the server makes of the messages of one write.  None of them speaks of
\* what another one makes, so their order does not matter.  A server ignores an
\* INIT for a request it knows.
Receives(srv, messages) ==
  LET asked == { m \in messages :
                   \/ m.cmd \in {"CREATE_CHANNEL", "SEARCH", "ECHO", "VALIDATION"}
                   \/ m.cmd = "INIT" /\ m.rid \notin DOMAIN srv.monitors }
      destroyed == { m.sid : m \in { x \in messages : x.cmd = "DESTROY_CHANNEL" } }
      Started(r) == \E m \in messages : m.cmd = "START" /\ m.rid = r
      Stopped(r) == \/ \E m \in messages : m.cmd = "STOP" /\ m.rid = r
                    \/ srv.monitors[r].sid \in destroyed IN
  [held |-> srv.held \cup asked,
   channels |-> Restrict(srv.channels, DOMAIN srv.channels \ destroyed),
   monitors |-> [r \in { x \in DOMAIN srv.monitors : ~Stopped(x) } |->
                   [srv.monitors[r] EXCEPT !.started = @ \/ Started(r)]]]

\* The name of a channel the server has made.
NameOf(sid) == server.channels[sid]

\* The server has something to say, or not yet.
Speaks == open /\ phase # "ended" /\ Len(toClient) < MaxFrames

\* Server ids are no client ids.
ServerId(cid) == -cid

Answer(m, frame) ==
  /\ toClient' = Append(toClient, frame)
  /\ server' = [server EXCEPT !.held = @ \ {m}]

Answers(m) ==
  \/ /\ m.cmd = "CREATE_CHANNEL" /\ m.pv \in Hosted
     /\ toClient' = Append(toClient, [cmd |-> "CREATE_CHANNEL", cid |-> m.cid,
                                      sid |-> ServerId(m.cid), ok |-> TRUE])
     /\ server' = [server EXCEPT !.held = @ \ {m},
                     !.channels = Insert(@, ServerId(m.cid), m.pv)]
  \/ /\ m.cmd = "CREATE_CHANNEL"
     /\ Answer(m, [cmd |-> "CREATE_CHANNEL", cid |-> m.cid, sid |-> 0, ok |-> FALSE])
  \/ /\ m.cmd = "INIT" /\ m.sid \in DOMAIN server.channels
     /\ \E status \in {"ok", "no type"} :
          toClient' = Append(toClient, [cmd |-> "INIT", rid |-> m.rid, status |-> status])
     /\ server' = [server EXCEPT !.held = @ \ {m},
                     !.monitors = Insert(@, m.rid,
                       [pv |-> NameOf(m.sid), sid |-> m.sid, started |-> FALSE])]
  \/ /\ m.cmd = "INIT"
     /\ Answer(m, [cmd |-> "INIT", rid |-> m.rid, status |-> "rejected"])
  \/ /\ m.cmd = "SEARCH"
     /\ Answer(m, [cmd |-> "SEARCH_RESPONSE",
                   ids |-> { id \in DOMAIN m.names : m.names[id] \in Hosted }])
  \/ /\ m.cmd = "ECHO" /\ Answer(m, [cmd |-> "ECHO"])
  \/ /\ m.cmd = "VALIDATION" /\ Answer(m, [cmd |-> "VALIDATED"])

ServerAnswers ==
  /\ Speaks
  /\ \E m \in server.held : Answers(m)
  /\ UNCHANGED << phase, clientVars, open, reads, events >>

ServerUpdates(rid) ==
  /\ Speaks /\ Event
  /\ server.monitors[rid].started
  /\ toClient' = Append(toClient, [cmd |-> "UPDATE", rid |-> rid,
                                   of |-> server.monitors[rid].pv])
  /\ UNCHANGED << phase, clientVars, server, open, reads >>

Cut ==
  /\ open /\ phase # "ended"
  /\ open' = FALSE /\ reads' = TRUE /\ toClient' = << >> /\ server' = NewServer
  /\ UNCHANGED << phase, clientVars, events >>

\* The server stops reading, or goes on.
ServerReads ==
  /\ open /\ phase # "ended"
  /\ reads' = ~reads
  /\ \/ reads /\ Event
     \/ ~reads /\ UNCHANGED events
  /\ UNCHANGED << phase, clientVars, toClient, server, open >>

----------------------------------------------------------------------------
(* PvaTcp.                                                                 *)

\* What is written to a connection that is cut is lost.
Written(srv, messages) == IF open THEN Receives(srv, messages) ELSE srv

\* send_msg, and buffer_msg for each of a set of messages and flush_writes.
\* write_all has no deadline: until the server reads or the connection is cut,
\* the session is in it and does nothing else.
Send(messages) ==
  /\ messages = {} \/ reads \/ ~open
  /\ server' = Written(server, messages)

\* recv_frame.
Receive(frame) ==
  frame = Head(toClient) /\ toClient' = Tail(toClient)

----------------------------------------------------------------------------
(* ConnectionState.                                                        *)

\* add_channel for each name, in the order of the ids.
AddChannels(names) ==
  [ id \in DOMAIN channels \cup next_id..(next_id + Len(names) - 1) |->
      IF id < next_id THEN channels[id]
      ELSE [pv |-> names[id - next_id + 1], state |-> Creating, sid |-> 0] ]

activate_channel(chans, cid, sid) ==
  IF cid \in DOMAIN chans
    THEN [chans EXCEPT ![cid].state = Active, ![cid].sid = sid] ELSE chans

close_channel(chans, cid) ==
  IF cid \in DOMAIN chans THEN [chans EXCEPT ![cid].state = Closed] ELSE chans

Named(table, pv) == { id \in DOMAIN table : table[id].pv = pv }

\* The state of a subscription that waits for its type.
NewMonitor(pv, sid) == [pv |-> pv, sid |-> sid, typed |-> FALSE]

----------------------------------------------------------------------------
(* Frames nobody waits for: dispatch_frame.                                *)

\* handle_monitor_update.  What is done with the event is in Ingest.
HandleUpdate(rid, of) ==
  published' = IF rid \in DOMAIN monitors /\ monitors[rid].typed
                 THEN published \cup {<< monitors[rid].pv, of >>} ELSE published

\* An echo is answered, whoever asked; an INIT response is read as an update.
Dispatch(frame) ==
  \/ /\ frame.cmd = "UPDATE" /\ HandleUpdate(frame.rid, frame.of)
     /\ UNCHANGED server
  \/ /\ frame.cmd = "ECHO" /\ Send({[cmd |-> "ECHO"]})
     /\ UNCHANGED published
  \/ /\ frame.cmd \notin {"UPDATE", "ECHO"}
     /\ UNCHANGED << published, server >>

----------------------------------------------------------------------------
(* connect and perform_handshake.                                          *)

\* A server that does not know the protocol answers with another frame.
Greet(frame) ==
  /\ Speaks /\ phase \in {"byte order", "validation"}
  /\ toClient' = Append(toClient, [cmd |-> frame])
  /\ UNCHANGED << phase, clientVars, server, open, reads, events >>

ReadByteOrder(frame) ==
  /\ phase = "byte order" /\ Receive(frame) /\ frame.cmd = "SET_BYTE_ORDER"
  /\ phase' = "validation"
  /\ UNCHANGED << clientVars, server, open, reads, events >>

Authentication == [cmd |-> "VALIDATION"]

\* The answer is an authentication; it is a CONNECTION_VALIDATION again.
ReadValidation(frame) ==
  /\ phase = "validation" /\ Receive(frame) /\ frame.cmd = "CONNECTION_VALIDATION"
  /\ Send({Authentication})
  /\ phase' = "validated"
  /\ UNCHANGED << channels, monitors, next_id, work, published, open, reads, events >>

\* connect fails.
ReadUnexpected(frame) ==
  /\ \/ phase = "byte order" /\ frame.cmd # "SET_BYTE_ORDER"
     \/ phase = "validation" /\ frame.cmd # "CONNECTION_VALIDATION"
  /\ Dropped

\* Any frame will do: another than VALIDATED is only warned about.
ReadValidated(frame) ==
  /\ phase = "validated" /\ Receive(frame)
  /\ phase' = "connected"
  /\ UNCHANGED << clientVars, server, open, reads, events >>

----------------------------------------------------------------------------
(* search_pvs.                                                             *)

Chunks(n) == (n + BatchSize - 1) \div BatchSize

SearchMessage(names, ids, k) ==
  [cmd |-> "SEARCH",
   names |-> [id \in { i \in DOMAIN ids : (ids[i] - 1) \div BatchSize = k - 1 } |->
                names[ids[id]]]]

\* Each chunk takes an id for its request after those of its names.  send_msg
\* leaves what it sent in its buffer, and the flush here sends it again.
StartSearch(names) ==
  LET n == Len(names)
      Id(i) == next_id + i - 1 + (i - 1) \div BatchSize
      ids == [id \in { Id(i) : i \in 1..n } |-> CHOOSE i \in 1..n : Id(i) = id] IN
  /\ phase = "connected" /\ n > 0 /\ work = NoWork
  /\ Send({Authentication} \cup { SearchMessage(names, ids, k) : k \in 1..Chunks(n) })
  /\ next_id' = next_id + n + Chunks(n)
  /\ work' = [kind |-> "search", ids |-> [id \in DOMAIN ids |-> names[ids[id]]],
              got |-> 0, expected |-> Chunks(n), found |-> {}]
  /\ phase' = "search"
  /\ UNCHANGED << channels, monitors, published, toClient, open, reads, events >>

SearchEnds(hits) ==
  phase' = "connected" /\ work' = [kind |-> "searched", found |-> hits]

\* Every response counts; other frames are skipped, echoes too.
ReadSearch(frame) ==
  /\ phase = "search" /\ Receive(frame)
  /\ LET hits == frame.ids \cap DOMAIN work.ids
         rest == [work EXCEPT !.ids = Restrict(@, DOMAIN @ \ hits), !.got = @ + 1,
                              !.found = @ \cup { work.ids[id] : id \in hits }] IN
     \/ /\ frame.cmd = "SEARCH_RESPONSE"
        /\ IF rest.got = work.expected THEN SearchEnds(rest.found)
           ELSE work' = rest /\ UNCHANGED phase
     \/ frame.cmd # "SEARCH_RESPONSE" /\ UNCHANGED << phase, work >>
  /\ UNCHANGED << channels, monitors, next_id, published, server,
                  open, reads, events >>

----------------------------------------------------------------------------
(* add_monitors_bulk.                                                      *)

BulkPhases == { "creating", "initialising", "retrying" }

\* Phase 1: every CREATE_CHANNEL is sent.  The names are distinct.
StartBulk(names) ==
  LET Cid(i) == next_id + i - 1 IN
  /\ channels' = AddChannels(names)
  /\ next_id' = next_id + Len(names)
  /\ \/ /\ Send({ [cmd |-> "CREATE_CHANNEL", cid |-> Cid(i), pv |-> names[i]] :
                   i \in DOMAIN names })
        /\ work' = [kind |-> "bulk", ids |-> [c \in { Cid(i) : i \in DOMAIN names } |->
                                                names[c - next_id + 1]],
                    got |-> 0, expected |-> Len(names), created |-> << >>,
                    failed |-> {}, pending |-> << >>, done |-> {}]
        /\ phase' = "creating"
     \/ /\ ~open /\ UNCHANGED server
        /\ work' = NoWork /\ phase' = "loop"
  /\ UNCHANGED << monitors, published, toClient, open, reads >>

\* Mutant: answers are taken to come in the order of the requests.
CreatedInOrder(w, cid, sid) ==
  LET k == next_id - Cardinality(DOMAIN w.ids) + w.got IN Insert(w.created, k, sid)

\* channel_map: an answer for a channel of an earlier call is left out.
Created(w, cid, sid) ==
  IF cid \in DOMAIN w.ids THEN Insert(w.created, cid, sid) ELSE w.created

\* Any answer counts, one for a channel of an earlier call too.
ReadCreated(frame) ==
  /\ phase = "creating" /\ Receive(frame)
  /\ work.got < work.expected
  /\ \/ /\ frame.cmd = "CREATE_CHANNEL" /\ frame.ok
        /\ channels' = activate_channel(channels, frame.cid, frame.sid)
        /\ work' = [work EXCEPT !.got = @ + 1,
                                !.created = Created(work, frame.cid, frame.sid)]
        /\ UNCHANGED << published, server >>
     \/ /\ frame.cmd = "CREATE_CHANNEL" /\ ~frame.ok
        /\ channels' = close_channel(channels, frame.cid)
        /\ work' = [work EXCEPT !.got = @ + 1, !.failed = @ \cup {frame.cid}]
        /\ UNCHANGED << published, server >>
     \/ /\ frame.cmd # "CREATE_CHANNEL" /\ Dispatch(frame)
        /\ UNCHANGED << channels, work >>
  /\ UNCHANGED << phase, monitors, next_id, open, reads, events >>

InitMessage(rid, sid) == [cmd |-> "INIT", rid |-> rid, sid |-> sid]

\* Phase 2: a monitor and an INIT for every channel, in the order in which the
\* HashMap gives them.
StartInits ==
  LET n == Cardinality(DOMAIN work.created)
      rids == next_id..(next_id + n - 1) IN
  /\ \E cid \in Bijection(rids, DOMAIN work.created) :
       LET pending == [r \in rids |-> NewMonitor(work.ids[cid[r]], work.created[cid[r]])] IN
       /\ monitors' = InsertAll(monitors, pending)
       /\ Send({ InitMessage(r, pending[r].sid) : r \in rids })
       /\ work' = [work EXCEPT !.got = 0, !.expected = n, !.pending = pending]
  /\ next_id' = next_id + n
  /\ phase' = "initialising"
  /\ UNCHANGED << channels, published, toClient, open, reads, events >>

Missing == DOMAIN work.pending \ work.done

\* One with an error status is counted as done, like one without a type.
ReadInit(frame) ==
  /\ phase \in {"initialising", "retrying"} /\ Receive(frame)
  /\ work.got < work.expected
  /\ \/ /\ frame.cmd = "INIT"
        /\ monitors' = IF frame.status = "ok" /\ frame.rid \in DOMAIN monitors
                         THEN [monitors EXCEPT ![frame.rid].typed = TRUE] ELSE monitors
        /\ work' = [work EXCEPT !.got = @ + 1, !.done = @ \cup {frame.rid}]
        /\ UNCHANGED << published, server >>
     \/ frame.cmd # "INIT" /\ Dispatch(frame) /\ UNCHANGED << monitors, work >>
  /\ UNCHANGED << phase, channels, next_id, open, reads, events >>

\* Phase 2b: the INITs that were not answered are sent again.
Retry ==
  /\ Missing # {}
  /\ Send({ InitMessage(r, work.pending[r].sid) : r \in Missing })
  /\ work' = [work EXCEPT !.got = 0, !.expected = Cardinality(Missing)]
  /\ phase' = "retrying"
  /\ UNCHANGED << channels, monitors, next_id, published, toClient, open, reads,
                  events >>

\* Mutant: a monitor that was never initialised is kept.
KeptAll(w) == DOMAIN monitors

\* The monitors that stay when the results are built.
Kept(w) == DOMAIN monitors \ (DOMAIN w.pending \ w.done)

\* The results that are returned.  A name whose channel was not answered has
\* none.
Results(w) ==
  { << w.ids[c], "error" >> : c \in w.failed \cap DOMAIN w.ids }
    \cup { << w.pending[r].pv, IF r \in w.done THEN "ok" ELSE "error" >> :
             r \in DOMAIN w.pending }

\* Phase 3: START for every monitor that is done.
FinishBulk ==
  /\ Send({ [cmd |-> "START", rid |-> r] : r \in DOMAIN work.pending \cap work.done })
  /\ monitors' = Restrict(monitors, Kept(work))
  /\ work' = NoWork /\ phase' = "loop"
  /\ UNCHANGED << channels, next_id, published, toClient, open, reads, events >>

\* Mutant: the second round of INITs is waited for without a deadline.
NoRetryDeadline ==
  phase \in BulkPhases /\ (phase = "retrying" => work.got >= work.expected \/ ~open)

\* A loop is over when all answers are there, when the connection is lost, or
\* when its deadline has passed, which may be at any time.
LoopOver == phase \in BulkPhases

EndCreating == phase = "creating" /\ LoopOver /\ StartInits

EndInits ==
  /\ phase = "initialising" /\ LoopOver
  /\ \/ Retry
     \/ Missing = {} /\ FinishBulk

EndRetry == phase = "retrying" /\ LoopOver /\ FinishBulk

\* What search_pvs does at its deadline.
EndSearch ==
  /\ phase = "search" /\ SearchEnds(work.found)
  /\ UNCHANGED << channels, monitors, next_id, published, toClient,
                  server, open, reads, events >>

----------------------------------------------------------------------------
(* The driver subscribes on a new session, after a search or without one.  *)

Subscribe(names) ==
  /\ phase = "connected"
  /\ work.kind = "searched" => Range(names) \subseteq work.found
  /\ StartBulk(names)
  /\ UNCHANGED << events >>

\* A session that only searched is dropped.
DropSearched ==
  /\ phase = "connected" /\ work.kind = "searched"
  /\ Dropped

----------------------------------------------------------------------------
(* run_event_loop_with_commands.                                           *)

LoopFrame(frame) ==
  /\ phase = "loop" /\ Receive(frame) /\ Dispatch(frame)
  /\ UNCHANGED << phase, channels, monitors, next_id, work, open, reads, events >>

EchoTick ==
  /\ phase = "loop" /\ Event
  /\ Send({[cmd |-> "ECHO"]})
  /\ UNCHANGED << phase, channels, monitors, next_id, work, published, toClient, open, reads >>

Command == phase = "loop" /\ Event

AddBatch(names) ==
  /\ Command /\ StartBulk(names)

\* add_monitor_inline: create_channel ...
AddMonitor(pv) ==
  /\ Command
  /\ channels' = AddChannels(<< pv >>) /\ next_id' = next_id + 1
  /\ \/ /\ Send({[cmd |-> "CREATE_CHANNEL", cid |-> next_id, pv |-> pv]})
        /\ work' = [kind |-> "create", cid |-> next_id, pv |-> pv]
        /\ phase' = "create"
     \/ ~open /\ UNCHANGED << server, work, phase >>
  /\ UNCHANGED << monitors, published, toClient, open, reads >>

\* ... waits for its answer and start_monitor sends INIT.
ReadCreate(frame) ==
  /\ phase = "create" /\ Receive(frame)
  /\ LET mine == frame.cmd = "CREATE_CHANNEL" /\ frame.cid = work.cid IN
     \/ /\ mine /\ ~frame.ok
        /\ channels' = close_channel(channels, work.cid)
        /\ work' = NoWork /\ phase' = "loop"
        /\ UNCHANGED << monitors, next_id, published, server >>
     \/ /\ mine /\ frame.ok
        /\ channels' = activate_channel(channels, work.cid, frame.sid)
        /\ next_id' = next_id + 1
        /\ Send({InitMessage(next_id, frame.sid)})
        /\ monitors' = Insert(monitors, next_id, NewMonitor(work.pv, frame.sid))
        /\ work' = [kind |-> "init", rid |-> next_id] /\ phase' = "init"
        /\ UNCHANGED published
     \/ /\ ~mine /\ Dispatch(frame)
        /\ UNCHANGED << channels, monitors, next_id, work, phase >>
  /\ UNCHANGED << open, reads, events >>

\* start_monitor: an error status removes the monitor, a response without a
\* type leaves it.
ReadStart(frame) ==
  /\ phase = "init" /\ Receive(frame)
  /\ LET mine == frame.cmd = "INIT" /\ frame.rid = work.rid IN
     \/ /\ mine /\ work' = NoWork /\ phase' = "loop"
        /\ \/ /\ frame.status = "rejected"
              /\ monitors' = Restrict(monitors, DOMAIN monitors \ {work.rid})
              /\ UNCHANGED server
           \/ /\ frame.status = "no type" /\ UNCHANGED << monitors, server >>
           \/ /\ frame.status = "ok"
              /\ monitors' = [monitors EXCEPT ![work.rid].typed = TRUE]
              /\ Send({[cmd |-> "START", rid |-> work.rid]})
        /\ UNCHANGED << published >>
     \/ ~mine /\ Dispatch(frame) /\ UNCHANGED << monitors, work, phase >>
  /\ UNCHANGED << channels, next_id, open, reads, events >>

\* remove_monitor_inline.  Several channels may have the name: those that were
\* refused or not answered stay in the table, and any may be found first.
RemoveMonitor(pv) ==
  /\ Command
  /\ \/ /\ Named(channels, pv) = {} /\ UNCHANGED << channels, monitors, server >>
     \/ \E cid \in Named(channels, pv) :
          \/ /\ channels[cid].state # Active
             /\ UNCHANGED << channels, monitors, server >>
          \/ /\ channels[cid].state = Active
             /\ channels' = Restrict(channels, DOMAIN channels \ Named(channels, pv))
             /\ LET destroy == [cmd |-> "DESTROY_CHANNEL", cid |-> cid,
                                sid |-> channels[cid].sid] IN
                \/ /\ Named(monitors, pv) = {}
                   /\ Send({destroy}) /\ UNCHANGED monitors
                \/ \E rid \in Named(monitors, pv) :
                     /\ Send({[cmd |-> "STOP", rid |-> rid], destroy})
                     /\ monitors' = Restrict(monitors, DOMAIN monitors \ {rid})
  /\ UNCHANGED << phase, next_id, work, published, toClient, open, reads >>

Shutdown ==
  /\ phase = "loop" /\ Dropped

\* recv_frame or the echo fails outside add_monitors_bulk and search_pvs: the
\* session ends; a command that waits fails and leaves it to the loop.
Disconnected ==
  ~open /\ phase \in {"byte order", "validation", "validated", "loop"} /\ Dropped

CommandFails ==
  /\ ~open /\ phase \in {"create", "init"}
  /\ phase' = "loop" /\ work' = NoWork
  /\ UNCHANGED << channels, monitors, next_id, published, toClient, server, open, reads,
                  events >>

----------------------------------------------------------------------------
Init ==
  /\ phase = "byte order" /\ work = NoWork /\ next_id = 1
  /\ channels = << >> /\ monitors = << >>
  /\ published = {}
  /\ toClient = << >> /\ open = TRUE /\ reads = TRUE
  /\ server = NewServer
  /\ events = 0

BulkEnds == EndCreating \/ EndInits \/ EndRetry

Ended == phase = "ended" /\ UNCHANGED vars

Next ==
  \/ ServerAnswers \/ ServerReads \/ Cut
  \/ \E rid \in DOMAIN server.monitors : ServerUpdates(rid)
  \/ \E c \in {"SET_BYTE_ORDER", "CONNECTION_VALIDATION", "OTHER"} : Greet(c)
  \/ \E frame \in { toClient[i] : i \in {1} \cap DOMAIN toClient } :
       \/ ReadByteOrder(frame) \/ ReadUnexpected(frame) \/ ReadValidation(frame) \/ ReadValidated(frame)
       \/ ReadSearch(frame) \/ ReadCreated(frame) \/ ReadInit(frame)
       \/ LoopFrame(frame) \/ ReadCreate(frame) \/ ReadStart(frame)
  \/ \E names \in SearchLists : StartSearch(names)
  \/ \E names \in Lists : Subscribe(names)
  \/ \E names \in AddLists : AddBatch(names)
  \/ \E pv \in PVs : AddMonitor(pv) \/ RemoveMonitor(pv)
  \/ EndSearch \/ DropSearched \/ BulkEnds \/ EchoTick \/ Shutdown \/ Disconnected \/ CommandFails \/ Ended

\* The task of the session runs, and deadlines pass.
Spec == Init /\ [][Next]_vars /\ WF_vars(BulkEnds) /\ WF_vars(EndSearch)

----------------------------------------------------------------------------
\* What the session believes of a name is what the server said of that name: a
\* name that was found is hosted, the server id of a channel is that of the
\* channel the server made for its name, a monitor is on the server's channel
\* of its name, and an event is sent on under the name it came from.  Answers
\* come in any order, and those of earlier calls come late (search_pvs,
\* create_channel, add_monitors_bulk, handle_monitor_update).
AnswersMatched ==
  /\ phase = "connected" /\ work.kind = "searched" => work.found \subseteq Hosted
  /\ \A c \in DOMAIN channels :
       channels[c].state = Active /\ channels[c].sid \in DOMAIN server.channels
         => NameOf(channels[c].sid) = channels[c].pv
  /\ \A r \in DOMAIN monitors \cap DOMAIN server.monitors :
       server.monitors[r].pv = monitors[r].pv
  /\ \A e \in published : e[1] = e[2]

\* The results of a bulk subscription that has just returned are true.
Reported ==
  LET Mine(pv) == Named(monitors', pv) \cap DOMAIN work.pending
      Result(pv) == { r[2] : r \in { x \in Results(work) : x[1] = pv } } IN
  \A pv \in Range(work.ids) :
    \/ Result(pv) \subseteq {"error"} /\ Mine(pv) = {}
    \/ /\ Result(pv) = {"ok"}
       /\ \E r \in Mine(pv) :
            /\ Mine(pv) = {r}
            /\ \E c \in DOMAIN work.ids :
                 channels'[c].state = Active /\ channels'[c].sid = monitors'[r].sid
            /\ open /\ r \in DOMAIN server'.monitors => server'.monitors[r].started

\* What a bulk subscription reports holds when it returns: no name has two
\* results; a name reported subscribed has a channel and a monitor of this
\* call, which the server has started if it accepted it; and one that is
\* reported failed, or not at all, has no monitor of this call that would take
\* updates nobody expects (the phases of add_monitors_bulk).
BulkReport == [][ phase' = "loop" /\ phase \in BulkPhases => Reported ]_vars

\* A bulk subscription and a search return, whatever the server answers or
\* leaves unanswered, if it goes on reading or the connection is cut: every
\* read has a deadline (timeout_at in add_monitors_bulk and search_pvs).  Were
\* the condition dropped it would be false: send_msg and flush_writes have no
\* deadline, and a server that stops reading holds the call for ever.
CallsReturn ==
  <>[](reads \/ ~open) =>
    /\ phase \in BulkPhases ~> phase = "loop"
    /\ phase = "search" ~> phase \in {"connected", "ended"}

=============================================================================
