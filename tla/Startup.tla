------------------------------ MODULE Startup ------------------------------
(***************************************************************************)
(* Processes that start, crash and start again over one database: the      *)
(* migrations, the connections, the seeding of ioc_config, the id maps     *)
(* (the writer's PvCache and the map main shares with the shards), the     *)
(* startup subscribe and the rows it leaves in pv_status.  Operators       *)
(* declare IOCs through the API and edit the tables in SQL meanwhile.      *)
(*                                                                         *)
(* An address is a text, and one socket has several: IPv6 can be shortened *)
(* in many ways, a port may begin with zeros.  Only its to_string is what  *)
(* the lifecycle handlers write.                                           *)
(*                                                                         *)
(* A migration is one implicit transaction.  A statement may fail; main    *)
(* then exits, or goes on without its result where it says so.  Events     *)
(* between the reports on a connection are in PvStatus, here a report is   *)
(* applied when it comes.                                                  *)
(***************************************************************************)
EXTENDS IocPage, FiniteSetsExt, SequencesExt, TLC

CONSTANTS
  Processes,
  NVersions,   \* how many migrations there are
  Names,       \* PV names
  Sockets,     \* SocketAddr: IP and port
  Parse,       \* address -> what from_str makes of it, NoIoc for an error
  Written,     \* socket -> its to_string
  WithPort,    \* address -> itself, or with the port it does not name
  Seeds,       \* name_servers of aura.toml
  MaxEntries,  \* max_entries of PvCache
  MaxFaults,   \* bound: crashes and failed statements
  MaxEdits,    \* bound: edits of the operators
  MaxReports   \* bound: reports on connections

ASSUME StartupAssumption ==
  /\ NVersions \in Nat /\ IsFiniteSet(Names)
  /\ NoIoc \notin Addresses /\ NoIoc \notin Sockets
  /\ Parse \in [Addresses -> Sockets \cup {NoIoc}]
  /\ Written \in [Sockets -> Addresses] /\ \A a \in Sockets : Parse[Written[a]] = a
  /\ WithPort \in [Addresses -> Addresses] /\ Seeds \subseteq Addresses
  /\ MaxEntries \in Nat \ {0}
  /\ MaxFaults \in Nat /\ MaxEdits \in Nat /\ MaxReports \in Nat

VARIABLES
  pc,          \* process -> where its main is
  api,         \* processes whose API thread serves
  at,          \* process -> the migration it is at
  schema,      \* versions whose SQL was committed
  recorded,    \* _aura_migrations
  pv_lookup,   \* name -> id, 0 without one
  enabled,     \* names enabled in pv_config
  ioc_config,  \* address -> "absent", "enabled", "disabled"
  pv_status,   \* name -> [state, ioc]
  cache,       \* process -> PvCache
  pvs,         \* process -> names between the statements of subscribe_pvs
  shared,      \* process -> shared_pv_cache
  servers,     \* process -> name_servers of the driver
  seeding,     \* process -> seeds still to insert
  monitored,   \* process -> names with a monitor
  by_hand,     \* history: addresses an operator inserted in SQL
  faults, edits, reports

iocs == << ioc_config, by_hand >>
db == << schema, recorded, pv_lookup, enabled, iocs, pv_status >>
mem == << cache, pvs, shared, servers, seeding, monitored >>
bounds == << faults, edits, reports >>
vars == << pc, api, at, db, mem, bounds >>

Versions == 1..NVersions
Nothing == [x \in {} |-> 0]

Fault == faults < MaxFaults /\ faults' = faults + 1
Goto(p, where) == pc' = [pc EXCEPT ![p] = where]

\* main returns an error, exits or dies: its memory and threads are gone.
Down(p) ==
  /\ Goto(p, "down")
  /\ api' = api \ {p}
  /\ cache' = [cache EXCEPT ![p] = Nothing]
  /\ shared' = [shared EXCEPT ![p] = Nothing]
  /\ pvs' = [pvs EXCEPT ![p] = {}]
  /\ servers' = [servers EXCEPT ![p] = {}]
  /\ seeding' = [seeding EXCEPT ![p] = {}]
  /\ monitored' = [monitored EXCEPT ![p] = {}]

\* Also an error that main returns before it has done anything in the step: a
\* configuration that does not parse, a refused connection, a bad address.
Crash(p) ==
  /\ pc[p] # "down" /\ Fault
  /\ Down(p)
  /\ UNCHANGED << at, db, edits, reports >>

----------------------------------------------------------------------------
(* Migrations::run.                                                        *)

\* The configuration is read, the database connected.
Start(p) ==
  /\ pc[p] = "down"
  /\ Goto(p, "check")
  /\ at' = [at EXCEPT ![p] = 1]
  /\ UNCHANGED << api, db, mem, bounds >>

\* SELECT EXISTS: skip what is recorded.
CheckMigration(p) ==
  /\ pc[p] = "check"
  /\ CASE at[p] \notin Versions -> Goto(p, "api") /\ UNCHANGED at
       [] at[p] \in recorded -> at' = [at EXCEPT ![p] = @ + 1] /\ UNCHANGED pc
       [] OTHER -> Goto(p, "run") /\ UNCHANGED at
  /\ UNCHANGED << api, db, mem, bounds >>

\* Mutant: an error of the SQL is logged and the migration recorded.
RunMigrationLogged(p) ==
  /\ pc[p] = "run"
  /\ Goto(p, "record")
  /\ \/ schema' = schema \cup { at[p] } /\ UNCHANGED faults
     \/ Fault /\ UNCHANGED schema
  /\ UNCHANGED << api, mem, at, recorded, pv_lookup, enabled, iocs,
                  pv_status, edits, reports >>

\* raw_sql.  Every migration may run again, after a crash or beside another.
RunMigration(p) ==
  /\ pc[p] = "run"
  /\ \/ /\ schema' = schema \cup { at[p] }
        /\ Goto(p, "record")
        /\ UNCHANGED << api, mem, faults >>
     \/ Fault /\ Down(p) /\ UNCHANGED schema
  /\ UNCHANGED << at, recorded, pv_lookup, enabled, iocs, pv_status,
                  edits, reports >>

\* version is the primary key: the second of two processes fails.
RecordMigration(p) ==
  /\ pc[p] = "record"
  /\ \/ /\ at[p] \notin recorded
        /\ recorded' = recorded \cup { at[p] }
        /\ at' = [at EXCEPT ![p] = @ + 1]
        /\ Goto(p, "check")
        /\ UNCHANGED << api, mem, faults >>
     \/ /\ \/ at[p] \in recorded /\ UNCHANGED faults
           \/ Fault
        /\ Down(p)
        /\ UNCHANGED << at, recorded >>
  /\ UNCHANGED << schema, pv_lookup, enabled, iocs, pv_status,
                  edits, reports >>

----------------------------------------------------------------------------
(* The API thread.                                                         *)

\* A thread of its own with its own runtime: where that or the listening
\* socket fails, the error is logged and main goes on without an API.
ServeApi(p) ==
  /\ pc[p] = "api"
  /\ \/ api' = api \cup {p} /\ UNCHANGED faults
     \/ Fault /\ UNCHANGED api
  /\ Goto(p, "connect")
  /\ UNCHANGED << at, db, mem, edits, reports >>

----------------------------------------------------------------------------
(* PvCache: name -> id, never evicted, capped at MaxEntries.               *)

Cached(p) == DOMAIN cache[p]
Known == { x \in Names : pv_lookup[x] # 0 }
NextId == 1 + Max({0} \cup Range(pv_lookup))

\* Mutant: without the conflict clause a name is inserted again.
UpsertFresh(name) == NextId

\* INSERT .. ON CONFLICT DO UPDATE .. RETURNING: the id the table has.
Upsert(name) == IF pv_lookup[name] # 0 THEN pv_lookup[name] ELSE NextId

Remember(map, name, id) ==
  IF Cardinality(DOMAIN map) >= MaxEntries THEN map
  ELSE [x \in DOMAIN map \cup {name} |-> IF x = name THEN id ELSE map[x]]

\* The rows of lowest id, as many as the cache takes.
Warmed ==
  [x \in { y \in Known : Cardinality({ z \in Known : pv_lookup[z] < pv_lookup[y] })
                           < MaxEntries } |-> pv_lookup[x]]

\* The COPY connections and pipeline.startup.
Connect(p) ==
  /\ pc[p] = "connect"
  /\ \/ /\ cache' = [cache EXCEPT ![p] = Warmed]
        /\ Goto(p, "discover")
        /\ UNCHANGED << api, pvs, shared, servers, seeding, monitored, faults >>
     \/ Fault /\ Down(p)
  /\ UNCHANGED << at, db, edits, reports >>

\* The orchestrator is spawned once it has its connection to Redis; the store
\* loop runs already.
StartDiscovery(p) ==
  /\ pc[p] = "discover"
  /\ Goto(p, "seed")
  /\ UNCHANGED << api, at, db, mem, bounds >>

\* resolve: a sample of a name that is not cached, in the store loop.
Resolve(p, name) ==
  /\ pc[p] = "serving" /\ name \notin Cached(p)
  /\ pv_lookup' = [pv_lookup EXCEPT ![name] = Upsert(name)]
  /\ cache' = [cache EXCEPT ![p] = Remember(@, name, Upsert(name))]
  /\ UNCHANGED << pc, api, at, schema, recorded, enabled, iocs, pv_status,
                  pvs, shared, servers, seeding, monitored, bounds >>

\* INSERT .. ON CONFLICT DO NOTHING of several names.
Inserted(names) ==
  LET fresh == SetToSeq({ x \in names : pv_lookup[x] = 0 })
  IN  [x \in Names |->
         IF x \in Range(fresh)
           THEN NextId - 1 + CHOOSE k \in DOMAIN fresh : fresh[k] = x
           ELSE pv_lookup[x]]

----------------------------------------------------------------------------
(* ioc_config at startup, and the API.                                     *)

Seedable == { a \in Seeds : Parse[a] # NoIoc }

\* Seed only when no IOC is enabled; a failed count reads as none.
CountIocs(p) ==
  /\ pc[p] = "seed"
  /\ \/ /\ seeding' = [seeding EXCEPT ![p] =
             IF \E a \in Addresses : ioc_config[a] = "enabled" THEN {}
             ELSE Seedable]
        /\ UNCHANGED faults
     \/ Fault /\ seeding' = [seeding EXCEPT ![p] = Seedable]
  /\ Goto(p, "load")
  /\ UNCHANGED << api, at, db, cache, pvs, shared, servers, monitored, edits, reports >>

\* The address is inserted as aura.toml has it.
SeedIoc(p, a) ==
  /\ pc[p] = "load" /\ a \in seeding[p]
  /\ seeding' = [seeding EXCEPT ![p] = @ \ {a}]
  /\ \/ /\ ioc_config' = [ioc_config EXCEPT ![a] =
                            IF @ = "absent" THEN "enabled" ELSE @]
        /\ UNCHANGED faults
     \/ Fault /\ UNCHANGED ioc_config
  /\ UNCHANGED << pc, api, at, schema, recorded, pv_lookup, enabled, by_hand,
                  pv_status, cache, pvs, shared, servers, monitored, edits, reports >>

\* What does not parse is dropped, and a failed query reads as no rows.
LoadServers(p) ==
  /\ pc[p] = "load" /\ seeding[p] = {}
  /\ \/ /\ servers' = [servers EXCEPT ![p] =
             { a \in Sockets : \E t \in Addresses :
                 ioc_config[t] = "enabled" /\ Parse[t] = a }]
        /\ UNCHANGED faults
     \/ Fault /\ UNCHANGED servers
  /\ Goto(p, "snapshot")
  /\ UNCHANGED << api, at, db, cache, pvs, shared, seeding, monitored, edits, reports >>

\* Mutant: the address is checked and returned as it was given.
normalize_address_checked(a) ==
  IF Parse[WithPort[a]] = NoIoc THEN NoIoc ELSE WithPort[a]

\* What SocketAddr prints of what it parses, with the default port added.
normalize_address(a) ==
  IF Parse[WithPort[a]] = NoIoc THEN NoIoc ELSE Written[Parse[WithPort[a]]]

\* POST /api/v1/iocs; a declared address is a conflict.
CreateIoc(a) ==
  /\ edits < MaxEdits /\ edits' = edits + 1
  /\ api # {} /\ normalize_address(a) # NoIoc
  /\ ioc_config[normalize_address(a)] = "absent"
  /\ ioc_config' = [ioc_config EXCEPT ![normalize_address(a)] = "enabled"]
  /\ UNCHANGED << pc, api, at, schema, recorded, pv_lookup, enabled, by_hand,
                  pv_status, mem, faults, reports >>

\* SQL of an operator, once the table is there: any text is inserted, and a row
\* is disabled, enabled or deleted.
EditIoc(a) ==
  /\ edits < MaxEdits /\ edits' = edits + 1
  /\ schema = Versions
  /\ \E e \in {"absent", "enabled", "disabled"} \ { ioc_config[a] } :
       ioc_config' = [ioc_config EXCEPT ![a] = e]
  /\ by_hand' = IF ioc_config[a] = "absent" THEN by_hand \cup {a} ELSE by_hand
  /\ UNCHANGED << pc, api, at, schema, recorded, pv_lookup, enabled, pv_status,
                  mem, faults, reports >>

EditPv(x) ==
  /\ edits < MaxEdits /\ edits' = edits + 1
  /\ enabled' = IF x \in enabled THEN enabled \ {x} ELSE enabled \cup {x}
  /\ UNCHANGED << pc, api, at, schema, recorded, pv_lookup, iocs, pv_status,
                  mem, faults, reports >>

----------------------------------------------------------------------------
(* The shared map, the startup subscribe and its rows.                     *)

\* The driver with its bus, the subscription to the command channel (what was
\* published before is not received) and the NOTIFY listener, then the map: a
\* failed query leaves it empty.
Snapshot(p) ==
  /\ pc[p] = "snapshot"
  /\ \/ /\ shared' = [shared EXCEPT ![p] = [x \in Known |-> pv_lookup[x]]]
        /\ UNCHANGED faults
     \/ Fault /\ UNCHANGED shared
  /\ Goto(p, "subscribe")
  /\ UNCHANGED << api, at, db, cache, pvs, servers, seeding, monitored, edits, reports >>

\* Rows fetched from pv_lookup overwrite the map's entries.
Refreshed(p, names) ==
  [x \in DOMAIN shared[p] \cup names |->
     IF x \in names THEN pv_lookup[x] ELSE shared[p][x]]

SetState(names, s) ==
  pv_status' = [x \in Names |->
                  IF x \in names THEN [pv_status[x] EXCEPT !.state = s]
                  ELSE pv_status[x]]

\* The enabled PVs are read and subscribe_pvs registers them; either statement
\* may fail.
RegisterPvs(p) ==
  /\ pc[p] = "subscribe"
  /\ \/ /\ pvs' = [pvs EXCEPT ![p] = enabled]
        /\ pv_lookup' = Inserted(enabled)
        /\ UNCHANGED faults
     \/ /\ \E names \in {enabled, {}} : pvs' = [pvs EXCEPT ![p] = names]
        /\ Fault /\ UNCHANGED pv_lookup
  /\ Goto(p, "ids")
  /\ UNCHANGED << api, at, schema, recorded, enabled, iocs,
                  pv_status, cache, shared, servers, seeding, monitored,
                  edits, reports >>

\* The rest of subscribe_pvs: take the ids, open the monitors (a name is found
\* or not), take the ids again and write SEARCHING.
Subscribe(p) ==
  /\ pc[p] = "ids"
  /\ \E found \in SUBSET pvs[p], read, again, written \in BOOLEAN :
       LET fresh == { x \in (IF read THEN pvs[p] ELSE {})
                             \cup (IF again THEN found ELSE {}) : pv_lookup[x] # 0 }
       IN  /\ servers[p] = {} => found = {}
           /\ \/ read /\ again /\ written /\ UNCHANGED faults
              \/ ~(read /\ again /\ written) /\ Fault
           /\ shared' = [shared EXCEPT ![p] = Refreshed(p, fresh)]
           /\ monitored' = [monitored EXCEPT ![p] = found]
           /\ SetState(IF again /\ written THEN found \cap fresh ELSE {}, SEARCHING)
  /\ pvs' = [pvs EXCEPT ![p] = {}]
  /\ Goto(p, "status")
  /\ UNCHANGED << api, at, schema, recorded, pv_lookup, enabled, iocs,
                  cache, servers, seeding, edits, reports >>

\* Every name of the shared map becomes ARCHIVING, unless the statement fails.
InitStatus(p) ==
  /\ pc[p] = "status"
  /\ \/ SetState(DOMAIN shared[p], ARCHIVING) /\ UNCHANGED faults
     \/ Fault /\ UNCHANGED pv_status
  /\ Goto(p, "serving")
  /\ UNCHANGED << api, at, schema, recorded, pv_lookup, enabled, iocs,
                  mem, edits, reports >>

\* Reports on connections: handle_connect is the only writer of ioc_addr.  A
\* name server may answer with an IOC that nobody declared.
HandleConnect(p, x, a) ==
  /\ reports < MaxReports /\ reports' = reports + 1
  /\ pc[p] = "serving" /\ x \in monitored[p]
  /\ pv_status[x].state >= 0
  /\ pv_status' = [pv_status EXCEPT ![x] =
       [state |-> IF @.state \in {UNKNOWN, SEARCHING, DISCONNECTED, TIMEOUT}
                    THEN CONNECTED ELSE @.state, ioc |-> Written[a]]]
  /\ UNCHANGED << pc, api, at, schema, recorded, pv_lookup, enabled, iocs,
                  mem, faults, edits >>

HandleDisconnect(p, x) ==
  /\ reports < MaxReports /\ reports' = reports + 1
  /\ pc[p] = "serving" /\ x \in monitored[p] /\ pv_status[x].state >= 0
  /\ SetState({x}, DISCONNECTED)
  /\ UNCHANGED << pc, api, at, schema, recorded, pv_lookup, enabled, iocs,
                  mem, faults, edits >>

\* The Unsubscribe command for a PV that is not enabled any more.
Unsubscribe(p, x) ==
  /\ pc[p] = "serving" /\ x \in monitored[p] \ enabled
  /\ monitored' = [monitored EXCEPT ![p] = @ \ {x}]
  /\ shared' = [shared EXCEPT ![p] = [y \in DOMAIN @ \ {x} |-> @[y]]]
  /\ pv_status' = [pv_status EXCEPT ![x].state =
                     IF @ >= 0 THEN UNSUBSCRIBED ELSE @]
  /\ UNCHANGED << pc, api, at, schema, recorded, pv_lookup, enabled, iocs,
                  cache, pvs, servers, seeding, bounds >>

Init ==
  /\ pc = [p \in Processes |-> "down"] /\ api = {}
  /\ at = [p \in Processes |-> 1]
  /\ schema = {} /\ recorded = {}
  /\ pv_lookup = [x \in Names |-> 0]
  /\ enabled = Names
  /\ ioc_config = [a \in Addresses |-> "absent"]
  /\ pv_status = [x \in Names |-> [state |-> -1, ioc |-> NoIoc]]
  /\ cache = [p \in Processes |-> Nothing]
  /\ shared = [p \in Processes |-> Nothing]
  /\ pvs = [p \in Processes |-> {}]
  /\ servers = [p \in Processes |-> {}]
  /\ seeding = [p \in Processes |-> {}]
  /\ monitored = [p \in Processes |-> {}]
  /\ by_hand = {}
  /\ faults = 0 /\ edits = 0 /\ reports = 0

Boot(p) ==
  \/ Start(p) \/ CheckMigration(p) \/ RunMigration(p) \/ RecordMigration(p)
  \/ ServeApi(p) \/ Connect(p) \/ StartDiscovery(p)
  \/ CountIocs(p) \/ (\E a \in Addresses : SeedIoc(p, a)) \/ LoadServers(p)
  \/ Snapshot(p) \/ RegisterPvs(p) \/ Subscribe(p) \/ InitStatus(p)

Run(p) ==
  \/ \E x \in Names : Resolve(p, x) \/ HandleDisconnect(p, x) \/ Unsubscribe(p, x)
  \/ \E x \in Names, a \in Sockets : HandleConnect(p, x, a)
  \/ Crash(p)

Operators ==
  \/ \E a \in Addresses : CreateIoc(a) \/ EditIoc(a)
  \/ \E x \in Names : EditPv(x)

Next == (\E p \in Processes : Boot(p) \/ Run(p)) \/ Operators

Spec == Init /\ [][Next]_vars

----------------------------------------------------------------------------
\* A process past its migrations works on the whole schema, its API thread too,
\* and a version in _aura_migrations was applied, whoever crashed between a
\* migration and its record or ran it at the same time (Migrations::run).
ServingHasSchema ==
  /\ recorded \subseteq schema
  /\ \A p \in Processes :
       p \in api \/ pc[p] \notin {"down", "check", "run", "record"}
         => schema = Versions

\* Whatever processes meet over pv_lookup, and however their resolves, inserts,
\* subscribes and restarts interleave, every id a process holds is the id of
\* that name and no two names share one; a cache keeps to its cap (pv_cache.rs:
\* "all instances converge to the same mapping").
IdsAgree ==
  /\ \A p \in Processes :
       /\ \A x \in Cached(p) : cache[p][x] = pv_lookup[x]
       /\ \A x \in DOMAIN shared[p] : shared[p][x] = pv_lookup[x]
       /\ Cardinality(Cached(p)) <= MaxEntries
  /\ \A x, y \in Known : pv_lookup[x] = pv_lookup[y] => x = y

\* The page has one row for an IOC, although the API, aura.toml, operators and
\* the reports each write its address and the join compares texts: a second
\* row, declared and without PVs beside one with PVs and undeclared, takes an
\* address that somebody wrote in SQL or in aura.toml in another form than
\* SocketAddr prints.  A row that main can never connect to comes from SQL
\* only (normalize_address: "the worst kind of failure").
OneRowPerIoc ==
  LET page    == list(ioc_config, pv_status)
      rows(a) == { r \in page : Parse[r.address] = a }
  IN  /\ \A a \in Sockets :
           \/ \A r, q \in rows(a) : r = q
           \/ \E t \in by_hand \cup Seeds :
                t # Written[a] /\ Parse[t] = a /\ ioc_config[t] # "absent"
      /\ \A r \in page : Parse[r.address] = NoIoc => r.address \in by_hand
=============================================================================
