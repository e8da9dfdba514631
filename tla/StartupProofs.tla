--------------------------- MODULE StartupProofs ---------------------------
(***************************************************************************)
(* The three invariants of Startup, for any number of processes, versions, *)
(* names and addresses and without bounds on crashes, edits and reports.   *)
(*                                                                         *)
(* They rest on different variables and are proved apart: SchemaInv on     *)
(* where each process is in its migrations, IdsInv on pv_lookup and the    *)
(* maps copied from it, RowsInv on where the addresses in ioc_config and   *)
(* pv_status come from.                                                    *)
(***************************************************************************)
EXTENDS Startup, TLAPS, FiniteSetTheorems

Migrating == {"check", "run", "record"}
PastMigrations == {"api", "connect", "discover", "seed", "load", "snapshot",
                   "subscribe", "ids", "status", "serving"}

----------------------------------------------------------------------------
(* The migrations.                                                         *)

\* What is recorded was applied; a process at migration n has seen all before
\* n recorded; it records what it applied; past them there is nothing left.
SchemaInv ==
  /\ schema \subseteq Versions /\ recorded \subseteq schema
  /\ pc \in [Processes -> {"down"} \cup Migrating \cup PastMigrations]
  /\ at \in [Processes -> Nat \ {0}]
  /\ \A p \in Processes :
       /\ pc[p] \in Migrating => 1..(at[p] - 1) \subseteq recorded
       /\ pc[p] \in {"run", "record"} => at[p] \in Versions
       /\ pc[p] = "record" => at[p] \in schema
       /\ p \in api \/ pc[p] \in PastMigrations => schema = Versions

schemaVars == << pc, api, at, schema, recorded >>

\* A step of p that leaves the migrations alone: p moves on, or goes down.
MovesOn(p) ==
  /\ pc[p] \in PastMigrations
  /\ \E w \in PastMigrations : pc' = [pc EXCEPT ![p] = w]
  /\ api' \subseteq api \cup {p}
  /\ UNCHANGED << at, schema, recorded >>

Stops(p) ==
  /\ pc' = [pc EXCEPT ![p] = "down"]
  /\ api' = api \ {p}
  /\ UNCHANGED << at, schema, recorded >>

LEMMA InitSchema == Init => SchemaInv
BY StartupAssumption DEF Init, SchemaInv, Versions, Migrating, PastMigrations

LEMMA SchemaMovesOn ==
  ASSUME SchemaInv, NEW p \in Processes, MovesOn(p)
  PROVE  SchemaInv'
BY DEF SchemaInv, MovesOn, Migrating, PastMigrations, Versions

LEMMA SchemaStops ==
  ASSUME SchemaInv, NEW p \in Processes, Stops(p)
  PROVE  SchemaInv'
BY DEF SchemaInv, Stops, Migrating, PastMigrations, Versions

LEMMA SchemaStart ==
  ASSUME SchemaInv, NEW p \in Processes, Start(p)
  PROVE  SchemaInv'
<1>1. /\ pc' = [pc EXCEPT ![p] = "check"] /\ at' = [at EXCEPT ![p] = 1]
      /\ UNCHANGED << api, schema, recorded >>
  BY DEF Start, Goto, db
<1> QED
  BY <1>1 DEF SchemaInv, Migrating, PastMigrations, Versions

\* The EXISTS of a version skips it; at the last one everything is recorded.
LEMMA SchemaCheck ==
  ASSUME SchemaInv, NEW p \in Processes, CheckMigration(p)
  PROVE  SchemaInv'
<1>1. /\ pc[p] = "check"
      /\ UNCHANGED << api, schema, recorded >>
  BY DEF CheckMigration, db
<1>2. CASE at[p] \notin Versions
  <2>1. pc' = [pc EXCEPT ![p] = "api"] /\ at' = at
    <3>1. at[p] \notin recorded
      BY <1>2 DEF SchemaInv
    <3> QED
      BY <1>2, <3>1 DEF CheckMigration, Goto
  <2>2. NVersions < at[p]
    BY <1>2, StartupAssumption DEF SchemaInv, Versions
  <2>3. Versions \subseteq recorded
    BY <1>1, <2>2, StartupAssumption DEF SchemaInv, Versions, Migrating
  <2>4. schema = Versions
    BY <2>3 DEF SchemaInv
  <2> QED
    BY <1>1, <2>1, <2>4 DEF SchemaInv, Migrating, PastMigrations
<1>3. CASE at[p] \in Versions /\ at[p] \in recorded
  <2>1. at' = [at EXCEPT ![p] = @ + 1] /\ pc' = pc
    BY <1>3 DEF CheckMigration
  <2>2. 1..(at[p] + 1 - 1) \subseteq recorded
    BY <1>1, <1>3 DEF SchemaInv, Migrating
  <2> QED
    BY <1>1, <2>1, <2>2 DEF SchemaInv, Migrating, PastMigrations
<1>4. CASE at[p] \in Versions /\ at[p] \notin recorded
  <2>1. pc' = [pc EXCEPT ![p] = "run"] /\ at' = at
    BY <1>4 DEF CheckMigration, Goto
  <2> QED
    BY <1>1, <1>4, <2>1 DEF SchemaInv, Migrating, PastMigrations
<1> QED
  BY <1>2, <1>3, <1>4

LEMMA SchemaRun ==
  ASSUME SchemaInv, NEW p \in Processes, RunMigration(p)
  PROVE  SchemaInv'
<1>1. CASE Stops(p)
  BY <1>1, SchemaStops
<1>2. CASE /\ pc[p] = "run" /\ pc' = [pc EXCEPT ![p] = "record"]
           /\ schema' = schema \cup { at[p] }
           /\ UNCHANGED << api, at, recorded >>
  BY <1>2 DEF SchemaInv, Migrating, PastMigrations
<1> QED
  BY <1>1, <1>2 DEF RunMigration, Stops, Down, Goto

LEMMA SchemaRecord ==
  ASSUME SchemaInv, NEW p \in Processes, RecordMigration(p)
  PROVE  SchemaInv'
<1>1. CASE Stops(p)
  BY <1>1, SchemaStops
<1>2. CASE /\ pc[p] = "record" /\ pc' = [pc EXCEPT ![p] = "check"]
           /\ recorded' = recorded \cup { at[p] }
           /\ at' = [at EXCEPT ![p] = @ + 1]
           /\ UNCHANGED << api, schema >>
  <2>1. 1..(at[p] + 1 - 1) \subseteq recorded'
    BY <1>2 DEF SchemaInv, Migrating
  <2> QED
    BY <1>2, <2>1 DEF SchemaInv, Migrating, PastMigrations
<1> QED
  BY <1>1, <1>2 DEF RecordMigration, Stops, Down, Goto

LEMMA NextSchema == SchemaInv /\ [Next]_vars => SchemaInv'
<1> SUFFICES ASSUME SchemaInv, [Next]_vars PROVE SchemaInv'
  OBVIOUS
<1>1. CASE UNCHANGED schemaVars
  BY <1>1 DEF SchemaInv, schemaVars, Versions
<1>2. ASSUME NEW p \in Processes, Boot(p) PROVE SchemaInv'
  <2>1. CASE Start(p) \/ CheckMigration(p) \/ RunMigration(p) \/ RecordMigration(p)
    BY <2>1, SchemaStart, SchemaCheck, SchemaRun, SchemaRecord
  <2>2. CASE ServeApi(p) \/ StartDiscovery(p) \/ CountIocs(p) \/ LoadServers(p)
    <3>1. MovesOn(p)
      BY <2>2 DEF ServeApi, StartDiscovery, CountIocs, LoadServers, MovesOn,
                  PastMigrations, Goto, db
    <3> QED
      BY <3>1, SchemaMovesOn
  <2>3. CASE Snapshot(p) \/ RegisterPvs(p) \/ Subscribe(p) \/ InitStatus(p)
    <3>1. MovesOn(p)
      BY <2>3 DEF Snapshot, RegisterPvs, Subscribe, InitStatus, MovesOn,
                  PastMigrations, Goto, db
    <3> QED
      BY <3>1, SchemaMovesOn
  <2>4. CASE Connect(p)
    <3>1. MovesOn(p) \/ Stops(p)
      BY <2>4 DEF Connect, MovesOn, Stops, Down, PastMigrations, Goto, db
    <3> QED
      BY <3>1, SchemaMovesOn, SchemaStops
  <2>5. CASE \E a \in Addresses : SeedIoc(p, a)
    BY <1>1, <2>5 DEF SeedIoc, schemaVars
  <2> QED
    BY <1>2, <2>1, <2>2, <2>3, <2>4, <2>5 DEF Boot
<1>3. ASSUME NEW p \in Processes, Run(p) PROVE SchemaInv'
  <2>1. CASE Crash(p)
    <3>1. Stops(p)
      BY <2>1 DEF Crash, Stops, Down, Goto, db
    <3> QED
      BY <3>1, SchemaStops
  <2>2. CASE ~Crash(p)
    <3>1. UNCHANGED schemaVars
      BY <1>3, <2>2 DEF Run, Resolve, HandleDisconnect, Unsubscribe, HandleConnect,
                        schemaVars, db
    <3> QED
      BY <1>1, <3>1
  <2> QED
    BY <2>1, <2>2
<1>4. CASE Operators
  BY <1>1, <1>4 DEF Operators, CreateIoc, EditIoc, EditPv, schemaVars
<1>5. CASE UNCHANGED vars
  BY <1>1, <1>5 DEF vars, schemaVars, db
<1> QED
  BY <1>2, <1>3, <1>4, <1>5 DEF Next

\* A process past its migrations, and every API thread, works on the whole
\* schema, and nothing is recorded that was not applied, for any number of
\* processes that crash and race over one database (Migrations::run).
THEOREM StartupServingHasSchema == Spec => []ServingHasSchema
<1>1. SchemaInv => ServingHasSchema
  BY DEF SchemaInv, ServingHasSchema, Migrating, PastMigrations
<1> QED
  BY <1>1, InitSchema, NextSchema, PTL DEF Spec

----------------------------------------------------------------------------
(* The tables behind the page of IOCs.                                     *)

Row == [state : Int, ioc : Addresses \cup {NoIoc}]

\* A declared address is a seed that parses, one that an operator wrote, or one
\* that SocketAddr printed; so is the IOC of a PV.
RowsInv ==
  /\ DOMAIN ioc_config = Addresses /\ DOMAIN seeding = Processes
  /\ \A t \in Addresses : ioc_config[t] # "absent" =>
       t \in by_hand \/ t \in Seedable \/ \E a \in Sockets : t = Written[a]
  /\ \A p \in Processes : seeding[p] \subseteq Seedable
  /\ pv_status \in [Names -> Row]
  /\ \A x \in Names :
       pv_status[x].ioc # NoIoc => \E a \in Sockets : pv_status[x].ioc = Written[a]

rowsVars == << ioc_config, by_hand, seeding, pv_status >>

LEMMA InitRows == Init => RowsInv
BY DEF Init, RowsInv, Row

\* Writing states keeps the addresses.
LEMMA SetStateRows ==
  ASSUME RowsInv, NEW names, NEW s \in Int, SetState(names, s),
         UNCHANGED << ioc_config, by_hand, seeding >>
  PROVE  RowsInv'
<1>1. ASSUME NEW x \in Names
      PROVE  pv_status'[x] \in Row /\ pv_status'[x].ioc = pv_status[x].ioc
  <2>1. pv_status'[x] = IF x \in names THEN [pv_status[x] EXCEPT !.state = s]
                        ELSE pv_status[x]
    BY DEF SetState
  <2> QED
    BY <2>1 DEF RowsInv, Row
<1>2. pv_status' \in [Names -> Row]
  BY <1>1 DEF SetState
<1> QED
  BY <1>1, <1>2 DEF RowsInv

LEMMA ForgetSeeds ==
  ASSUME RowsInv, NEW p \in Processes, NEW S \in SUBSET Seedable,
         seeding' = [seeding EXCEPT ![p] = S],
         UNCHANGED << ioc_config, by_hand, pv_status >>
  PROVE  RowsInv'
BY DEF RowsInv

\* One address is declared or deleted.
LEMMA OneAddress ==
  ASSUME RowsInv, NEW t \in Addresses, NEW e,
         ioc_config' = [ioc_config EXCEPT ![t] = e],
         by_hand \subseteq by_hand',
         e # "absent" =>
           \/ ioc_config[t] # "absent" \/ t \in by_hand' \/ t \in Seedable
           \/ \E a \in Sockets : t = Written[a],
         UNCHANGED pv_status, DOMAIN seeding' = Processes,
         \A p \in Processes : seeding'[p] \subseteq seeding[p]
  PROVE  RowsInv'
BY DEF RowsInv

LEMMA NextRows == RowsInv /\ [Next]_vars => RowsInv'
<1> SUFFICES ASSUME RowsInv, [Next]_vars PROVE RowsInv'
  OBVIOUS
<1>1. CASE UNCHANGED rowsVars
  BY <1>1 DEF RowsInv, rowsVars
<1>2. ASSUME NEW p \in Processes, Down(p),
             UNCHANGED << ioc_config, by_hand, pv_status >>
      PROVE  RowsInv'
  BY <1>2, ForgetSeeds DEF Down
<1>3. ASSUME NEW p \in Processes, Boot(p) PROVE RowsInv'
  <2>1. CASE Start(p) \/ CheckMigration(p) \/ ServeApi(p) \/ StartDiscovery(p)
             \/ LoadServers(p) \/ Snapshot(p) \/ RegisterPvs(p)
    BY <1>1, <2>1 DEF Start, CheckMigration, ServeApi, StartDiscovery,
                      LoadServers, Snapshot, RegisterPvs, rowsVars, db, iocs, mem
  <2>2. CASE RunMigration(p) \/ RecordMigration(p) \/ Connect(p)
    <3>1. /\ UNCHANGED << ioc_config, by_hand, pv_status >>
          /\ Down(p) \/ UNCHANGED seeding
      BY <2>2 DEF RunMigration, RecordMigration, Connect, db, iocs, mem
    <3> QED
      BY <1>1, <1>2, <3>1 DEF rowsVars
  <2>3. CASE CountIocs(p)
    <3>1. PICK S \in SUBSET Seedable : seeding' = [seeding EXCEPT ![p] = S]
      BY <2>3 DEF CountIocs
    <3>2. UNCHANGED << ioc_config, by_hand, pv_status >>
      BY <2>3 DEF CountIocs, db, iocs
    <3> QED
      BY <3>1, <3>2, ForgetSeeds
  <2>4. ASSUME NEW t \in Addresses, SeedIoc(p, t) PROVE RowsInv'
    <3>1. /\ t \in seeding[p] /\ UNCHANGED << pv_status, by_hand >>
          /\ seeding' = [seeding EXCEPT ![p] = @ \ {t}]
      BY <2>4 DEF SeedIoc
    <3>2. t \in Seedable
      BY <3>1 DEF RowsInv
    <3>3. /\ DOMAIN seeding' = Processes
          /\ \A q \in Processes : seeding'[q] \subseteq seeding[q]
      BY <3>1 DEF RowsInv
    <3>4. CASE UNCHANGED ioc_config
      BY <3>1, <3>3, <3>4 DEF RowsInv
    <3>5. CASE ioc_config' = [ioc_config EXCEPT ![t] =
                                IF @ = "absent" THEN "enabled" ELSE @]
      BY <3>1, <3>2, <3>3, <3>5, OneAddress
    <3> QED
      BY <2>4, <3>4, <3>5 DEF SeedIoc
  <2>5. CASE Subscribe(p)
    <3>1. /\ UNCHANGED << ioc_config, by_hand, seeding >>
          /\ \E names : SetState(names, SEARCHING)
      BY <2>5 DEF Subscribe, iocs
    <3> QED
      BY <3>1, SetStateRows DEF SEARCHING
  <2>6. CASE InitStatus(p)
    <3>1. /\ UNCHANGED << ioc_config, by_hand, seeding >>
          /\ SetState(DOMAIN shared[p], ARCHIVING) \/ UNCHANGED pv_status
      BY <2>6 DEF InitStatus, iocs, mem
    <3> QED
      BY <1>1, <3>1, SetStateRows DEF rowsVars, ARCHIVING
  <2> QED
    BY <1>3, <2>1, <2>2, <2>3, <2>4, <2>5, <2>6 DEF Boot
<1>4. ASSUME NEW p \in Processes, Run(p) PROVE RowsInv'
  <2>1. CASE \E x \in Names : Resolve(p, x)
    BY <1>1, <2>1 DEF Resolve, rowsVars, iocs
  <2>2. CASE Crash(p)
    BY <1>2, <2>2 DEF Crash, db, iocs
  <2>3. ASSUME NEW x \in Names, HandleDisconnect(p, x) PROVE RowsInv'
    <3>1. /\ UNCHANGED << ioc_config, by_hand, seeding >>
          /\ SetState({x}, DISCONNECTED)
      BY <2>3 DEF HandleDisconnect, iocs, mem
    <3> QED
      BY <3>1, SetStateRows DEF DISCONNECTED
  <2>4. ASSUME NEW x \in Names, NEW a \in Sockets, HandleConnect(p, x, a)
        PROVE  RowsInv'
    <3> DEFINE row == [state |-> IF pv_status[x].state \in
                                     {UNKNOWN, SEARCHING, DISCONNECTED, TIMEOUT}
                                   THEN CONNECTED ELSE pv_status[x].state,
                       ioc |-> Written[a]]
    <3>1. /\ UNCHANGED << ioc_config, by_hand, seeding >>
          /\ pv_status' = [pv_status EXCEPT ![x] = row]
      BY <2>4 DEF HandleConnect, iocs, mem
    <3>2. pv_status[x] \in Row /\ Written[a] \in Addresses
      BY StartupAssumption DEF RowsInv
    <3>3. row \in Row /\ row.ioc = Written[a]
      BY <3>2 DEF Row, CONNECTED
    <3> HIDE DEF row
    <3> QED
      BY <3>1, <3>3 DEF RowsInv
  <2>5. ASSUME NEW x \in Names, Unsubscribe(p, x) PROVE RowsInv'
    <3> DEFINE row == [pv_status[x] EXCEPT !.state =
                         IF @ >= 0 THEN UNSUBSCRIBED ELSE @]
    <3>1. /\ UNCHANGED << ioc_config, by_hand, seeding >>
          /\ pv_status' = [pv_status EXCEPT ![x] = row]
      BY <2>5 DEF Unsubscribe, iocs
    <3>2. pv_status[x] \in Row
      BY DEF RowsInv
    <3>3. row \in Row /\ row.ioc = pv_status[x].ioc
      BY <3>2 DEF Row, UNSUBSCRIBED
    <3> HIDE DEF row
    <3> QED
      BY <3>1, <3>3 DEF RowsInv
  <2> QED
    BY <1>4, <2>1, <2>2, <2>3, <2>4, <2>5 DEF Run
<1>5. CASE Operators
  <2>1. ASSUME NEW t \in Addresses, CreateIoc(t) PROVE RowsInv'
    <3>1. PICK a \in Sockets : normalize_address(t) = Written[a]
      BY <2>1, StartupAssumption DEF CreateIoc, normalize_address
    <3>2. /\ ioc_config' = [ioc_config EXCEPT ![Written[a]] = "enabled"]
          /\ UNCHANGED << by_hand, pv_status, seeding >>
      BY <2>1, <3>1 DEF CreateIoc, mem
    <3>3. Written[a] \in Addresses /\ DOMAIN seeding = Processes
      BY StartupAssumption DEF RowsInv
    <3> QED
      BY <3>2, <3>3, OneAddress
  <2>2. ASSUME NEW t \in Addresses, EditIoc(t) PROVE RowsInv'
    <3>1. PICK e : ioc_config' = [ioc_config EXCEPT ![t] = e]
      BY <2>2 DEF EditIoc
    <3>2. /\ ioc_config[t] # "absent" \/ t \in by_hand'
          /\ by_hand \subseteq by_hand' /\ UNCHANGED << pv_status, seeding >>
      BY <2>2 DEF EditIoc, mem
    <3>3. DOMAIN seeding = Processes
      BY DEF RowsInv
    <3> QED
      BY <3>1, <3>2, <3>3, OneAddress
  <2>3. ASSUME NEW x \in Names, EditPv(x) PROVE RowsInv'
    BY <1>1, <2>3 DEF EditPv, rowsVars, iocs, mem
  <2> QED
    BY <1>5, <2>1, <2>2, <2>3 DEF Operators
<1>6. CASE UNCHANGED vars
  BY <1>1, <1>6 DEF vars, rowsVars, db, iocs, mem
<1> QED
  BY <1>3, <1>4, <1>5, <1>6 DEF Next

\* A row of the page is determined by its address, which is declared or the
\* IOC of some PV.
LEMMA PageRows ==
  ASSUME NEW config, NEW status
  PROVE  /\ \A r, q \in list(config, status) : r.address = q.address => r = q
         /\ \A r \in list(config, status) :
              /\ r.address \in Addresses
              /\ \/ config[r.address] # "absent"
                 \/ \E x \in DOMAIN status : status[x].ioc = r.address
<1> DEFINE Entry(b) == [address |-> b, declared |-> config[b] # "absent",
                        state |-> derive_state(config[b] # "absent",
                                    config[b] # "disabled", status, b)]
<1>1. list(config, status) = { Entry(b) : b \in Merged(config, status) }
  BY DEF list
<1>2. \A b : Entry(b).address = b
  OBVIOUS
<1> HIDE DEF Entry
<1>3. ASSUME NEW b \in Serving(status)
      PROVE  \E x \in DOMAIN status : status[x].ioc = b
  <2> DEFINE S == { x \in DOMAIN status : status[x].ioc = b /\ status[x].state >= 0 }
  <2>1. Cardinality(S) > 0
    BY DEF Serving, Total
  <2>2. S # {}
    BY <2>1, FS_EmptySet
  <2> QED
    BY <2>2
<1> QED
  BY <1>1, <1>2, <1>3 DEF Merged, Declared, Serving

\* One row per IOC unless somebody wrote its address in another form, and a row
\* that main cannot connect to was written in SQL, for any addresses, any parser
\* and printer that fit together, and whatever operators and restarting
\* processes do to the tables.
THEOREM StartupOneRowPerIoc == Spec => []OneRowPerIoc
<1>1. ASSUME RowsInv PROVE OneRowPerIoc
  <2> DEFINE page == list(ioc_config, pv_status)
  <2>1. ASSUME NEW r \in page
        PROVE  /\ r.address \in Addresses
               /\ \/ r.address \in by_hand /\ ioc_config[r.address] # "absent"
                  \/ r.address \in Seedable /\ ioc_config[r.address] # "absent"
                  \/ \E a \in Sockets : r.address = Written[a] /\ Parse[r.address] = a
    <3>1. /\ r.address \in Addresses
          /\ \/ ioc_config[r.address] # "absent"
             \/ \E x \in Names : pv_status[x].ioc = r.address
      BY <1>1, PageRows DEF RowsInv
    <3>2. r.address # NoIoc
      BY <3>1, StartupAssumption
    <3> QED
      BY <1>1, <3>1, <3>2, StartupAssumption DEF RowsInv
  <2>2. \A r, q \in page : r.address = q.address => r = q
    BY PageRows
  <2> HIDE DEF page
  <2>3. ASSUME NEW a \in Sockets,
               ~ \E t \in by_hand \cup Seeds :
                   t # Written[a] /\ Parse[t] = a /\ ioc_config[t] # "absent"
        PROVE  \A r, q \in { x \in page : Parse[x.address] = a } : r = q
    <3>1. ASSUME NEW r \in page, Parse[r.address] = a
          PROVE  r.address = Written[a]
      BY <2>1, <2>3, <3>1 DEF Seedable
    <3> QED
      BY <2>2, <3>1
  <2>4. ASSUME NEW r \in page, Parse[r.address] = NoIoc
        PROVE  r.address \in by_hand
    BY <2>1, <2>4, StartupAssumption DEF Seedable
  <2> QED
    BY <2>3, <2>4 DEF OneRowPerIoc, page
<1> QED
  BY <1>1, InitRows, NextRows, PTL DEF Spec

----------------------------------------------------------------------------
(* Ids.                                                                    *)

\* A table of ids: one of them is the greatest, and no two names share one.
LookupOK(l) ==
  /\ l \in [Names -> Nat]
  /\ \E m \in {0} \cup Range(l) : \A i \in {0} \cup Range(l) : m >= i
  /\ \A x, y \in Names : l[x] # 0 /\ l[x] = l[y] => x = y

\* A map that holds, for some registered names, the id of the table.
CopyOf(map, l) ==
  /\ DOMAIN map \subseteq Names
  /\ \A x \in DOMAIN map : map[x] = l[x] /\ l[x] # 0

\* An id given to a name stays its id.
Grows(l, l2) == \A x \in Names : l[x] # 0 => l2[x] = l[x]

IdsInv ==
  /\ LookupOK(pv_lookup)
  /\ enabled \subseteq Names
  /\ DOMAIN cache = Processes /\ DOMAIN shared = Processes
  /\ DOMAIN pvs = Processes
  /\ \A p \in Processes :
       /\ CopyOf(cache[p], pv_lookup) /\ CopyOf(shared[p], pv_lookup)
       /\ pvs[p] \subseteq Names
       /\ Cardinality(DOMAIN cache[p]) <= MaxEntries

idsVars == << pv_lookup, enabled, cache, shared, pvs >>

LEMMA NothingCopied == \A l : CopyOf(Nothing, l) /\ Cardinality(DOMAIN Nothing) = 0
<1>1. DOMAIN Nothing = {}
  BY DEF Nothing
<1> QED
  BY <1>1, FS_EmptySet DEF CopyOf

LEMMA InitIds == Init => IdsInv
<1> SUFFICES ASSUME Init PROVE IdsInv
  OBVIOUS
<1>1. pv_lookup = [x \in Names |-> 0]
  BY DEF Init
<1>2. {0} \cup Range(pv_lookup) = {0}
  BY <1>1 DEF Range
<1>3. LookupOK(pv_lookup)
  BY <1>1, <1>2 DEF LookupOK
<1> QED
  BY <1>3, NothingCopied, StartupAssumption DEF Init, IdsInv

\* The id that pv_lookup's sequence gives next is above all that are in use.
LEMMA NextIdIsFresh ==
  ASSUME LookupOK(pv_lookup)
  PROVE  /\ NextId \in Nat \ {0}
         /\ \A x \in Names : pv_lookup[x] < NextId
<1> DEFINE S == {0} \cup Range(pv_lookup)
<1>1. /\ S \subseteq Nat /\ \A x \in Names : pv_lookup[x] \in S
      /\ \E m \in S : \A i \in S : m >= i
  BY DEF LookupOK, Range
<1>2. NextId = 1 + Max(S)
  BY DEF NextId
<1> HIDE DEF S
<1>3. Max(S) \in S /\ \A i \in S : Max(S) >= i
  BY <1>1 DEF Max
<1>4. Max(S) \in Nat
  BY <1>1, <1>3
<1>5. \A x \in Names : pv_lookup[x] \in Nat /\ Max(S) >= pv_lookup[x]
  BY <1>1, <1>3
<1> QED
  BY <1>2, <1>4, <1>5

\* INSERT .. ON CONFLICT DO UPDATE of one name.
LEMMA UpsertOK ==
  ASSUME LookupOK(pv_lookup), NEW name \in Names
  PROVE  LET l2 == [pv_lookup EXCEPT ![name] = Upsert(name)]
         IN  LookupOK(l2) /\ Grows(pv_lookup, l2) /\ l2[name] = Upsert(name)
             /\ Upsert(name) # 0
<1> DEFINE l2 == [pv_lookup EXCEPT ![name] = Upsert(name)]
<1>1. pv_lookup \in [Names -> Nat]
  BY DEF LookupOK
<1>2. CASE pv_lookup[name] # 0
  BY <1>1, <1>2 DEF Upsert, Grows
<1>3. CASE pv_lookup[name] = 0
  <2>1. Upsert(name) = NextId
    BY <1>3 DEF Upsert
  <2>2. /\ l2 \in [Names -> Nat] /\ l2[name] = NextId
        /\ \A x \in Names : x # name => l2[x] = pv_lookup[x]
    BY <1>1, <2>1, NextIdIsFresh
  <2>3. \A i \in {0} \cup Range(l2) : NextId >= i
    BY <2>2, NextIdIsFresh DEF Range
  <2>4. NextId \in Range(l2)
    BY <2>2 DEF Range
  <2>5. LookupOK(l2)
    <3>1. \E m \in {0} \cup Range(l2) : \A i \in {0} \cup Range(l2) : m >= i
      BY <2>3, <2>4
    <3>2. ASSUME NEW x \in Names, NEW y \in Names, l2[x] # 0, l2[x] = l2[y]
          PROVE  x = y
      BY <2>2, <3>2, <1>1, NextIdIsFresh DEF LookupOK
    <3> QED
      BY <2>2, <3>1, <3>2 DEF LookupOK
  <2> QED
    BY <1>3, <2>1, <2>2, <2>5, NextIdIsFresh DEF Grows
<1> QED
  BY <1>2, <1>3

\* SetToSeq numbers the elements of a finite set.
LEMMA SetToSeqNumbers ==
  ASSUME NEW S, IsFiniteSet(S)
  PROVE  /\ Cardinality(S) \in Nat
         /\ SetToSeq(S) \in [1..Cardinality(S) -> S]
         /\ \A j, k \in 1..Cardinality(S) : SetToSeq(S)[j] = SetToSeq(S)[k] => j = k
         /\ \A x \in S : \E k \in 1..Cardinality(S) : SetToSeq(S)[k] = x
<1> DEFINE n == Cardinality(S)
<1>1. n \in Nat /\ ExistsBijection(1..n, S)
  BY FS_CardinalityType
<1>2. PICK f \in [1..n -> S] : IsInjective(f)
  BY <1>1 DEF ExistsBijection, Bijection, Injection
<1>3. SetToSeq(S) \in [1..n -> S] /\ IsInjective(SetToSeq(S))
  BY <1>2 DEF SetToSeq
<1>4. SetToSeq(S) \in Injection(1..n, S)
  BY <1>3 DEF Injection
<1>5. Cardinality(1..n) = n
  BY <1>1, FS_Interval
<1>6. SetToSeq(S) \in Surjection(1..n, S)
  BY <1>4, <1>5, FS_Injection
<1> QED
  BY <1>1, <1>3, <1>6 DEF IsInjective, Surjection

\* INSERT .. ON CONFLICT DO NOTHING of several names gives the new ones ids
\* of their own, above those in use.
LEMMA InsertedOK ==
  ASSUME LookupOK(pv_lookup), NEW names \in SUBSET Names
  PROVE  LET l2 == Inserted(names)
         IN  LookupOK(l2) /\ Grows(pv_lookup, l2) /\ \A x \in names : l2[x] # 0
<1> DEFINE F == { x \in names : pv_lookup[x] = 0 }
           fresh == SetToSeq(F)
           n == Cardinality(F)
           l2 == Inserted(names)
           Place(x) == CHOOSE k \in DOMAIN fresh : fresh[k] = x
<1>1. F \in SUBSET Names
  OBVIOUS
<1>2. IsFiniteSet(F)
  BY <1>1, FS_Subset, StartupAssumption
<1>3. /\ n \in Nat /\ DOMAIN fresh = 1..n
      /\ \A k \in 1..n : fresh[k] \in F
      /\ \A j, k \in 1..n : fresh[j] = fresh[k] => j = k
      /\ \A x \in F : \E k \in 1..n : fresh[k] = x
  BY <1>2, SetToSeqNumbers
<1>4. Range(fresh) = F
  <2> HIDE DEF fresh, n, F
  <2> QED
    BY <1>3 DEF Range
<1>5. l2 = [x \in Names |-> IF x \in Range(fresh) THEN NextId - 1 + Place(x)
                            ELSE pv_lookup[x]]
  BY DEF Inserted
<1> HIDE DEF l2, fresh, n
<1>6. \A x \in F : Place(x) \in 1..n /\ fresh[Place(x)] = x
  BY <1>3
<1> HIDE DEF Place
<1>7. NextId \in Nat \ {0} /\ \A x \in Names : pv_lookup[x] \in Nat /\ pv_lookup[x] < NextId
  BY NextIdIsFresh DEF LookupOK
<1>8. /\ \A x \in F : /\ l2[x] = NextId - 1 + Place(x)
                      /\ l2[x] \in Nat /\ l2[x] >= NextId
      /\ \A x \in Names \ F : l2[x] = pv_lookup[x]
  BY <1>1, <1>4, <1>5, <1>6, <1>7, <1>3
<1>9. l2 \in [Names -> Nat]
  <2>1. \A x \in Names : l2[x] \in Nat
    BY <1>7, <1>8
  <2> QED
    BY <1>5, <2>1
<1>10. \A x, y \in Names : l2[x] # 0 /\ l2[x] = l2[y] => x = y
  <2> SUFFICES ASSUME NEW x \in Names, NEW y \in Names, l2[x] # 0, l2[x] = l2[y]
               PROVE  x = y
    OBVIOUS
  <2>1. CASE x \in F /\ y \in F
    <3>1. Place(x) = Place(y)
      BY <1>3, <1>6, <1>7, <1>8, <2>1
    <3> QED
      BY <1>6, <2>1, <3>1
  <2>2. CASE x \notin F /\ y \notin F
    BY <1>8, <2>2 DEF LookupOK
  <2>3. CASE (x \in F) # (y \in F)
    BY <1>7, <1>8, <2>3
  <2> QED
    BY <2>1, <2>2, <2>3
<1>11. \E m \in {0} \cup Range(l2) : \A i \in {0} \cup Range(l2) : m >= i
  <2>1. CASE F = {}
    <3>1. l2 = pv_lookup
      BY <1>5, <1>4, <2>1 DEF LookupOK
    <3> QED
      BY <3>1 DEF LookupOK
  <2>2. CASE F # {}
    <3>1. n \in 1..n
      BY <1>3, <2>2
    <3>2. fresh[n] \in F /\ Place(fresh[n]) = n
      BY <1>3, <1>6, <3>1
    <3>3. l2[fresh[n]] = NextId - 1 + n
      BY <1>8, <3>2
    <3>4. \A x \in Names : NextId - 1 + n >= l2[x]
      BY <1>3, <1>6, <1>7, <1>8, <3>1
    <3>5. NextId - 1 + n \in Range(l2)
      BY <1>1, <1>9, <3>2, <3>3 DEF Range
    <3>6. \A i \in {0} \cup Range(l2) : NextId - 1 + n >= i
      BY <1>3, <1>7, <1>9, <3>4 DEF Range
    <3> QED
      BY <3>5, <3>6
  <2> QED
    BY <2>1, <2>2
<1>12. Grows(pv_lookup, l2) /\ \A x \in names : l2[x] # 0
  BY <1>1, <1>7, <1>8 DEF Grows
<1>13. LookupOK(l2)
  BY <1>9, <1>10, <1>11 DEF LookupOK
<1> QED
  BY <1>12, <1>13 DEF l2

LEMMA GrowsSame == \A l : Grows(l, l)
BY DEF Grows

\* A copy of the table stays one while the table only grows.
LEMMA CopyGrows ==
  ASSUME NEW map, NEW l, NEW l2, CopyOf(map, l), Grows(l, l2)
  PROVE  CopyOf(map, l2)
BY DEF CopyOf, Grows

LEMMA IdsGrow ==
  ASSUME IdsInv, NEW l2, LookupOK(l2), Grows(pv_lookup, l2)
  PROVE  \A p \in Processes :
           CopyOf(cache[p], l2) /\ CopyOf(shared[p], l2)
BY CopyGrows DEF IdsInv, Known, Grows

\* The rows of lowest id are no more than the cache takes: as many names have
\* a lower id as there are places before it.
LEMMA WarmedFits ==
  ASSUME LookupOK(pv_lookup)
  PROVE  CopyOf(Warmed, pv_lookup) /\ Cardinality(DOMAIN Warmed) <= MaxEntries
<1> DEFINE Below(y) == { z \in Known : pv_lookup[z] < pv_lookup[y] }
           D == { y \in Known : Cardinality(Below(y)) < MaxEntries }
           rank == [y \in D |-> Cardinality(Below(y))]
<1>1. Warmed = [x \in D |-> pv_lookup[x]]
  BY DEF Warmed
<1>2. D \subseteq Names /\ \A x \in D : pv_lookup[x] # 0
  BY DEF Known
<1>3. \A y \in Names : Below(y) \in SUBSET Names
  BY DEF Known
<1>4. \A y \in Names : IsFiniteSet(Below(y)) /\ Cardinality(Below(y)) \in Nat
  BY <1>3, FS_Subset, FS_CardinalityType, StartupAssumption
<1>5. rank \in [D -> 0..(MaxEntries - 1)]
  BY <1>2, <1>4, StartupAssumption
<1>6. ASSUME NEW y \in D, NEW z \in D, pv_lookup[y] < pv_lookup[z]
      PROVE  rank[y] # rank[z]
  <2>1. \A x \in Names : pv_lookup[x] \in Nat
    BY DEF LookupOK
  <2>2. Below(y) \in SUBSET Below(z) /\ y \in Below(z) /\ y \notin Below(y)
    BY <1>2, <1>6, <2>1 DEF Known
  <2>3. Cardinality(Below(y)) # Cardinality(Below(z))
    BY <1>2, <1>4, <2>2, FS_Subset
  <2> QED
    BY <2>3
<1>7. ASSUME NEW y \in D, NEW z \in D, rank[y] = rank[z]
      PROVE  y = z
  <2>1. pv_lookup[y] \in Nat /\ pv_lookup[z] \in Nat
    BY <1>2 DEF LookupOK
  <2>2. pv_lookup[y] = pv_lookup[z]
    <3> HIDE DEF D, rank
    <3> QED
      BY <1>6, <1>7, <2>1
  <2> QED
    BY <1>2, <2>2 DEF LookupOK
<1> HIDE DEF D, rank
<1>8. rank \in Injection(D, 0..(MaxEntries - 1))
  BY <1>5, <1>7 DEF Injection, IsInjective
<1>9. /\ IsFiniteSet(0..(MaxEntries - 1))
      /\ Cardinality(0..(MaxEntries - 1)) = MaxEntries
  BY FS_Interval, StartupAssumption
<1>10. Cardinality(D) <= MaxEntries
  BY <1>8, <1>9, FS_Injection
<1> QED
  BY <1>1, <1>2, <1>10 DEF CopyOf

LEMMA IdsDown ==
  ASSUME IdsInv, NEW p \in Processes, Down(p), UNCHANGED << pv_lookup, enabled >>
  PROVE  IdsInv'
<1>1. \A q \in Processes :
        /\ cache'[q] = IF q = p THEN Nothing ELSE cache[q]
        /\ shared'[q] = IF q = p THEN Nothing ELSE shared[q]
        /\ pvs'[q] = IF q = p THEN {} ELSE pvs[q]
  BY DEF Down, IdsInv
<1>2. DOMAIN cache' = Processes /\ DOMAIN shared' = Processes /\ DOMAIN pvs' = Processes
  BY DEF Down, IdsInv
<1> QED
  BY <1>1, <1>2, NothingCopied, StartupAssumption DEF IdsInv, Known

\* A process replaces one of its maps by another copy.
LEMMA IdsCache ==
  ASSUME IdsInv, NEW p \in Processes, NEW map,
         LookupOK(pv_lookup'), Grows(pv_lookup, pv_lookup'),
         CopyOf(map, pv_lookup'), Cardinality(DOMAIN map) <= MaxEntries,
         cache' = [cache EXCEPT ![p] = map],
         pvs' = pvs \/ pvs' = [pvs EXCEPT ![p] = {}],
         UNCHANGED << enabled, shared >>
  PROVE  IdsInv'
<1>1. \A q \in Processes :
        /\ cache'[q] = IF q = p THEN map ELSE cache[q]
        /\ pvs'[q] = pvs[q] \/ pvs'[q] = {}
  BY DEF IdsInv
<1>2. DOMAIN cache' = Processes /\ DOMAIN pvs' = Processes
  BY DEF IdsInv
<1> QED
  BY <1>1, <1>2, IdsGrow DEF IdsInv, Known

LEMMA IdsShared ==
  ASSUME IdsInv, NEW p \in Processes, NEW map,
         LookupOK(pv_lookup'), Grows(pv_lookup, pv_lookup'),
         CopyOf(map, pv_lookup'),
         shared' = [shared EXCEPT ![p] = map],
         pvs' = pvs \/ pvs' = [pvs EXCEPT ![p] = {}],
         UNCHANGED << enabled, cache >>
  PROVE  IdsInv'
<1>1. \A q \in Processes :
        /\ shared'[q] = IF q = p THEN map ELSE shared[q]
        /\ pvs'[q] = pvs[q] \/ pvs'[q] = {}
  BY DEF IdsInv
<1>2. DOMAIN shared' = Processes /\ DOMAIN pvs' = Processes
  BY DEF IdsInv
<1> QED
  BY <1>1, <1>2, IdsGrow DEF IdsInv, Known

\* A sample of a name that is not cached: the row's id, kept while there is room.
LEMMA IdsResolve ==
  ASSUME IdsInv, NEW p \in Processes, NEW name \in Names, Resolve(p, name)
  PROVE  IdsInv'
<1> DEFINE map == Remember(cache[p], name, Upsert(name))
<1>1. /\ name \notin DOMAIN cache[p]
      /\ pv_lookup' = [pv_lookup EXCEPT ![name] = Upsert(name)]
      /\ cache' = [cache EXCEPT ![p] = map]
      /\ UNCHANGED << enabled, shared, pvs >>
  BY DEF Resolve, Cached
<1>2. /\ LookupOK(pv_lookup') /\ Grows(pv_lookup, pv_lookup')
      /\ pv_lookup'[name] = Upsert(name) /\ Upsert(name) # 0
  BY <1>1, UpsertOK DEF IdsInv
<1>3. CopyOf(cache[p], pv_lookup') /\ Cardinality(DOMAIN cache[p]) <= MaxEntries
  BY <1>2, IdsGrow DEF IdsInv
<1>4. CopyOf(map, pv_lookup') /\ Cardinality(DOMAIN map) <= MaxEntries
  <2>1. CASE Cardinality(DOMAIN cache[p]) >= MaxEntries
    BY <1>3, <2>1 DEF Remember
  <2>2. CASE ~(Cardinality(DOMAIN cache[p]) >= MaxEntries)
    <3>1. map = [x \in DOMAIN cache[p] \cup {name} |->
                   IF x = name THEN Upsert(name) ELSE cache[p][x]]
      BY <2>2 DEF Remember
    <3>2. DOMAIN cache[p] \in SUBSET Names
      BY <1>3 DEF CopyOf
    <3>3. IsFiniteSet(DOMAIN cache[p]) /\ Cardinality(DOMAIN cache[p]) \in Nat
      BY <3>2, FS_Subset, FS_CardinalityType, StartupAssumption
    <3>4. Cardinality(DOMAIN cache[p] \cup {name}) = Cardinality(DOMAIN cache[p]) + 1
      BY <1>1, <3>3, FS_AddElement
    <3> QED
      BY <1>2, <1>3, <2>2, <3>1, <3>3, <3>4, StartupAssumption DEF CopyOf
  <2> QED
    BY <2>1, <2>2
<1> QED
  BY <1>1, <1>2, <1>4, IdsCache

\* The names of a subscribe are registered.
LEMMA IdsRegister ==
  ASSUME IdsInv, NEW p \in Processes, RegisterPvs(p)
  PROVE  IdsInv'
<1>1. /\ \E S \in {enabled, {}} : pvs' = [pvs EXCEPT ![p] = S]
      /\ pv_lookup' = Inserted(enabled) \/ pv_lookup' = pv_lookup
      /\ UNCHANGED << enabled, cache, shared >>
  BY DEF RegisterPvs
<1>2. LookupOK(pv_lookup') /\ Grows(pv_lookup, pv_lookup')
  <2>1. LookupOK(pv_lookup) /\ enabled \in SUBSET Names
    BY DEF IdsInv
  <2> QED
    BY <1>1, <2>1, InsertedOK, GrowsSame
<1>3. DOMAIN pvs' = Processes /\ \A q \in Processes : pvs'[q] \subseteq Names
  BY <1>1 DEF IdsInv
<1> QED
  BY <1>1, <1>2, <1>3, IdsGrow DEF IdsInv

\* subscribe_pvs overwrites with ids of the table, whichever of its statements
\* fail.
LEMMA IdsSubscribe ==
  ASSUME IdsInv, NEW p \in Processes, Subscribe(p)
  PROVE  IdsInv'
<1>1. PICK fresh \in SUBSET pvs[p] :
        /\ \A x \in fresh : pv_lookup[x] # 0
        /\ shared' = [shared EXCEPT ![p] = Refreshed(p, fresh)]
  BY DEF Subscribe
<1>2. /\ UNCHANGED << pv_lookup, enabled, cache >>
      /\ pvs' = [pvs EXCEPT ![p] = {}]
  BY DEF Subscribe
<1>3. CopyOf(shared[p], pv_lookup) /\ fresh \subseteq Names
  BY DEF IdsInv
<1>4. CopyOf(Refreshed(p, fresh), pv_lookup)
  BY <1>1, <1>3 DEF CopyOf, Refreshed
<1>5. LookupOK(pv_lookup') /\ Grows(pv_lookup, pv_lookup')
  BY <1>2, GrowsSame DEF IdsInv
<1> QED
  BY <1>1, <1>2, <1>4, <1>5, IdsShared

LEMMA NextIds == IdsInv /\ [Next]_vars => IdsInv'
<1> SUFFICES ASSUME IdsInv, [Next]_vars PROVE IdsInv'
  OBVIOUS
<1> USE DEF idsVars
<1>1. CASE UNCHANGED idsVars
  BY <1>1 DEF IdsInv, Known
<1>2. UNCHANGED pv_lookup => LookupOK(pv_lookup') /\ Grows(pv_lookup, pv_lookup')
  BY GrowsSame DEF IdsInv
<1>3. ASSUME NEW p \in Processes, Boot(p) PROVE IdsInv'
  <2>1. CASE Start(p) \/ CheckMigration(p) \/ ServeApi(p) \/ StartDiscovery(p)
             \/ CountIocs(p) \/ (\E a \in Addresses : SeedIoc(p, a))
             \/ LoadServers(p) \/ InitStatus(p)
    BY <1>1, <2>1 DEF Start, CheckMigration, ServeApi, StartDiscovery, CountIocs,
                      SeedIoc, LoadServers, InitStatus, db, mem
  <2>2. CASE RunMigration(p) \/ RecordMigration(p)
    <3>1. /\ UNCHANGED << pv_lookup, enabled >>
          /\ Down(p) \/ UNCHANGED << cache, shared, pvs >>
      BY <2>2 DEF RunMigration, RecordMigration, mem
    <3> QED
      BY <1>1, <3>1, IdsDown
  <2>3. CASE Connect(p)
    <3>1. CASE /\ cache' = [cache EXCEPT ![p] = Warmed]
               /\ UNCHANGED << pv_lookup, enabled, shared, pvs >>
      BY <1>2, <3>1, WarmedFits, IdsCache DEF IdsInv
    <3> QED
      BY <2>3, <3>1, IdsDown DEF Connect, db
  <2>4. CASE Snapshot(p)
    <3>1. CASE UNCHANGED shared
      BY <1>1, <2>4, <3>1 DEF Snapshot, db
    <3>2. CASE shared' = [shared EXCEPT ![p] = [x \in Known |-> pv_lookup[x]]]
      <4>1. CopyOf([x \in Known |-> pv_lookup[x]], pv_lookup)
        BY DEF CopyOf, Known
      <4>2. UNCHANGED << pv_lookup, enabled, cache, pvs >>
        BY <2>4 DEF Snapshot, db
      <4> QED
        BY <1>2, <3>2, <4>1, <4>2, IdsShared
    <3> QED
      BY <2>4, <3>1, <3>2 DEF Snapshot
  <2> QED
    BY <1>3, <2>1, <2>2, <2>3, <2>4, IdsRegister, IdsSubscribe DEF Boot
<1>4. ASSUME NEW p \in Processes, Run(p) PROVE IdsInv'
  <2>1. CASE \/ \E x \in Names : HandleDisconnect(p, x)
             \/ \E x \in Names, a \in Sockets : HandleConnect(p, x, a)
    BY <1>1, <2>1 DEF HandleDisconnect, HandleConnect, mem
  <2>2. CASE Crash(p)
    BY <2>2, IdsDown DEF Crash, db
  <2>3. ASSUME NEW x \in Names, Unsubscribe(p, x) PROVE IdsInv'
    <3> DEFINE map == [y \in DOMAIN shared[p] \ {x} |-> shared[p][y]]
    <3>1. /\ shared' = [shared EXCEPT ![p] = map]
          /\ UNCHANGED << pv_lookup, enabled, cache, pvs >>
      BY <2>3 DEF Unsubscribe
    <3>2. CopyOf(map, pv_lookup)
      BY DEF IdsInv, CopyOf
    <3> QED
      BY <1>2, <3>1, <3>2, IdsShared
  <2> QED
    BY <1>4, <2>1, <2>2, <2>3, IdsResolve DEF Run
<1>5. CASE Operators
  <2>1. /\ UNCHANGED << pv_lookup, cache, shared, pvs >>
        /\ enabled' \subseteq enabled \cup Names
    BY <1>5 DEF Operators, CreateIoc, EditIoc, EditPv, mem
  <2> QED
    BY <2>1 DEF IdsInv, Known
<1>6. CASE UNCHANGED vars
  BY <1>1, <1>6 DEF vars, db, mem
<1> QED
  BY <1>3, <1>4, <1>5, <1>6 DEF Next

\* However the resolves, inserts, subscribes and restarts of any number of
\* processes interleave over pv_lookup, every id that one of them holds is that
\* name's id, no two names share one, and a cache keeps to its cap (PvCache).
THEOREM StartupIdsAgree == Spec => []IdsAgree
<1>1. IdsInv => IdsAgree
  BY DEF IdsInv, IdsAgree, CopyOf, LookupOK, Cached, Known
<1> QED
  BY <1>1, InitIds, NextIds, PTL DEF Spec
=============================================================================
