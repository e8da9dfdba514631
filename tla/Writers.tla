------------------------------ MODULE Writers ------------------------------
(***************************************************************************)
(* The BatchWriter by itself, driven through its interface: what dispatch  *)
(* and ingest make of an update, the five writers' buffers and limits, the *)
(* chunks a bundle is sent in over the COPY pool, the healing of dead      *)
(* connections and the older flush_all.  StoreLoop has the schedule around *)
(* it and abstracts a section to the set of its rows; here a buffer is a   *)
(* sequence and the arithmetic on positions is kept.  The PV id cache is   *)
(* in Startup.                                                             *)
(*                                                                         *)
(* An update is its Normative Type and a number of elements; its values    *)
(* and timestamps are left out.  A row costs one byte per element.  One    *)
(* permanent error of COPY is modelled, a row the server cannot read       *)
(* (CopyFormat); the pool is never empty.                                  *)
(***************************************************************************)
EXTENDS CopyFormat, FiniteSets, FiniteSetsExt, SequencesExt

CONSTANTS
  Updates,      \* the updates an IOC may send: [nt, n]
  Conns,        \* connections of the COPY pool
  MaxBytes,     \* max_buffer_bytes of every writer
  Threshold,    \* PARALLEL_THRESHOLD
  MaxSamples,   \* bound: updates taken
  MaxFaults     \* bound: failures

NormativeTypes ==
  { "NTScalar", "NTScalar.string", "NTEnum", "NTAggregate", "NTScalarArray",
    "NTScalarArray.string", "NTMatrix", "NTNDArray", "NTTable", "NTUnion",
    "Custom", "NTHistogram", "NTContinuum", "NTNameValue", "NTMultiChannel" }

ASSUME WritersAssumption ==
  /\ Updates \subseteq [nt : NormativeTypes, n : Nat]
  /\ Conns \in Nat \ {0} /\ MaxBytes \in Nat \ {0} /\ Threshold \in Nat
  /\ MaxSamples \in Nat /\ MaxFaults \in Nat

VARIABLES
  buffer,         \* section -> rows
  current_bytes,  \* writer -> the bytes it believes it holds
  next_array_id,  \* NEXT_ARRAY_ID
  bundle,         \* the bundle being flushed
  alive,          \* connection -> its client is not closed
  db,             \* the rows in the tables
  twice,          \* history: rows the database holds twice
  expected,       \* history: the table rows the accepted updates stand for
  gone,           \* history: rows discarded, or lost in a crash
  lost,           \* rows counted in lost_rows
  unsure,         \* history: rows of a COPY whose result never arrived
  resent,         \* history: rows flush_all stored, heard of, and kept
  samples, faults, restarted

bufVars == << buffer, current_bytes, next_array_id >>
flushVars == << bundle, alive, db, twice, lost, unsure, resent >>
vars == << bufVars, flushVars, expected, gone, samples, faults,
           restarted >>

Sections == << "scalar", "string", "array_num", "array_str", "json", "image" >>
SectionNames == Range(Sections)
WriterNames == { "scalar", "string", "array", "json", "image" }

Row(s, i, a, tab, n) == [s |-> s, i |-> i, a |-> a, tab |-> tab, n |-> n]
Empty == [sec \in SectionNames |-> << >>]
NoBundle == [on |-> FALSE, at |-> 0, todo |-> Empty, keep |-> Empty]

----------------------------------------------------------------------------
(* Classification and routing.                                             *)

\* PvDataType::table_name of PvDataType::from_nt.
TableOf(nt) ==
  CASE nt \in {"NTScalar", "NTEnum", "NTAggregate"} -> "samples"
    [] nt = "NTScalar.string" -> "samples_string"
    [] nt \in {"NTScalarArray", "NTMatrix"} -> "samples_array_num"
    [] nt = "NTScalarArray.string" -> "samples_array_str"
    [] nt = "NTNDArray" -> "samples_image"
    [] nt = "NTTable" -> "samples_table"
    [] nt \in {"NTUnion", "Custom"} -> "samples_custom"
    [] nt = "NTHistogram" -> "samples_hist"
    [] nt = "NTContinuum" -> "samples_cont"
    [] nt = "NTNameValue" -> "samples_nv"
    [] nt = "NTMultiChannel" -> "samples_mch"

JsonTables == << "samples_table", "samples_custom", "samples_nv",
                 "samples_hist", "samples_cont", "samples_mch" >>
Destructured == { "samples_nv", "samples_hist", "samples_cont", "samples_mch" }
ArrayTables == { "samples_array_num", "samples_array_str" }

\* The arrays a payload builder finds in the serialised update.  The counts
\* of a histogram and the values of a name-value list are tagged objects, and
\* a multi-channel snapshot has channel_name and values.
Readable(tab) == tab \notin { "samples_nv", "samples_hist", "samples_mch" }

\* The rows a JSON capture is copied as.
JsonElements(r) ==
  IF r.tab \notin Destructured THEN { << r.tab, r.s, 0, 0 >> }
  ELSE { << r.tab, r.s, i, 0 >> : i \in { k \in 0..(r.n - 1) : Readable(r.tab) } }

\* The table rows a buffered row stands for.
CopyRowsOf(sec, r) ==
  IF r.tab \in Destructured
    THEN { << r.tab, r.s, i, 0 >> : i \in 0..(r.n - 1) }
    ELSE { << r.tab, r.s, r.i, r.a >> }

RowsIn(sec, rows) == UNION { CopyRowsOf(sec, rows[p]) : p \in DOMAIN rows }

----------------------------------------------------------------------------
(* The writers' push.  An empty buffer takes any row.                      *)

Fits(held, w, size) == held = 0 \/ current_bytes[w] + size <= MaxBytes

\* The scalar writer counts its rows instead of keeping current_bytes.
ScalarPush(s) ==
  IF Len(buffer["scalar"]) > 0 /\ Len(buffer["scalar"]) + 1 > MaxBytes
    THEN UNCHANGED buffer
    ELSE buffer' = [buffer EXCEPT !["scalar"] =
                      Append(@, Row(s, 0, 0, "samples", 1))]

PushSized(w, r, size) ==
  IF Fits(Len(buffer[w]), w, size)
    THEN /\ buffer' = [buffer EXCEPT ![w] = Append(@, r)]
         /\ current_bytes' = [current_bytes EXCEPT ![w] = @ + size]
    ELSE UNCHANGED << buffer, current_bytes >>

StringPush(s, n) == PushSized("string", Row(s, 0, 0, "samples_string", n), 1)
JsonPush(s, tab, n) == PushSized("json", Row(s, 0, 0, tab, n), 1)
ImagePush(s, n) == PushSized("image", Row(s, 0, 0, "samples_image", n), n + 1)

\* Mutant: the id is the number of captures in the buffer.
ArrayPushIdHeld(s, tab, n) ==
  LET sec  == IF tab = "samples_array_num" THEN "array_num" ELSE "array_str"
      held == Len(buffer["array_num"]) + Len(buffer["array_str"])
      id   == 1 + Cardinality({ r.s : r \in Range(buffer[sec]) })
  IN  IF n > 0 /\ Fits(held, "array", n)
        THEN /\ buffer' = [buffer EXCEPT ![sec] = @ \o
                   [k \in 1..n |-> Row(s, k - 1, id, tab, n)]]
             /\ current_bytes' = [current_bytes EXCEPT !["array"] = @ + n]
             /\ next_array_id' = next_array_id + 1
        ELSE UNCHANGED bufVars

\* A capture is taken apart: one row per element, under one array_id.
ArrayPush(s, tab, n) ==
  LET sec  == IF tab = "samples_array_num" THEN "array_num" ELSE "array_str"
      held == Len(buffer["array_num"]) + Len(buffer["array_str"])
  IN  IF n > 0 /\ Fits(held, "array", n)
        THEN /\ buffer' = [buffer EXCEPT ![sec] = @ \o
                   [k \in 1..n |-> Row(s, k - 1, next_array_id, tab, n)]]
             /\ current_bytes' = [current_bytes EXCEPT !["array"] = @ + n]
             /\ next_array_id' = next_array_id + 1
        ELSE UNCHANGED bufVars

\* ImageRow::from_update moves the pixels out of a byte array; any other
\* element type leaves the row without data.
FromUpdate(s, u) == ImagePush(s, IF u.n > 1 THEN u.n ELSE 0)

\* The rows of an update are expected in the tables once it is buffered.
Taken ==
  expected' = expected \cup UNION { RowsIn(sec, buffer'[sec]) :
                                      sec \in SectionNames }

----------------------------------------------------------------------------
(* BatchWriter: where the updates come in.                                 *)

restUnchanged == << flushVars, gone, faults, restarted >>

\* dispatch_with_id.  Every NTScalar is a scalar row, a string one included,
\* and a string array has no numeric elements.
DispatchWithId(s, u) ==
  LET tab == TableOf(u.nt)
  IN  CASE u.nt \in {"NTScalar", "NTScalar.string", "NTEnum", "NTAggregate"} ->
             ScalarPush(s) /\ UNCHANGED << current_bytes, next_array_id >>
        [] u.nt \in {"NTScalarArray", "NTMatrix"} -> ArrayPush(s, tab, u.n)
        [] u.nt = "NTScalarArray.string" -> UNCHANGED bufVars
        [] u.nt = "NTNDArray" -> FromUpdate(s, u) /\ UNCHANGED next_array_id
        [] OTHER -> JsonPush(s, tab, u.n) /\ UNCHANGED next_array_id

\* dispatch: a PV missing in the cache is resolved in the database first, and
\* if that fails the update is dropped.
Dispatch(u) ==
  /\ samples < MaxSamples
  /\ samples' = samples + 1
  /\ \/ /\ DispatchWithId(samples + 1, u)
        /\ Taken
        /\ UNCHANGED faults
     \/ /\ faults < MaxFaults
        /\ faults' = faults + 1
        /\ UNCHANGED << bufVars, expected >>
  /\ UNCHANGED << flushVars, gone, restarted >>

\* ingest_scalars appends the batch as it is.
IngestScalars(k) ==
  /\ samples + k <= MaxSamples
  /\ samples' = samples + k
  /\ buffer' = [buffer EXCEPT !["scalar"] = @ \o
                  [i \in 1..k |-> Row(samples + i, 0, 0, "samples", 1)]]
  /\ Taken
  /\ UNCHANGED << current_bytes, next_array_id,
                  restUnchanged >>

\* ingest_other_rows: the rows the shards have made.
IngestOther(u) ==
  /\ samples < MaxSamples /\ TableOf(u.nt) # "samples"
  /\ samples' = samples + 1
  /\ LET tab == TableOf(u.nt)
         s   == samples + 1
     IN  CASE tab = "samples_string" ->
                StringPush(s, u.n) /\ UNCHANGED next_array_id
           [] tab \in ArrayTables -> ArrayPush(s, tab, u.n)
           [] tab = "samples_image" ->
                ImagePush(s, u.n) /\ UNCHANGED next_array_id
           [] OTHER -> JsonPush(s, tab, u.n) /\ UNCHANGED next_array_id
  /\ Taken
  /\ UNCHANGED restUnchanged

HasPending == \E sec \in SectionNames : buffer[sec] # << >>

Buffered == UNION { RowsIn(sec, buffer[sec]) : sec \in SectionNames }

DiscardAll ==
  /\ HasPending
  /\ buffer' = Empty
  /\ current_bytes' = [w \in WriterNames |-> 0]
  /\ gone' = gone \cup Buffered
  /\ UNCHANGED << next_array_id, flushVars, expected, samples,
                  faults, restarted >>

----------------------------------------------------------------------------
(* Sending.  A COPY on a closed client fails; on a live one it may fail    *)
(* before or after the server has committed.  These errors are transient.  *)

\* The connection of chunk i.
ConnOf(i) == i % Conns

Stores(outcome) == outcome \in { "ok", "unheard" }

Commit(rows) ==
  /\ db' = db \cup rows
  /\ twice' = twice \cup (rows \cap db)

\* What COPYs may come to when COPY i runs on connection conn[i].
Faulty(conn, out) == { i \in DOMAIN conn : out[i] # "ok" /\ alive[conn[i]] }

Attempts(conn) ==
  { out \in [DOMAIN conn -> { "ok", "failed", "unheard" }] :
      /\ \A i \in DOMAIN conn : ~alive[conn[i]] => out[i] = "failed"
      /\ faults + Cardinality(Faulty(conn, out)) <= MaxFaults }

\* The server goes away, or drops a client.
ConnectionsClose(C) ==
  /\ faults < MaxFaults /\ \E c \in C : alive[c]
  /\ faults' = faults + 1
  /\ alive' = [c \in DOMAIN alive |-> alive[c] /\ c \notin C]
  /\ UNCHANGED << bufVars, bundle, db, twice, lost, unsure, resent, expected,
                  gone, samples, restarted >>

\* take_flush_bundle: the buffers are moved out, current_bytes stays.
TakeBundle ==
  /\ ~bundle.on /\ HasPending
  /\ bundle' = [on |-> TRUE, at |-> 1, todo |-> buffer, keep |-> Empty]
  /\ buffer' = Empty
  /\ UNCHANGED << current_bytes, next_array_id, alive, db, twice,
                  lost, unsure, resent, expected, gone, samples, faults,
                  restarted >>

\* A section is sent in chunks of this many rows, one per connection, if it
\* is large enough and not always sent whole.
ChunkSize(sec, count) ==
  IF sec \notin {"array_str", "image"} /\ count >= Threshold /\ Conns > 1
    THEN (count + Conns - 1) \div Conns ELSE count

Chunk(rows, size, i) ==
  SubSeq(rows, i * size + 1, Min({ (i + 1) * size, Len(rows) }))

ChunkNumbers(rows, size) ==
  IF rows = << >> THEN {} ELSE 0..((Len(rows) + size - 1) \div size - 1)

\* The rows at some positions, in their order.
RowsAt(rows, kept) ==
  [k \in 1..Cardinality(kept) |->
     rows[CHOOSE p \in kept : Cardinality({ q \in kept : q <= p }) = k]]

\* Mutant: the chunk of a row is taken from the wrong end.
KeptRowsModulo(rows, size, failed) ==
  RowsAt(rows, { p \in DOMAIN rows : ((p - 1) % size) \in failed })

\* The rows of the failed chunks.
KeptRows(rows, size, failed) ==
  RowsAt(rows, { p \in DOMAIN rows : ((p - 1) \div size) \in failed })

\* flush_section.  A row the server cannot read is lost for good.
FlushSection ==
  /\ bundle.on /\ bundle.at <= Len(Sections) /\ Sections[bundle.at] # "json"
  /\ LET sec    == Sections[bundle.at]
         rows   == bundle.todo[sec]
         size   == ChunkSize(sec, Len(rows))
         chunks == ChunkNumbers(rows, size)
         reads  == rows # << >> => rows[1].tab \in AcceptedTables
         of(I)  == UNION { RowsIn(sec, Chunk(rows, size, i)) : i \in I }
         conn   == [i \in chunks |-> ConnOf(i)]
     IN  \E out \in Attempts(conn) :
           LET sent == { i \in chunks : reads /\ Stores(out[i]) }
               kept == { i \in chunks : reads /\ out[i] # "ok" }
           IN  /\ faults' = faults + Cardinality(Faulty(conn, out))
               /\ Commit(of(sent))
               /\ unsure' = unsure \cup of(sent \cap kept)
               /\ lost' = lost \cup of({ i \in chunks : ~reads })
               /\ bundle' = [bundle EXCEPT !.at = @ + 1, !.todo[sec] = << >>,
                               !.keep[sec] = KeptRows(rows, size, kept)]
  /\ UNCHANGED << bufVars, alive, resent, expected, gone, samples, restarted >>

\* Mutant: the whole JSON buffer is kept when one of its tables failed.
KeptJsonAll(rows, failed) == IF failed = {} THEN << >> ELSE rows

\* The rows of the failed tables.
KeptJson(rows, failed) ==
  RowsAt(rows, { p \in DOMAIN rows : rows[p].tab \in failed })

\* The JSON family: six tables from one buffer, one COPY each, in order.  A
\* table without elements is not sent.
FlushJson ==
  /\ bundle.on /\ bundle.at <= Len(Sections) /\ Sections[bundle.at] = "json"
  /\ LET rows == bundle.todo["json"]
         elements(t) == UNION { JsonElements(r) : r \in { x \in Range(rows) :
                                                            x.tab = t } }
         tables == { t \in Range(JsonTables) : elements(t) # {} }
         reads  == { t \in tables : t \in AcceptedTables }
         conn   == [t \in tables |-> ConnOf(0)]
     IN  \E out \in Attempts(conn) :
           LET sent == { t \in reads : Stores(out[t]) }
           IN  /\ faults' = faults + Cardinality(Faulty(conn, out))
               /\ Commit(UNION { elements(t) : t \in sent })
               /\ lost' = lost \cup UNION { elements(t) : t \in tables \ reads }
               /\ unsure' = unsure \cup UNION { elements(t) :
                              t \in { x \in tables : out[x] = "unheard" } }
               /\ bundle' = [bundle EXCEPT !.at = @ + 1, !.todo["json"] = << >>,
                    !.keep["json"] =
                       KeptJson(rows, { t \in reads : out[t] # "ok" })]
  /\ UNCHANGED << bufVars, alive, resent, expected, gone, samples, restarted >>

\* What is kept is flushed again as a bundle of its own.
FinishBundle ==
  /\ bundle.on /\ bundle.at > Len(Sections)
  /\ bundle' = IF bundle.keep = Empty THEN NoBundle
               ELSE [on |-> TRUE, at |-> 1, todo |-> bundle.keep,
                     keep |-> Empty]
  /\ UNCHANGED << bufVars, alive, db, twice, lost, unsure, resent, expected,
                  gone, samples, faults, restarted >>

\* reconnect_dead dials every closed client; the ones that answer are swapped
\* in for every holder of the pool at once.
Heal ==
  /\ \E c \in DOMAIN alive : ~alive[c]
  /\ \E up \in SUBSET { c \in DOMAIN alive : ~alive[c] } :
       /\ up # {}
       /\ alive' = [c \in DOMAIN alive |-> alive[c] \/ c \in up]
  /\ UNCHANGED << bufVars, bundle, db, twice, lost, unsure, resent, expected,
                  gone, samples, faults, restarted >>

----------------------------------------------------------------------------
(* flush_all: the writers' own flush, joined; the first error drops the    *)
(* others where they are.  The docs of the writer and of the pipeline show *)
(* it as the way to flush; the store loop takes bundles instead.           *)

\* The COPYs of the scalar and the string writer, and of the array writer.
ChunkUnits(sec) ==
  { [sec |-> sec, k |-> i, conn |-> ConnOf(i),
     rows |-> RowsIn(sec, Chunk(buffer[sec], ChunkSize(sec, Len(buffer[sec])), i))] :
      i \in ChunkNumbers(buffer[sec], ChunkSize(sec, Len(buffer[sec]))) }

\* The COPYs of the JSON writer: one per table, spread over the connections.
JsonUnits ==
  LET elements(t) == UNION { JsonElements(r) :
                       r \in { x \in Range(buffer["json"]) : x.tab = t } }
  IN  { u \in { [sec |-> "json", k |-> i,
                  conn |-> ConnOf(IF i < 3 THEN 0 ELSE i - 2),
                  rows |-> elements(JsonTables[i])] : i \in DOMAIN JsonTables } :
          u.rows # {} }

Units == JsonUnits \cup UNION { ChunkUnits(sec) : sec \in SectionNames \ {"json"} }

\* A writer sends in order what it does not send at once.
Before(u, v) ==
  \/ u.sec = "json" /\ v.sec = "json" /\ u.k < v.k
  \/ u.sec = "array_num" /\ v.sec = "array_str"

\* A writer clears its buffer after its COPYs succeeded, the array writer after
\* each of its two.
Cleared(ok) ==
  /\ buffer' = [sec \in SectionNames |-> IF sec \in ok THEN << >>
                                         ELSE buffer[sec]]
  /\ current_bytes' = [w \in WriterNames |->
       IF w \in ok \/ (w = "array" /\ {"array_num", "array_str"} \subseteq ok)
         THEN 0 ELSE current_bytes[w]]

FlushAll ==
  /\ HasPending
  /\ \E ok \in SUBSET Units, unheard \in SUBSET Units, unsent \in SUBSET Units :
       LET failed == Units \ (ok \cup unheard \cup unsent)
           broken == { u \in failed \cup unheard : alive[u.conn] }
       IN  /\ ok \cap unheard = {} /\ (ok \cup unheard) \cap unsent = {}
           /\ \A u \in ok \cup unheard : alive[u.conn]
           /\ failed \cup unheard = {} => unsent = {}
           /\ \A u, v \in Units : Before(u, v) /\ u \notin ok => v \in unsent
           /\ faults + Cardinality(broken) <= MaxFaults
           /\ faults' = faults + Cardinality(broken)
           /\ Cleared({ sec \in SectionNames :
                           \A u \in Units : u.sec = sec => u \in ok })
           /\ Commit(UNION { u.rows : u \in ok \cup unheard })
           /\ unsure' = unsure \cup UNION { u.rows : u \in unheard }
           /\ resent' = resent \cup UNION { u.rows : u \in
                { v \in ok : \E w \in Units \ ok : w.sec = v.sec } }
  /\ UNCHANGED << next_array_id, bundle, alive, lost, expected, gone,
                  samples, restarted >>

\* The process dies and starts again: the counter starts over.
InBundle ==
  UNION { RowsIn(sec, bundle.todo[sec] \o bundle.keep[sec]) :
            sec \in SectionNames }

Restart ==
  /\ ~restarted /\ samples > 0
  /\ restarted' = TRUE
  /\ gone' = gone \cup Buffered \cup InBundle
  /\ buffer' = Empty /\ bundle' = NoBundle
  /\ current_bytes' = [w \in WriterNames |-> 0]
  /\ next_array_id' = 1
  /\ alive' = [c \in DOMAIN alive |-> TRUE]
  /\ UNCHANGED << db, twice, lost, unsure, resent, expected, samples,
                  faults >>

Init ==
  /\ buffer = Empty
  /\ current_bytes = [w \in WriterNames |-> 0]
  /\ next_array_id = 1
  /\ bundle = NoBundle
  /\ alive = [c \in 0..(Conns - 1) |-> TRUE]
  /\ db = {} /\ twice = {} /\ expected = {} /\ gone = {} /\ lost = {}
  /\ unsure = {} /\ resent = {}
  /\ samples = 0 /\ faults = 0 /\ restarted = FALSE

Next ==
  \/ \E u \in Updates : Dispatch(u)
  \/ \E k \in 1..2 : IngestScalars(k)
  \/ \E u \in Updates : IngestOther(u)
  \/ DiscardAll \/ TakeBundle \/ FlushSection \/ FlushJson \/ FinishBundle
  \/ \E C \in SUBSET (0..(Conns - 1)) : ConnectionsClose(C)
  \/ Heal \/ FlushAll \/ Restart

Spec == Init /\ [][Next]_vars

----------------------------------------------------------------------------
\* Types and ranges: the counter has drawn one id per array at most.
TypeOK ==
  /\ \A sec \in SectionNames : \A r \in Range(buffer[sec]) :
       r.s \in 1..MaxSamples /\ r.i \in 0..r.n
  /\ current_bytes \in [WriterNames -> Nat]
  /\ alive \in [0..(Conns - 1) -> BOOLEAN]
  /\ next_array_id \in 1..(MaxSamples + 1)
  /\ faults \in 0..MaxFaults

\* Every row of a buffered update is in a buffer, in the bundle, in its table,
\* or counted lost, unless it was discarded or the process died with it: no
\* chunk is forgotten between flush_section's results and the rows it keeps.
\* The three types the payload builders find no elements in are left out.
NothingVanishes ==
  \A e \in expected :
    Readable(e[1]) => e \in Buffered \cup InBundle \cup db \cup lost \cup gone

\* A row is in its table twice for one of two reasons only.  Some COPY of it
\* committed and the client never heard of that; or flush_all had heard of the
\* commit and kept the row all the same, because a writer clears its buffer
\* after its last COPY and another one had failed.  A bundle, which is how the
\* store loop flushes, never sends again a chunk or a table it knows stored.
StoredOnce == twice \subseteq unsure \cup resent

\* The server can read every row the writers build: what the encoders write is
\* what the migrations declare, column by column.
NothingRejected == lost = {}

\* An array_id identifies one capture (migration 011), however captures are
\* split into chunks and retried; a restart begins the ids again at 1, so this
\* is said of the rows one run of the program has stored.
ArrayIdIdentifiesCapture ==
  ~restarted => \A e, f \in db :
    e[1] = f[1] /\ e[1] \in ArrayTables /\ e[4] = f[4] => e[2] = f[2]
=============================================================================
