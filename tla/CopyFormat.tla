----------------------------- MODULE CopyFormat -----------------------------
(***************************************************************************)
(* The rows the table writers put into a binary COPY, byte by byte, the    *)
(* columns the migrations declare for the target tables, and how the       *)
(* server reads the one as the other.                                      *)
(*                                                                         *)
(* A byte is [f |-> "", k |-> 0..255] when the code writes a constant or a *)
(* length, and [f |-> column, k |-> i] when it is byte i of the value of   *)
(* that column.                                                            *)
(***************************************************************************)
EXTENDS Integers, Sequences

Const(n) == [f |-> "", k |-> n]
Value(name, n) == [i \in 1..n |-> [f |-> name, k |-> i]]

\* i16 and i32 in big-endian order; every number here fits in two bytes.
BE2(n) == << Const(n \div 256), Const(n % 256) >>
BE4(n) == << Const(0), Const(0) >> \o BE2(n)

\* A column: its length, then its bytes.
Column(name, n) == BE4(n) \o Value(name, n)

\* jsonb starts with a version byte.
JsonbVersion == 1
Jsonb(name, n) == BE4(1 + n) \o << Const(JsonbVersion) >> \o Value(name, n)

(***************************************************************************)
(* Fixed-size rows are a template of constants, at offsets written out by  *)
(* hand, into which the values are copied; slices gives each value its     *)
(* half-open range of offsets.                                             *)
(***************************************************************************)
FromTemplate(size, consts, slices) ==
  [p \in 1..size |->
     IF \E s \in slices : s.from < p /\ p <= s.to
       THEN LET s == CHOOSE s \in slices : s.from < p /\ p <= s.to
            IN  [f |-> s.name, k |-> p - s.from]
       ELSE IF p - 1 \in DOMAIN consts THEN Const(consts[p - 1]) ELSE Const(0)]

Slice(name, from, to) == [name |-> name, from |-> from, to |-> to]

WireRowSize == 52

\* Mutant: the slice of a value begins one byte late.
ScalarCopyShifted ==
  FromTemplate(WireRowSize,
    [p \in {1, 5, 17, 25, 37, 43, 49} |->
       CASE p = 1 -> 6 [] p \in {5, 25} -> 8 [] p = 17 -> 4 [] OTHER -> 2],
    { Slice("time", 6, 14), Slice("pv_id", 18, 22), Slice("value", 27, 34),
      Slice("severity", 38, 40), Slice("status", 44, 46),
      Slice("reason", 50, 52) })

ScalarCopy ==
  FromTemplate(WireRowSize,
    [p \in {1, 5, 17, 25, 37, 43, 49} |->
       CASE p = 1 -> 6 [] p \in {5, 25} -> 8 [] p = 17 -> 4 [] OTHER -> 2],
    { Slice("time", 6, 14), Slice("pv_id", 18, 22), Slice("value", 26, 34),
      Slice("severity", 38, 40), Slice("status", 44, 46),
      Slice("reason", 50, 52) })

NumWireSize == 66

ArrayNumCopy ==
  FromTemplate(NumWireSize,
    [p \in {1, 5, 17, 25, 37, 45, 57, 63} |->
       CASE p = 1 -> 7 [] p \in {5, 25, 45} -> 8 [] p \in {17, 37} -> 4
         [] OTHER -> 2],
    { Slice("time", 6, 14), Slice("pv_id", 18, 22), Slice("array_id", 26, 34),
      Slice("idx", 38, 42), Slice("value", 46, 54), Slice("severity", 58, 60),
      Slice("status", 64, 66) })

----------------------------------------------------------------------------
(* Rows with a variable part of n bytes. *)

Stamp == Column("time", 8) \o Column("pv_id", 4)
Alarm == Column("severity", 2) \o Column("status", 2)

ArrayStrCopy(n) ==
  BE2(7) \o Stamp \o Column("array_id", 8) \o Column("idx", 4)
         \o Column("value", n) \o Alarm

StringCopy(n) == BE2(5) \o Stamp \o Column("value", n) \o Alarm

TableCopy(n) == BE2(5) \o Stamp \o Jsonb("data", n) \o Alarm

CustomCopy(n) ==
  BE2(6) \o Stamp \o Column("nt_type", 6) \o Jsonb("data", n) \o Alarm

Element == Stamp \o Column("capture_id", 8) \o Column("idx", 2)

NameValueCopy(n) ==
  BE2(8) \o Element \o Column("name", n) \o Column("value", 8) \o Alarm

HistogramCopy ==
  BE2(8) \o Element \o Column("range_val", 8) \o Column("count", 8) \o Alarm

ContinuumCopy ==
  BE2(8) \o Element \o Column("base_val", 8) \o Column("trace_val", 8) \o Alarm

MultiCopy(n) ==
  BE2(9) \o Element \o Column("ch_name", n) \o Column("ch_value", 8)
         \o Column("ch_severity", 2) \o Alarm

\* dimensions is a one-dimensional int4[], and an empty one has no dimension.
Int4Oid == 23
DimElement(d) == BE4(4) \o Value("dimensions", 4)
Dimensions(d) ==
  IF d = 0 THEN BE4(12) \o BE4(0) \o BE4(0) \o BE4(Int4Oid)
  ELSE BE4(20 + 8 * d) \o BE4(1) \o BE4(0) \o BE4(Int4Oid) \o BE4(d) \o BE4(1)
       \o [i \in 1..(8 * d) |-> DimElement(d)[((i - 1) % 8) + 1]]

ImageCopy(n, d) ==
  BE2(11) \o Stamp \o Column("data", n) \o Column("codec", n)
          \o Column("compressed_size", 8) \o Column("uncompressed_size", 8)
          \o Dimensions(d) \o Column("unique_id", 4) \o Jsonb("attributes", 2)
          \o Alarm

----------------------------------------------------------------------------
(* The columns of the tables, in the order the COPY statements list them.  *)

TimeC == << "time", "timestamptz" >>
PvC == << "pv_id", "int4" >>
SeverityC == << "severity", "int2" >>
StatusC == << "status", "int2" >>

SamplesColumns ==
  [ samples |-> << TimeC, PvC, << "value", "float8" >>, SeverityC, StatusC,
                   << "reason", "int2" >> >>,
    samples_string |-> << TimeC, PvC, << "value", "text" >>, SeverityC,
                          StatusC >> ]

TypedColumns ==
  [ samples_table |-> << TimeC, PvC, << "data", "jsonb" >>, SeverityC,
                         StatusC >>,
    samples_custom |-> << TimeC, PvC, << "nt_type", "text" >>,
                          << "data", "jsonb" >>, SeverityC, StatusC >>,
    samples_image |-> << TimeC, PvC, << "data", "bytea" >>,
                         << "codec", "text" >>, << "compressed_size", "int8" >>,
                         << "uncompressed_size", "int8" >>,
                         << "dimensions", "int4[]" >>, << "unique_id", "int4" >>,
                         << "attributes", "jsonb" >>, SeverityC, StatusC >> ]

ArrayC == << "array_id", "int8" >>
CaptureC == << "capture_id", "int8" >>

ArrayColumns ==
  [ samples_array_num |-> << TimeC, PvC, ArrayC, << "idx", "int4" >>,
                             << "value", "float8" >>, SeverityC, StatusC >>,
    samples_array_str |-> << TimeC, PvC, ArrayC, << "idx", "int4" >>,
                             << "value", "text" >>, SeverityC, StatusC >> ]

DestructuredColumns ==
  LET element(c, d) == << TimeC, PvC, CaptureC, << "idx", "int2" >>, c, d,
                          SeverityC, StatusC >>
  IN  [ samples_nv |-> element(<< "name", "text" >>, << "value", "float8" >>),
        samples_hist |-> element(<< "range_val", "float8" >>,
                                 << "count", "int8" >>),
        samples_cont |-> element(<< "base_val", "float8" >>,
                                 << "trace_val", "float8" >>),
        samples_mch |-> << TimeC, PvC, CaptureC, << "idx", "int2" >>,
                           << "ch_name", "text" >>, << "ch_value", "float8" >>,
                           << "ch_severity", "int2" >>, SeverityC, StatusC >> ]

----------------------------------------------------------------------------
(* The server reads a row: a count of columns and, for each, a length and  *)
(* as many bytes, which the input function of its type must take.          *)

Width == [ timestamptz |-> 8, int8 |-> 8, float8 |-> 8, int4 |-> 4, int2 |-> 2 ]

NumberAt(row, p) == row[p + 2].k * 256 + row[p + 3].k

IsNumberAt(row, p) ==
  p + 3 <= Len(row) /\ \A i \in p..(p + 3) : row[i].f = ""

ReadsAsArray(name, bytes) ==
  LET d == NumberAt(bytes, 13)
  IN  /\ Len(bytes) >= 12 /\ NumberAt(bytes, 9) = Int4Oid
      /\ \/ NumberAt(bytes, 1) = 0 /\ Len(bytes) = 12
         \/ /\ NumberAt(bytes, 1) = 1 /\ Len(bytes) = 20 + 8 * d
            /\ \A i \in 1..d : /\ NumberAt(bytes, 13 + 8 * i) = 4
                               /\ bytes[17 + 8 * i] = [f |-> name, k |-> 1]

Reads(col, bytes) ==
  LET name == col[1]
      type == col[2]
      n    == Len(bytes)
  IN  CASE type \in {"text", "bytea"} -> bytes = Value(name, n)
        [] type = "jsonb" -> /\ n > 0 /\ bytes[1] = Const(JsonbVersion)
                             /\ Tail(bytes) = Value(name, n - 1)
        [] type = "int4[]" -> ReadsAsArray(name, bytes)
        [] OTHER -> n = Width[type] /\ bytes = Value(name, n)

ServerReads(columns, row) ==
  LET bytesAt(p) == SubSeq(row, p + 4, p + 3 + NumberAt(row, p))
      fits(c, p) == /\ IsNumberAt(row, p)
                    /\ p + 3 + NumberAt(row, p) <= Len(row)
                    /\ Reads(columns[c], bytesAt(p))
      after[c \in 0..Len(columns)] ==   \* where column c ends, 0 if it does not
        IF c = 0 THEN 3
        ELSE LET p == after[c - 1]
             IN  IF p # 0 /\ fits(c, p) THEN p + 4 + NumberAt(row, p) ELSE 0
  IN  /\ row[1].k * 256 + row[2].k = Len(columns)
      /\ after[Len(columns)] = Len(row) + 1

\* The rows each writer sends to a table, for values of n bytes.
CopyRows(n) ==
  [ samples |-> ScalarCopy, samples_string |-> StringCopy(n),
    samples_table |-> TableCopy(n), samples_custom |-> CustomCopy(n),
    samples_image |-> ImageCopy(n, n), samples_array_num |-> ArrayNumCopy,
    samples_array_str |-> ArrayStrCopy(n), samples_nv |-> NameValueCopy(n),
    samples_hist |-> HistogramCopy, samples_cont |-> ContinuumCopy,
    samples_mch |-> MultiCopy(n) ]

ColumnsOf(table) ==
  CASE table \in DOMAIN SamplesColumns -> SamplesColumns[table]
    [] table \in DOMAIN TypedColumns -> TypedColumns[table]
    [] table \in DOMAIN ArrayColumns -> ArrayColumns[table]
    [] OTHER -> DestructuredColumns[table]

\* The tables whose COPYs the server takes, whatever the length of the variable
\* parts.  What they hold is left out: a NUL in a text or a \u0000 in a jsonb,
\* which PostgreSQL refuses, is a row this module does not build.
AcceptedTables ==
  { table \in DOMAIN CopyRows(0) :
      \A n \in 0..2 : ServerReads(ColumnsOf(table), CopyRows(n)[table]) }
=============================================================================
