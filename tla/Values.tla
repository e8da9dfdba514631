------------------------------- MODULE Values -------------------------------
(***************************************************************************)
(* From decoded values to normative types, and from those to the metadata  *)
(* of a PV.  A decoded value is a tree; strings are model values or TLA+   *)
(* strings; a float or double is counted in halves, so that the fraction   *)
(* an integer conversion drops can be seen.  An option is << >> or << v >>.*)
(* The widths of integers are scaled down with the constants.              *)
(***************************************************************************)
EXTENDS Integers, Sequences
LOCAL INSTANCE SequencesExt

CONSTANTS
  Bits16, Bits32, Bits64   \* the bits of an i16, i32 and i64, scaled down

----------------------------------------------------------------------------
(* PvaValue.                                                               *)

ScalarOf(st, v) == [kind |-> "scalar", st |-> st, v |-> v]
ArrayOf(items) == [kind |-> "array", items |-> items]
StructOf(fields) == [kind |-> "struct", fields |-> fields]
UnionOf(name, v) == [kind |-> "union", name |-> name, v |-> v]
NullOf == [kind |-> "null"]

\* `as` to a signed and to an unsigned integer of so many bits.
Signed(v, bits) == ((v + 2^(bits - 1)) % 2^bits) - 2^(bits - 1)
Unsigned(v, bits) == v % 2^bits

OrElse(option, default) == IF option = << >> THEN default ELSE option[1]

\* ScalarValue::as_i64: a fraction is cut off, an unsigned value wraps.
ScalarAsI64(s) ==
  CASE s.st = "String" -> << >>
    [] s.st = "Boolean" -> << IF s.v THEN 1 ELSE 0 >>
    [] s.st \in {"Float", "Double"} ->
         << IF s.v >= 0 THEN s.v \div 2 ELSE -((-s.v) \div 2) >>
    [] OTHER -> << Signed(s.v, Bits64) >>

as_i64(v) == IF v.kind = "scalar" THEN ScalarAsI64(v) ELSE << >>
as_i32(v) == LET n == as_i64(v) IN [i \in DOMAIN n |-> Signed(n[i], Bits32)]
as_string(v) == IF v.kind = "scalar" /\ v.st = "String" THEN << v.v >> ELSE << >>

\* field: the first of that name.
field(v, name) ==
  IF v.kind # "struct" THEN << >>
  ELSE LET at == SelectInSeq(v.fields, LAMBDA f : f[1] = name) IN
       IF at = 0 THEN << >> ELSE << v.fields[at][2] >>

AndThen(option, F(_)) == IF option = << >> THEN << >> ELSE F(option[1])
field_i32(v, name) == AndThen(field(v, name), as_i32)
field_i64(v, name) == AndThen(field(v, name), as_i64)
field_string(v, name) == AndThen(field(v, name), as_string)

\* The field at a position, as fields.get does.
Positioned(v, i) == IF i \in DOMAIN v.fields THEN << v.fields[i][2] >> ELSE << >>

----------------------------------------------------------------------------
(* Alarms and times.                                                       *)

\* AlarmSeverity::from, AlarmStatus::from.
AlarmSeverity(n) == IF n \in 0..3 THEN n ELSE 4
AlarmStatus(n) == IF n \in 0..5 \cup {7} THEN n ELSE 6

AlarmOf(severity, status, message) ==
  [severity |-> AlarmSeverity(Signed(OrElse(severity, 0), Bits16)),
   status |-> AlarmStatus(Signed(OrElse(status, 0), Bits16)),
   message |-> OrElse(message, "")]

TimeOf(seconds, nanos, tag) ==
  [seconds |-> OrElse(seconds, 0), nanoseconds |-> Unsigned(OrElse(nanos, 0), Bits32),
   user_tag |-> OrElse(tag, 0)]

NoAlarm == AlarmOf(<< >>, << >>, << >>)
NoTime == TimeOf(<< >>, << >>, << >>)

extract_alarm(v) ==
  LET a == field(v, "alarm") IN
  IF a = << >> THEN NoAlarm
  ELSE AlarmOf(field_i32(a[1], "severity"), field_i32(a[1], "status"),
               field_string(a[1], "message"))

extract_timestamp_from(ts) ==
  TimeOf(field_i64(ts, "secondsPastEpoch"), field_i32(ts, "nanoseconds"),
         field_i32(ts, "userTag"))

extract_timestamp(v) ==
  LET ts == field(v, "timeStamp") IN
  IF ts = << >> THEN NoTime ELSE extract_timestamp_from(ts[1])

----------------------------------------------------------------------------
(* The converters.                                                         *)

Normative(nt, value, v) ==
  << [nt |-> nt, value |-> value, alarm |-> extract_alarm(v),
      timestamp |-> extract_timestamp(v)] >>

convert_nt_scalar_fallback(v) ==
  LET value == field(v, "value") IN
  IF value = << >> \/ value[1].kind # "scalar" THEN << >>
  ELSE Normative("NTScalar", value[1], v)

\* Mutant: status and severity are read from each other's place.
AlarmAtSwapped(a) ==
  IF a.kind # "struct" THEN NoAlarm
  ELSE AlarmOf(AndThen(Positioned(a, 2), as_i32), AndThen(Positioned(a, 1), as_i32),
               AndThen(Positioned(a, 3), as_string))

\* The alarm and the time of the usual layout, by position.
AlarmAt(a) ==
  IF a.kind # "struct" THEN NoAlarm
  ELSE AlarmOf(AndThen(Positioned(a, 1), as_i32), AndThen(Positioned(a, 2), as_i32),
               AndThen(Positioned(a, 3), as_string))

TimeAt(ts) ==
  IF ts.kind # "struct" THEN NoTime
  ELSE TimeOf(AndThen(Positioned(ts, 1), as_i64), AndThen(Positioned(ts, 2), as_i32),
              AndThen(Positioned(ts, 3), as_i32))

convert_nt_scalar(v) ==
  IF v.kind = "struct" /\ Len(v.fields) >= 3 /\ v.fields[1][2].kind = "scalar"
    THEN << [nt |-> "NTScalar", value |-> v.fields[1][2],
             alarm |-> AlarmAt(v.fields[2][2]), timestamp |-> TimeAt(v.fields[3][2])] >>
    ELSE convert_nt_scalar_fallback(v)

extract_string_array(option) ==
  IF option = << >> \/ option[1].kind # "array" THEN << >>
  ELSE LET strings == SelectSeq(option[1].items, LAMBDA s : s.st = "String") IN
       [i \in DOMAIN strings |-> strings[i].v]

convert_nt_enum(v) ==
  LET value == field(v, "value") IN
  IF value = << >> THEN << >>
  ELSE Normative("NTEnum", [index |-> OrElse(field_i32(value[1], "index"), 0),
                            choices |-> extract_string_array(field(value[1], "choices"))], v)

\* The type is that of the first element; others are left out, or false.
extract_array_value(v) ==
  CASE v.kind # "array" -> << >>
    [] v.kind = "array" /\ v.items = << >> -> << [st |-> "Double", values |-> << >>] >>
    [] OTHER ->
         LET st == v.items[1].st
             same == SelectSeq(v.items, LAMBDA s : s.st = st) IN
         << [st |-> st,
             values |-> IF st = "Boolean"
                          THEN [i \in DOMAIN v.items |->
                                  v.items[i].st = "Boolean" /\ v.items[i].v]
                          ELSE [i \in DOMAIN same |-> same[i].v]] >>

convert_nt_scalar_array(v) ==
  AndThen(AndThen(field(v, "value"), extract_array_value),
          LAMBDA a : Normative("NTScalarArray", a, v))

\* The items of options that are there.
Present(options) == FlattenSeq(options)

Members(option) ==
  IF option = << >> \/ option[1].kind # "struct" THEN << >> ELSE option[1].fields

convert_nt_table(v) ==
  LET fields == Members(field(v, "value"))
      columns == [i \in DOMAIN fields |->
                    AndThen(extract_array_value(fields[i][2]),
                            LAMBDA a : << [name |-> fields[i][1], values |-> a] >>)] IN
  Normative("NTTable", [labels |-> extract_string_array(field(v, "labels")),
                        columns |-> Present(columns)], v)

IsTrue(option) ==
  option # << >> /\ option[1].kind = "scalar" /\ option[1].st = "Boolean" /\ option[1].v

extract_dimensions(option) ==
  Present([i \in DOMAIN Members(option) |->
    LET d == Members(option)[i][2] IN
    AndThen(field_i32(d, "size"), LAMBDA size :
      << [size |-> size, offset |-> OrElse(field_i32(d, "offset"), 0),
          full_size |-> OrElse(field_i32(d, "fullSize"), 0),
          binning |-> OrElse(field_i32(d, "binning"), 1),
          reverse |-> IsTrue(field(d, "reverse"))] >>)])

extract_nd_attributes(option) ==
  Present([i \in DOMAIN Members(option) |->
    LET a == Members(option)[i][2]
        value == field(a, "value") IN
    AndThen(field_string(a, "name"), LAMBDA name :
      IF value = << >> \/ value[1].kind # "scalar" THEN << >>
      ELSE << [name |-> name, value |-> value[1],
               source |-> OrElse(field_string(a, "source"), ""),
               description |-> OrElse(field_string(a, "description"), "")] >>)])

convert_nt_ndarray(v) ==
  LET codec == field(v, "codec")
      data_time == field(v, "dataTimeStamp") IN
  AndThen(AndThen(field(v, "value"), extract_array_value), LAMBDA a :
    Normative("NTNDArray",
      [data |-> a,
       dimension |-> extract_dimensions(field(v, "dimension")),
       codec |-> IF codec = << >> THEN "" ELSE OrElse(field_string(codec[1], "name"), ""),
       compressed_size |-> OrElse(field_i64(v, "compressedSize"), 0),
       uncompressed_size |-> OrElse(field_i64(v, "uncompressedSize"), 0),
       unique_id |-> OrElse(field_i32(v, "uniqueId"), 0),
       data_timestamp |-> IF data_time = << >> THEN NoTime
                          ELSE extract_timestamp_from(data_time[1]),
       attribute |-> extract_nd_attributes(field(v, "attribute"))], v))

\* A scalar as JSON: floats keep their fraction, in arrays they lose it.
JsonScalar(s) ==
  IF s.st \in {"Boolean", "String", "Float", "Double"} THEN ScalarOf(s.st, s.v)
  ELSE ScalarOf("Int", ScalarAsI64(s)[1])

JsonItem(s) ==
  IF s.st \in {"Boolean", "String"} THEN ScalarOf(s.st, s.v)
  ELSE ScalarOf("Int", ScalarAsI64(s)[1])

RECURSIVE pva_value_to_json(_)
pva_value_to_json(v) ==
  CASE v.kind = "scalar" -> JsonScalar(v)
    [] v.kind = "array" -> [i \in DOMAIN v.items |-> JsonItem(v.items[i])]
    [] v.kind = "struct" ->
         [name \in { v.fields[i][1] : i \in DOMAIN v.fields } |->
            LET last == SelectLastInSeq(v.fields, LAMBDA f : f[1] = name) IN
            pva_value_to_json(v.fields[last][2])]
    [] v.kind = "union" -> [name \in {v.name} |-> pva_value_to_json(v.v)]
    [] OTHER -> v

convert_custom(v) == Normative("Custom", pva_value_to_json(v), v)

to_normative(type_id, v) ==
  CASE v.kind = "null" -> << >>
    [] v.kind # "null" /\ type_id = "NTScalar" -> convert_nt_scalar(v)
    [] v.kind # "null" /\ type_id = "NTEnum" -> convert_nt_enum(v)
    [] v.kind # "null" /\ type_id = "NTScalarArray" -> convert_nt_scalar_array(v)
    [] v.kind # "null" /\ type_id = "NTTable" -> convert_nt_table(v)
    [] v.kind # "null" /\ type_id = "NTNDArray" -> convert_nt_ndarray(v)
    [] OTHER -> convert_custom(v)

\* Without a description the shape of the value field decides.
to_normative_from_value(v) ==
  AndThen(field(v, "value"), LAMBDA value :
    CASE value.kind = "scalar" -> convert_nt_scalar(v)
      [] value.kind # "scalar" /\ field(value, "index") # << >> -> convert_nt_enum(v)
      [] value.kind = "array" -> convert_nt_scalar_array(v)
      [] OTHER -> << >>)
=============================================================================
