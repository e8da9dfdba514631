----------------------------- MODULE FieldDesc -----------------------------
(***************************************************************************)
(* Descriptions of structures, and the reading of values that are laid out *)
(* as they say: the whole value, the fields of a delta, and the fast paths *)
(* for NTScalar, NTScalarArray and NTEnum that read a delta without        *)
(* building a value.                                                       *)
(*                                                                         *)
(* Operators are recursive as the code is; this module is for evaluation   *)
(* only.                                                                   *)
(***************************************************************************)
EXTENDS Integers, Sequences, PvData
LOCAL INSTANCE SequencesExt

ScalarWire ==
  [Boolean |-> 0, Byte |-> 32, Short |-> 33, Int |-> 34, Long |-> 35,
   UByte |-> 36, UShort |-> 37, UInt |-> 38, ULong |-> 39, Float |-> 66,
   Double |-> 67, String |-> 96]

ComplexWire ==
  [Structure |-> 128, StructureArray |-> 136, Union |-> 130, UnionArray |-> 138]

Compound == DOMAIN ComplexWire

\* [ft, st, bound, id, fields]: the parts an ft has no use for are empty.
Desc(ft, st, bound, id, fields) ==
  [ft |-> ft, st |-> st, bound |-> bound, id |-> id, fields |-> fields]
ScalarDesc(st) == Desc("Scalar", st, 0, << >>, << >>)
ArrayDesc(st) == Desc("ScalarArray", st, 0, << >>, << >>)
StructDesc(id, fields) == Desc("Structure", "", 0, id, fields)
Field(name, desc) == << name, desc >>

RECURSIVE flat_field_count(_)
flat_field_count(desc) ==
  FoldLeft(LAMBDA n, f : n + flat_field_count(f[2]), 1, desc.fields)

RECURSIVE EncodeDesc(_, _)
EncodeDesc(desc, order) ==
  CASE desc.ft = "Scalar" -> << ScalarWire[desc.st] >>
    [] desc.ft = "ScalarArray" -> << ScalarWire[desc.st] + 8 >>
    [] desc.ft = "BoundedString" -> << 134 >> \o write_size(desc.bound, order)
    [] desc.ft = "VariantUnion" -> << 129 >>
    [] desc.ft = "VariantUnionArray" -> << 131 >>
    [] desc.ft \in Compound ->
         << ComplexWire[desc.ft] >> \o write_string(desc.id, order)
           \o write_size(Len(desc.fields), order)
           \o WriteEach(desc.fields, LAMBDA f : write_string(f[1], order)
                                                  \o EncodeDesc(f[2], order))

----------------------------------------------------------------------------
NoDesc == Desc("Null", "", 0, << >>, << >>)

\* The type id and the fields of a complex type of the given kind.
RECURSIVE decode_full(_)
DecodeFields(r, ft) ==
  Then(Counted(read_size(read_string(r)), LAMBDA s : Group(decode_full(read_string(s)), 2)),
       LAMBDA d : Replace(Forget(d), Desc(ft, "", 0, d.out[Len(d.out) - 1], Got(d))))

\* decode_type_code and decode_complex_type, for the code just read.  Bit 3 is
\* the array flag of a scalar type.
DecodeTypeCode(r) ==
  LET c == Got(r)
      array == Bits(c, 3, 1)
      scalar == { s \in DOMAIN ScalarWire : ScalarWire[s] = c - 8 * array }
      complex == { t \in Compound : ComplexWire[t] = c } IN
  CASE c < 128 /\ scalar # {} ->
         Replace(r, Desc(IF array = 1 THEN "ScalarArray" ELSE "Scalar",
                         CHOOSE s \in scalar : TRUE, 0, << >>, << >>))
    [] complex # {} -> DecodeFields(Forget(r), CHOOSE t \in complex : TRUE)
    [] c = 134 -> Then(read_size(Forget(r)), LAMBDA n :
                    Replace(n, Desc("BoundedString", "", Got(n), << >>, << >>)))
    [] c = 129 -> Replace(r, Desc("VariantUnion", "", 0, << >>, << >>))
    [] c \in {131, 137} -> Replace(r, Desc("VariantUnionArray", "", 0, << >>, << >>))
    [] OTHER -> Failed(r)

\* A nested description may carry an id, which is dropped; it may not be an id
\* alone, since the registry is not at hand here.
decode_full(r) ==
  Then(read_u8(r), LAMBDA tag :
    CASE Got(tag) \in {255, 254} -> Failed(tag)
      [] Got(tag) = 253 ->
           Then(read_u8(Forget(read_i16(Forget(tag)))), DecodeTypeCode)
      [] OTHER -> DecodeTypeCode(tag))

\* IntrospectionRegistry: nothing is registered, nor replaced, once it is full.
register(registry, max, id, desc) ==
  IF Len(registry) >= max THEN registry
  ELSE Append(SelectSeq(registry, LAMBDA e : e[1] # id), << id, desc >>)

\* decode: the description, and before it the id it was announced with if any.
DecodeDesc(r, registry) ==
  Then(read_u8(r), LAMBDA tag :
    CASE Got(tag) = 255 -> Replace(tag, NoDesc)
      [] Got(tag) = 254 -> Then(read_i16(Forget(tag)), LAMBDA id :
           LET known == SelectSeq(registry, LAMBDA e : e[1] = Got(id)) IN
           IF known = << >> THEN Failed(id) ELSE Replace(id, known[1][2]))
      [] Got(tag) = 253 -> decode_full(read_i16(Forget(tag)))
      [] OTHER -> DecodeTypeCode(tag))

\* The registry after it.
Registered(d, registry, max) ==
  IF d.ok /\ Len(d.out) = 2 THEN register(registry, max, d.out[1], d.out[2]) ELSE registry

----------------------------------------------------------------------------
(* Values: << "null" >>, << "scalar", v >>, << "array", vs >>,             *)
(* << "struct", values >> and << "union", selector, v >>.                  *)

Null == << "null" >>

Width ==
  [Boolean |-> 1, Byte |-> 1, UByte |-> 1, Short |-> 2, UShort |-> 2, Int |-> 4,
   UInt |-> 4, Float |-> 4, Long |-> 8, ULong |-> 8, Double |-> 8]

decode_scalar(r, st) ==
  CASE st = "String" -> read_string(r)
    [] st = "Boolean" ->
         Then(read_u8(r), LAMBDA b : Replace(b, IF Got(b) = 0 THEN 0 ELSE 1))
    [] st \in {"Byte", "Short", "Int"} -> read_int(r, Width[st], TRUE)
    [] st \in {"UByte", "UShort"} -> read_int(r, Width[st], FALSE)
    [] OTHER -> read_wide(r, Width[st])

ReadArray(r, st) == Counted(read_size(r), LAMBDA s : decode_scalar(s, st))

\* The value just read under its tag.
Tagged(r, tag) == Then(r, LAMBDA s : Replace(s, << tag, Got(s) >>))

\* The fields of a structure as one value: all is a reader that began with none.
Structured(r, all) ==
  Then(all, LAMBDA d : Put([d EXCEPT !.out = r.out], << "struct", d.out >>))

\* The selector just read and the value of that member.
RECURSIVE decode_from(_, _)
ReadMember(sel, desc) ==
  Then(decode_from(sel, desc.fields[Got(sel) + 1][2]), LAMBDA d :
    Replace(Forget(d), << "union", Got(sel), Got(d) >>))

\* ScalarType::from_wire of three bits, from 0 on.
from_wire == << "Boolean", "Byte", "Short", "Int", "Long", "UByte", "UShort", "UInt" >>

\* A variant union holds one scalar, of the type the low bits of its tag say.
ReadVariant(r) ==
  Then(read_u8(r), LAMBDA tag :
    Tagged(decode_scalar(Forget(tag), from_wire[Bits(Got(tag), 0, 3) + 1]), "scalar"))

\* PvaValue::decode_from.  Arrays of unions are Null and read nothing.
decode_from(r, desc) ==
  CASE ~r.ok -> r
    [] r.ok /\ desc.ft = "Scalar" -> Tagged(decode_scalar(r, desc.st), "scalar")
    [] r.ok /\ desc.ft = "ScalarArray" -> Tagged(ReadArray(r, desc.st), "array")
    [] r.ok /\ desc.ft \in {"Structure", "StructureArray"} ->
         Structured(r, FoldLeft(LAMBDA s, f : decode_from(s, f[2]),
                                [r EXCEPT !.out = << >>], desc.fields))
    [] r.ok /\ desc.ft = "BoundedString" ->
         Then(Tagged(read_string(r), "scalar"), LAMBDA s :
           IF Len(Got(s)[2]) > desc.bound THEN Failed(s) ELSE s)
    [] r.ok /\ desc.ft \in {"Union", "VariantUnion"} ->
         Then(read_i32(r), LAMBDA sel :
           CASE Got(sel) < 0 -> Replace(sel, Null)
             [] Got(sel) >= 0 /\ desc.ft = "VariantUnion" -> ReadVariant(Forget(sel))
             [] Got(sel) >= Len(desc.fields) /\ desc.ft = "Union" -> Failed(sel)
             [] OTHER -> ReadMember(sel, desc))
    [] OTHER -> Put(r, Null)

----------------------------------------------------------------------------
(* The delta: [r, idx], the reader and the next flat index.                *)

RECURSIVE SkipIndices(_)
SkipIndices(desc) ==
  IF desc.ft \in Compound
    THEN FoldLeft(LAMBDA n, f : n + SkipIndices(f[2]), 1, desc.fields)
    ELSE 1

\* Mutant: a structure that is skipped counts its own index only.
SkippedOwnOnly(desc) == 1

\* The indices passed over with a structure none of whose bits is set.
Skipped(desc) == SkipIndices(desc)

\* The value of a marked leaf; a union has one index whatever its members.
ReadLeaf(r, desc) ==
  CASE desc.ft = "Scalar" -> Tagged(decode_scalar(r, desc.st), "scalar")
    [] desc.ft = "ScalarArray" -> Tagged(ReadArray(r, desc.st), "array")
    [] desc.ft = "BoundedString" -> Tagged(read_string(r), "scalar")
    [] desc.ft \in {"VariantUnion", "VariantUnionArray"} ->
         Then(read_u8(r), LAMBDA tag : Replace(tag, Null))
    [] desc.ft \in {"Union", "UnionArray"} ->
         Then(read_i32(r), LAMBDA sel :
           IF Got(sel) \in 0..(Len(desc.fields) - 1) THEN ReadMember(sel, desc)
           ELSE Replace(sel, Null))

RECURSIVE decode_delta(_, _, _)
DeltaFields(r, idx, desc, changed) ==
  FoldLeft(LAMBDA t, f : decode_delta(t, f[2], changed),
           [r |-> [r EXCEPT !.out = << >>], idx |-> idx + 1], desc.fields)

\* decode_delta_structure
decode_delta(s, desc, changed) ==
  CASE ~s.r.ok -> s
    [] s.r.ok /\ desc.ft \in {"Structure", "StructureArray"} ->
         IF (s.idx .. (s.idx + flat_field_count(desc) - 1)) \cap changed = {}
           THEN [r |-> Put(s.r, Null), idx |-> s.idx + Skipped(desc)]
           ELSE LET all == DeltaFields(s.r, s.idx, desc, changed) IN
                [r |-> Structured(s.r, all.r), idx |-> all.idx]
    [] OTHER ->
         [r |-> IF s.idx \in changed THEN ReadLeaf(s.r, desc) ELSE Put(s.r, Null),
          idx |-> s.idx + 1]

\* The root's own bit is index 0, its fields follow.
DecodeDelta(r, desc, changed) ==
  Structured(r, DeltaFields(r, 0, desc, changed).r)

----------------------------------------------------------------------------
(* The fast layouts: what is at each bit, from bit 1 on.                   *)

Roles(value) ==
  value \o << "none", "severity", "status", "message",
              "none", "seconds", "nanos", "userTag" >>

NTScalar == << 1 >>
NTScalarArray == << 2 >>
NTEnum == << 3 >>

NoLayout == << >>

\* detect, of FastScalarLayout, FastArrayLayout and FastEnumLayout.  Fields are
\* taken by position; of alarm and timeStamp only the number of fields is
\* looked at.
Layout(desc) ==
  LET value == desc.fields[1][2]
      enough == /\ Len(desc.fields) >= 3
                /\ \A i \in {2, 3} : Len(desc.fields[i][2].fields) >= 3 IN
  CASE enough /\ desc.id = NTScalar /\ value.ft = "Scalar" -> Roles(<< "value" >>)
    [] enough /\ desc.id = NTScalarArray /\ value.ft = "ScalarArray"
         /\ value.st # "String" -> Roles(<< "array" >>)
    [] enough /\ desc.id = NTEnum /\ value.ft = "Structure"
         /\ Len(value.fields) >= 2 -> Roles(<< "none", "index", "choices" >>)
    [] OTHER -> NoLayout

\* A fast path is taken if no bit beyond the layout is set; those for arrays
\* and enumerations also want the bit of the value.
TakesFastPath(layout, changed) ==
  /\ layout # NoLayout
  /\ \A b \in changed : b <= Len(layout)
  /\ \A b \in DOMAIN layout : layout[b] \in {"array", "index"} => b \in changed

\* The integers of eight bytes, the lowest first, that an f64 holds exactly.
Fits53(st, v) ==
  \/ v[8] = 0 /\ v[7] < 32
  \/ st = "Long" /\ v[8] = 255 /\ v[7] >= 224

Nearest == << "nearest" >>

\* `as f64`: the other numbers fit, and a longer integer is rounded.
AsF64(st, v) == IF st \in {"Long", "ULong"} /\ ~Fits53(st, v) THEN Nearest ELSE v

\* read_value, but for a string, and read_array convert to f64.
ReadRole(r, role, st) ==
  CASE role \in {"severity", "status", "nanos", "index", "userTag"} -> read_i32(r)
    [] role = "seconds" -> read_wide(r, 8)
    [] role = "message" -> read_string(r)
    [] role = "choices" -> ReadArray(r, "String")
    [] role = "value" -> Then(decode_scalar(r, st), LAMBDA v : Replace(v, AsF64(st, Got(v))))
    [] role = "array" -> Then(ReadArray(r, st), LAMBDA v :
                           Replace(v, [i \in DOMAIN Got(v) |-> AsF64(st, Got(v)[i])]))
    [] OTHER -> Put(r, << >>)

\* What a field starts from: 0, 0.0 or an empty list.  A scalar whose value is
\* not marked is sent on with it, as the number 0 even if it is a string.
Zero == << >>

ValueRole(layout) ==
  CHOOSE role \in {"value", "array", "index"} : \E b \in DOMAIN layout : layout[b] = role

\* The bits that are marked, in order.
Marked(layout, changed) ==
  SelectSeq([b \in DOMAIN layout |-> b], LAMBDA b : b \in changed)

\* What was read at the bit of a role.
ReadAt(read, layout, bits, role) ==
  LET at == { i \in DOMAIN bits : layout[bits[i]] = role } IN
  IF at = {} THEN Zero ELSE << read.out[CHOOSE i \in at : TRUE] >>

\* The event: a field is << v >> if it was read.
FastRead(r, layout, st, changed) ==
  Then(FoldLeft(LAMBDA s, b : IF s.ok THEN ReadRole(s, layout[b], st) ELSE s,
                [r EXCEPT !.out = << >>], Marked(layout, changed)),
       LAMBDA read :
         LET At(role) == ReadAt(read, layout, Marked(layout, changed), role) IN
         Put(read, [value |-> At(ValueRole(layout)), severity |-> At("severity"),
                    status |-> At("status"), seconds |-> At("seconds"),
                    nanos |-> At("nanos")]))
=============================================================================
