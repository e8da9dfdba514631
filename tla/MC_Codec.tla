------------------------------ MODULE MC_Codec ------------------------------
EXTENDS Codec, BitSet, Framing, Metadata

Long == [i \in 1..254 |-> 65]
Almost == [i \in 1..253 |-> 65]
Octets == [i \in 1..16 |-> i]
Addr == << Octets, 5075 >>

MCPayloads ==
  { [kind |-> "search", seq |-> -2, reply |-> r, unicast |-> u, addr |-> Addr,
     protocol |-> TCP, channels |-> c] :
      r, u \in BOOLEAN, c \in { << >>, << << 1, << 65 >> >>, << -1, << >> >> >> } }
  \cup { [kind |-> "found", guid |-> [i \in 1..12 |-> 200 + i], seq |-> 70000,
          addr |-> Addr, protocol |-> TCP, found |-> f] : f \in { << >>, << 7, -8 >> } }
  \cup { [kind |-> "create", channels |-> << << 300, n >> >>] : n \in { << 66 >>, Almost, Long } }
  \cup { [kind |-> "created", cid |-> 1, sid |-> -1, status |-> s] :
           s \in { StatusOk, << 0, << 65 >>, << >> >>, << 1, << >>, << >> >>,
                   << 2, << 65 >>, << << 66 >> >> >>, << 3, << >>, << << >> >> >> } }
  \cup { [kind |-> "destroy", cid |-> 16777216, sid |-> 255] }
  \cup { [kind |-> "monitor", sid |-> 1, rid |-> 2, sub |-> s] :
           s \in { << 8 >>, << 4 >>, << 68 >>, << 2 >>, << 16 >>, << 128, 4 >> } }
  \cup { [kind |-> "update", rid |-> 258, sub |-> s] : s \in {0, 8, 16} }
  \cup { [kind |-> "validation", buffer |-> 16384, registry |-> -1, auth |-> a] :
           a \in { << >>, << << 67, 65 >>, << 65 >> >> } }
  \cup { [kind |-> "validated", buffer |-> 4, registry |-> 32767, qos |-> 40000, auth |-> << 65 >>] }

Alarm == StructDesc(<< 97 >>, << Field(<< 1 >>, ScalarDesc("Int")), Field(<< 2 >>, ScalarDesc("Int")),
                                Field(<< 3 >>, ScalarDesc("String")) >>)
Time == StructDesc(<< 98 >>, << Field(<< 1 >>, ScalarDesc("Long")), Field(<< 2 >>, ScalarDesc("Int")),
                               Field(<< 3 >>, ScalarDesc("Int")) >>)
Display == StructDesc(<< >>, << Field(<< 1 >>, ScalarDesc("Double")) >>)
Bounded == Desc("BoundedString", "", 300, << >>, << >>)
Holder == StructDesc(<< >>, << Field(<< 1 >>, Desc("Union", "", 0, << 99 >>,
  << Field(<< 1 >>, ScalarDesc("Short")), Field(<< 2 >>, ScalarDesc("Int")) >>)) >>)
AUnion == Desc("Union", "", 0, << 99 >>, << Field(<< 1 >>, ScalarDesc("Short")), Field(<< 2 >>, Alarm) >>)
Enum == StructDesc(<< 101 >>, << Field(<< 1 >>, ScalarDesc("Int")), Field(<< 2 >>, ArrayDesc("String")) >>)

NT(id, value) ==
  StructDesc(id, << Field(<< 4 >>, value), Field(<< 5 >>, Alarm), Field(<< 6 >>, Time),
                    Field(<< 7 >>, Display) >>)

MCStructures ==
  { NT(NTScalar, ScalarDesc(st)) : st \in {"Double", "Byte", "String", "Boolean", "Long", "ULong"} }
  \cup { NT(NTScalarArray, ArrayDesc(st)) : st \in {"Int", "UByte", "String", "ULong"} }
  \cup { NT(NTEnum, Enum),
         StructDesc(<< 9 >>, << Field(<< 1 >>, Alarm), Field(<< 3 >>, AUnion),
                                Field(<< 2 >>, Bounded), Field(<< 4 >>, Alarm) >>),
         StructDesc(<< 9 >>, << Field(<< 1 >>, Holder), Field(<< 2 >>, Bounded) >>) }

Everything ==
  StructDesc(<< 9 >>,
    << Field(<< 1 >>, AUnion), Field(<< 2 >>, Bounded), Field(<< >>, ArrayDesc("Float")),
       Field(<< 3 >>, Desc("VariantUnion", "", 0, << >>, << >>)),
       Field(<< 4 >>, Desc("VariantUnionArray", "", 0, << >>, << >>)),
       Field(<< 5 >>, Desc("UnionArray", "", 0, << 1 >>, << >>)),
       Field(<< 6 >>, Desc("StructureArray", "", 0, << >>,
                           << Field(<< 1 >>, ScalarDesc("ULong")) >>)) >>)

MCDescs == { Everything, ScalarDesc("Boolean") }

Sampled(type, value, nt, bare) ==
  [type |-> type, value |-> value, extra |-> << >>, meant |-> nt, bare |-> bare]

Scalars(st, v) ==
  LET s == ScalarOf(st, v) IN
  Sampled("NTScalar", s, << << "NTScalar", s >> >>, << << "NTScalar", s >> >>)

Arrays(st, values) ==
  LET a == ArrayOf([i \in DOMAIN values |-> ScalarOf(st, values[i])])
      nt == << "NTScalarArray", [st |-> IF values = << >> THEN "Double" ELSE st,
                                 values |-> values] >> IN
  Sampled("NTScalarArray", a, << nt >>, << nt >>)

EnumOf(index, choices) ==
  StructOf(<< << "index", Leaf("Int", index) >>,
              << "choices", IF choices = << >> THEN NullOf
                            ELSE ArrayOf([i \in DOMAIN choices |-> ScalarOf("String", choices[i])]) >> >>)
Enums(index, choices) ==
  LET nt == << "NTEnum", [index |-> OrElse(index, 0), choices |-> choices] >> IN
  Sampled("NTEnum", EnumOf(index, choices), << nt >>, << nt >>)

Column(v) == ArrayOf(<< ScalarOf("Int", v), ScalarOf("Int", v + 1) >>)
Table ==
  [Sampled("NTTable", StructOf(<< << "a", Column(1) >>, << "b", NullOf >>, << "c", Column(3) >> >>),
    << << "NTTable", [labels |-> << "A", "C" >>,
         columns |-> << [name |-> "a", values |-> [st |-> "Int", values |-> << 1, 2 >>]],
                        [name |-> "c", values |-> [st |-> "Int", values |-> << 3, 4 >>]] >>] >> >>,
    << >>)
   EXCEPT !.extra = << << "labels", ArrayOf(<< ScalarOf("String", "A"), ScalarOf("String", "C") >>) >> >>]

Dim(size) ==
  StructOf(<< << "size", Leaf("Int", size) >>, << "fullSize", ScalarOf("Int", 9) >>,
              << "reverse", ScalarOf("Boolean", TRUE) >> >>)
Image ==
  [Sampled("NTNDArray", Column(5),
    << << "NTNDArray",
          [data |-> [st |-> "Int", values |-> << 5, 6 >>],
           dimension |-> << [size |-> 4, offset |-> 0, full_size |-> 9, binning |-> 1, reverse |-> TRUE] >>,
           codec |-> "lz4", compressed_size |-> 2, uncompressed_size |-> 0, unique_id |-> 3,
           data_timestamp |-> [seconds |-> 8, nanoseconds |-> 0, user_tag |-> 0],
           attribute |-> << [name |-> "n", value |-> ScalarOf("Double", 3), source |-> "",
                             description |-> ""] >>] >> >>,
    << << "NTScalarArray", [st |-> "Int", values |-> << 5, 6 >>] >> >>)
   EXCEPT !.extra =
     << << "dimension", StructOf(<< << "0", Dim(<< 4 >>) >>, << "1", Dim(<< >>) >> >>) >>,
        << "codec", StructOf(<< << "name", ScalarOf("String", "lz4") >> >>) >>,
        << "compressedSize", ScalarOf("Long", 2) >>, << "uniqueId", ScalarOf("Int", 3) >>,
        << "dataTimeStamp", TimeTree(<< [seconds |-> << 8 >>, nanos |-> << >>, tag |-> << >>] >>) >>,
        << "attribute",
           StructOf(<< << "0", StructOf(<< << "name", ScalarOf("String", "n") >>,
                                           << "value", ScalarOf("Double", 3) >> >>) >>,
                       << "1", StructOf(<< << "name", ScalarOf("String", "m") >> >>) >> >>) >> >>]

Custom ==
  Sampled("vendor", StructOf(<< << "x", ScalarOf("Double", 3) >>,
                                << "y", ArrayOf(<< ScalarOf("ULong", 7) >>) >>,
                                << "z", UnionOf("u", ScalarOf("Boolean", TRUE)) >> >>),
    << << "Custom", [x |-> ScalarOf("Double", 3), y |-> << ScalarOf("Int", 7) >>,
                     z |-> [u |-> ScalarOf("Boolean", TRUE)]] >> >>, << >>)

MCSamples ==
  { Scalars("Double", 5), Scalars("Boolean", TRUE), Scalars("String", "on"),
    Arrays("Int", << 1, 2 >>), Arrays("Boolean", << TRUE, FALSE >>), Arrays("String", << >>),
    Enums(<< 1 >>, << "off", "on" >>), Enums(<< 1 >>, << >>), Enums(<< >>, << "off", "on" >>),
    Sampled("NTEnum", NullOf, << << "NTEnum", [index |-> 0, choices |-> << >>] >> >>, << >>),
    Sampled("NTScalarArray", NullOf, << >>, << >>), Sampled("NTScalar", NullOf, << >>, << >>),
    Table, Image, Custom }

MCAlarmParts ==
  { << >> } \cup { << [severity |-> s, status |-> t, message |-> m] >> :
      s \in { << >>, << 2 >>, << 5 >> }, t \in { << >>, << 6 >>, << 7 >> }, m \in { << "high" >> } }
MCTimeParts ==
  { << >> } \cup { << [seconds |-> << 3 >>, nanos |-> n, tag |-> << 2 >>] >> :
                     n \in { << >>, << 4 >> } }
MCLayouts ==
  { << "value", "alarm", "timeStamp" >>, << "value", "alarm", "timeStamp", "descriptor" >>,
    << "value", "descriptor", "alarm", "timeStamp" >>, << "value" >>, << "value", "timeStamp" >>,
    << "alarm", "timeStamp", "value" >>, << "descriptor", "timeStamp", "value", "alarm" >>,
    << "alarm", "timeStamp", "descriptor" >> }
----------------------------------------------------------------------------
(* Streams. *)

Head8(flags, size) == [version |-> 2, flags |-> flags, command |-> 13, payload_size |-> size]
Unit(flags, size, payload) ==
  [header |-> Head8(flags, size), magic |-> PVA_MAGIC, payload |-> payload]

MCUnits ==
  { Unit(0, 1, << 10 >>), Unit(192, 0, << >>), Unit(16, 1, << 3 >>),
    Unit(176, 1, << 4 >>), Unit(32, 1, << 5 >>), Unit(1, -7, << >>), Unit(0, 3, << 6, 6, 6 >>),
    Unit(128, -1, << >>), [Unit(0, 0, << >>) EXCEPT !.magic = 0] }

----------------------------------------------------------------------------
(* Normative types, as metadata reads them. *)

Shown(d, u, f, p) ==
  [description |-> d, units |-> u, form |-> f, precision |-> p, limit_low |-> 0, limit_high |-> p]
Controlled(n) == [limit_low |-> 0, limit_high |-> 5, min_step |-> n]
Alarmed(n) ==
  [low_alarm_limit |-> 1, low_warning_limit |-> 2, high_warning_limit |-> 3,
   high_alarm_limit |-> n, hysteresis |-> 4 - n]

Typed(nt, st, count) ==
  [nt |-> nt, st |-> st, count |-> count, descriptor |-> "desc", units |-> << "V" >>,
   choices |-> << "off" >>, dimension |-> << << 2, 4 >>, << 3, 3 >> >>,
   display |-> << >>, control |-> << >>, value_alarm |-> << >>]

MCMetaTypes ==
  { [Typed("NTScalar", "Double", 1) EXCEPT !.display = d] :
      d \in { << >>, << Shown("a", "V", "Default", 3) >>, << Shown("", "A", "Hex", 20) >>,
              << Shown("", "A", "Default", 20) >>,
              << [Shown("", "A", "Hex", 20) EXCEPT !.limit_high = NaN] >> } }
  \cup { [Typed("NTScalar", "String", 1) EXCEPT !.control = c, !.value_alarm = v] :
           c \in { << Controlled(1) >>, << Controlled(-1) >> }, v \in { << >>, << Alarmed(5) >> } }
  \cup { [Typed("NTScalar", "String", 1) EXCEPT !.control = << Controlled(NaN) >>,
           !.value_alarm = << [Alarmed(5) EXCEPT !.hysteresis = NaN] >>] }
  \cup { [Typed("NTEnum", "Int", 1) EXCEPT !.choices = c] : c \in { << >>, << "off", "on" >> } }
  \cup { Typed("NTScalarArray", "Int", n) : n \in 1..2 }
  \cup { [Typed("NTNDArray", "UByte", 9) EXCEPT !.dimension = d] :
           d \in { << >>, << << 2, 4 >> >>, << << 3, 4 >> >> } }
  \cup { [Typed("Matrix", "Double", 6) EXCEPT !.display = << Shown("m", "K", "Default", 1) >>] }
  \cup { Typed(nt, "Double", 7) :
           nt \in { "Histogram", "Continuum", "NameValue", "Table", "MultiChannel", "Aggregate",
                    "Union", "Custom" } }

----------------------------------------------------------------------------
(* Four machines side by side: one of them moves in a behaviour, the others *)
(* stay as they began.                                                      *)
CodecRests == topic = "message" /\ sent = Nothing
BitSetRests == bits = new
FramingRests == stream = << >>
MetadataRests == clock = 0

MCInit == Init /\ BitSetInit /\ FramingInit /\ MetadataInit

MCNext ==
  \/ /\ BitSetRests /\ FramingRests /\ MetadataRests
     /\ Next /\ UNCHANGED << bitVars, framingVars, metadataVars >>
  \/ /\ CodecRests /\ FramingRests /\ MetadataRests
     /\ BitSetNext /\ UNCHANGED << vars, framingVars, metadataVars >>
  \/ /\ CodecRests /\ BitSetRests /\ MetadataRests
     /\ FramingNext /\ UNCHANGED << vars, bitVars, metadataVars >>
  \/ /\ CodecRests /\ BitSetRests /\ FramingRests
     /\ MetadataNext /\ UNCHANGED << vars, bitVars, framingVars >>

MCSpec == MCInit /\ [][MCNext]_<< vars, bitVars, framingVars, metadataVars >>
=============================================================================
