------------------------------- MODULE Codec -------------------------------
(***************************************************************************)
(* The codec at work, one topic at a time: messages that are cut short,    *)
(* descriptions announced under ids, updates of a monitored structure, and *)
(* values that become normative types.  A behaviour stays with the topic   *)
(* it starts with.                                                         *)
(*                                                                         *)
(* What the server writes is external: it sends descriptions and data as   *)
(* the protocol lays them out, marking the leaves it sends.                *)
(***************************************************************************)
EXTENDS Integers, Sequences, FiniteSets, TLC, Messages, FieldDesc, Values
LOCAL INSTANCE SequencesExt

CONSTANTS
  Payloads,       \* messages that are sent
  Descs,          \* descriptions that are announced
  Structures,     \* descriptions of monitored structures
  Ids,            \* ids a server gives to descriptions
  MaxEntries,     \* max_entries of the registry
  Samples,        \* values a server sends: [type, value, extra, meant, bare]
  AlarmParts,     \* alarms: options of [severity, status, message], each an option
  TimeParts,      \* times: options of [seconds, nanos, tag]
  Layouts         \* orders of the fields of a structure

ASSUME CodecAssumption ==
  /\ MaxEntries \in Nat
  /\ {Bits16, Bits32, Bits64} \subseteq Nat \ {0}

VARIABLES
  topic,
  sent, written, got,  \* a message or description, its bytes, what was decoded
  registry             \* IntrospectionRegistry: << id, description >> pairs

vars == << topic, sent, written, got, registry >>

Topics == { "message", "types", "update", "values" }
Orders == { "LE", "BE" }
Nothing == [kind |-> "nothing"]

----------------------------------------------------------------------------
(* Messages: one is sent, and a part of it or all of it is decoded.        *)

Send(m, order) ==
  /\ topic = "message" /\ sent = Nothing
  /\ sent' = m @@ [order |-> order]
  /\ written' = EncodePayload(m, order)
  /\ UNCHANGED << topic, got, registry >>

Receive(n) ==
  /\ topic = "message" /\ sent # Nothing /\ got = Nothing
  /\ LET r == DecodePayload(sent.kind, Reader(SubSeq(written, 1, n), sent.order)) IN
     got' = IF r.ok THEN [kind |-> "ok", value |-> Got(r), at |-> r.at, of |-> n]
            ELSE [kind |-> "error", of |-> n]
  /\ UNCHANGED << topic, sent, written, registry >>

----------------------------------------------------------------------------
(* Descriptions: bare, with an id, or an id alone.                         *)

\* id 0 stands for none.
Announced(desc, id, order) ==
  (IF id = 0 THEN << >> ELSE << 253 >> \o write_int(id, 2, order))
    \o EncodeDesc(desc, order)

\* What was made of a description that is of.
Described(d, of) ==
  [kind |-> "desc", value |-> IF d.ok THEN << Got(d) >> ELSE << >>, of |-> of]

\* sent keeps what each id was announced with.  A server that gives an id a
\* new meaning while the registry is full is not understood: see register.
Announce(desc, id, order) ==
  /\ topic = "types"
  /\ Len(registry) >= MaxEntries => \A i \in DOMAIN registry : registry[i][1] # id
  /\ LET d == DecodeDesc(Reader(Announced(desc, id, order), order), registry) IN
     /\ registry' = Registered(d, registry, MaxEntries)
     /\ got' = Described(d, << desc >>)
  /\ sent' = [kind |-> "types",
              ids |-> IF id = 0 THEN sent.ids ELSE [sent.ids EXCEPT ![id] = << desc >>]]
  /\ UNCHANGED << topic, written >>

AnnounceId(id, order) ==
  /\ topic = "types"
  /\ got' = Described(DecodeDesc(Reader(<< 254 >> \o write_int(id, 2, order), order),
                                 registry), sent.ids[id])
  /\ UNCHANGED << topic, sent, written, registry >>

----------------------------------------------------------------------------
(* Updates.  The value of a leaf tells its flat index.                     *)

SampleScalar(st, i) ==
  CASE st = "String" -> << i >>
    [] st \in {"Boolean"} -> 1
    [] st \in {"Byte", "Short", "Int", "UByte", "UShort"} -> i
    [] OTHER -> [k \in 1..Width[st] |->
                   IF k = 1 THEN i ELSE IF st = "Long" /\ k > 6 THEN 0 ELSE k]

\* The flat indices of the fields of a structure at index i; a union is one.
RECURSIVE Span(_)
Span(desc) ==
  IF desc.ft \in {"Structure", "StructureArray"}
    THEN FoldLeft(LAMBDA n, f : n + Span(f[2]), 1, desc.fields) ELSE 1

IndexOf(desc, i, k) ==
  FoldLeft(LAMBDA n, f : n + Span(f[2]), i + 1, SubSeq(desc.fields, 1, k - 1))

RECURSIVE Sample(_, _)
Sample(desc, i) ==
  CASE desc.ft = "Scalar" -> << "scalar", SampleScalar(desc.st, i) >>
    [] desc.ft = "BoundedString" -> << "scalar", << i >> >>
    [] desc.ft = "ScalarArray" ->
         << "array", << SampleScalar(desc.st, i), SampleScalar(desc.st, i + 1) >> >>
    [] desc.ft = "Union" -> << "union", 0, Sample(desc.fields[1][2], i) >>
    [] OTHER -> << "struct", [k \in DOMAIN desc.fields |->
                                Sample(desc.fields[k][2], IndexOf(desc, i, k))] >>

\* What is left of it when only some leaves changed.
RECURSIVE Changed(_, _, _)
Changed(desc, i, changed) ==
  IF desc.ft \in {"Structure", "StructureArray"}
    THEN IF i..(i + Span(desc) - 1) \cap changed = {} THEN Null
         ELSE << "struct", [k \in DOMAIN desc.fields |->
                  Changed(desc.fields[k][2], IndexOf(desc, i, k), changed)] >>
    ELSE IF i \in changed THEN Sample(desc, i) ELSE Null

WriteScalar(v, st, order) ==
  CASE st = "String" -> write_string(v, order)
    [] st \in {"Boolean", "Byte", "Short", "Int", "UByte", "UShort"} ->
         write_int(v, Width[st], order)
    [] OTHER -> InOrder(v, order)

RECURSIVE WriteValue(_, _, _)
WriteValue(v, desc, order) ==
  CASE v = Null -> << >>
    [] v # Null /\ desc.ft = "Scalar" -> WriteScalar(v[2], desc.st, order)
    [] v # Null /\ desc.ft = "BoundedString" -> write_string(v[2], order)
    [] v # Null /\ desc.ft = "ScalarArray" ->
         write_size(Len(v[2]), order)
           \o WriteEach(v[2], LAMBDA x : WriteScalar(x, desc.st, order))
    [] v # Null /\ desc.ft = "Union" ->
         write_int(v[2], 4, order) \o WriteValue(v[3], desc.fields[1][2], order)
    [] OTHER -> FlattenSeq([k \in DOMAIN desc.fields |->
                              WriteValue(v[2][k], desc.fields[k][2], order)])

RECURSIVE Leaves(_, _)
Leaves(desc, i) ==
  IF desc.ft \in {"Structure", "StructureArray"}
    THEN UNION { Leaves(desc.fields[k][2], IndexOf(desc, i, k)) : k \in DOMAIN desc.fields }
    ELSE {i}

\* The value that was sent: all of it when bit 0 is set.
SentValue(desc, changed) ==
  IF 0 \in changed THEN Sample(desc, 0)
  ELSE << "struct", [k \in DOMAIN desc.fields |->
           Changed(desc.fields[k][2], IndexOf(desc, 0, k), changed)] >>

\* The decoding of handle_monitor_update.  A fast path that fails, or reads an
\* empty array, falls through with a reader that has moved.
ReadUpdate(r, desc, changed, first) ==
  LET layout == Layout(desc)
      Slow(start) ==
        LET d == IF 0 \in changed THEN decode_from(start, desc)
                 ELSE DecodeDelta(start, desc, changed) IN
        IF d.ok THEN [kind |-> "value", value |-> Got(d)] ELSE [kind |-> "lost"]
      After(fast) ==
        IF ~fast.ok \/ (ValueRole(layout) = "array" /\ Got(fast).value = << << >> >>)
          THEN Slow([r EXCEPT !.at = fast.at])
          ELSE [kind |-> "delta", value |-> Got(fast)] IN
  IF 0 \notin changed /\ ~first /\ TakesFastPath(layout, changed)
    THEN After(FastRead(r, layout, desc.fields[1][2].st, changed))
    ELSE Slow(r)

\* The data is followed by the overrun set, which is empty.
HearUpdate(desc, changed, first, order) ==
  /\ topic = "update" /\ sent = Nothing
  /\ sent' = [kind |-> "update", desc |-> desc, changed |-> changed, first |-> first]
  /\ written' = WriteValue(SentValue(desc, changed), desc, order) \o << 0 >>
  /\ got' = ReadUpdate(Reader(written', order), desc, changed, first)
  /\ UNCHANGED << topic, registry >>

----------------------------------------------------------------------------
(* Values.  A server lays the parts of a structure out in an order; a leaf *)
(* a delta does not mark is Null.                                          *)

Leaf(st, option) == IF option = << >> THEN NullOf ELSE ScalarOf(st, option[1])

AlarmTree(option) ==
  IF option = << >> THEN NullOf
  ELSE StructOf(<< << "severity", Leaf("Int", option[1].severity) >>,
                   << "status", Leaf("Int", option[1].status) >>,
                   << "message", Leaf("String", option[1].message) >> >>)

TimeTree(option) ==
  IF option = << >> THEN NullOf
  ELSE StructOf(<< << "secondsPastEpoch", Leaf("Long", option[1].seconds) >>,
                   << "nanoseconds", Leaf("Int", option[1].nanos) >>,
                   << "userTag", Leaf("Int", option[1].tag) >> >>)

Tree(sample, alarm, time, layout) ==
  StructOf([i \in DOMAIN layout |->
    << layout[i],
       CASE layout[i] = "value" -> sample.value
         [] layout[i] = "alarm" -> AlarmTree(alarm)
         [] layout[i] = "timeStamp" -> TimeTree(time)
         [] OTHER -> ScalarOf("String", layout[i]) >>] \o sample.extra)

\* typed: its description is at hand.
Convert(sample, alarm, time, layout, typed) ==
  /\ sent' = [kind |-> "value", sample |-> sample, alarm |-> alarm, time |-> time,
              layout |-> layout, typed |-> typed]
  /\ LET v == Tree(sample, alarm, time, layout) IN
     got' = [kind |-> "normative",
             value |-> IF typed THEN to_normative(sample.type, v)
                       ELSE to_normative_from_value(v)]
  /\ UNCHANGED << topic, written, registry >>

----------------------------------------------------------------------------
Init ==
  /\ topic \in Topics
  /\ sent = IF topic = "types" THEN [kind |-> "types", ids |-> [i \in Ids |-> << >>]]
            ELSE Nothing
  /\ got = Nothing /\ registry = << >>
  /\ written = << >>

Next ==
  \/ \E m \in Payloads, o \in Orders : Send(m, o)
  \/ \E n \in 0..Len(written) : Receive(n)
  \/ \E d \in Descs, id \in Ids \cup {0}, o \in Orders : Announce(d, id, o)
  \/ \E id \in Ids, o \in Orders : AnnounceId(id, o)
  \/ \E d \in Structures, first \in BOOLEAN, o \in Orders :
       \E changed \in {{0}} \cup (SUBSET Leaves(d, 0) \ {{}}) :
         HearUpdate(d, changed, first, o)
  \/ /\ topic = "values" /\ sent = Nothing
     /\ \E s \in Samples, a \in AlarmParts, t \in TimeParts, l \in Layouts, typed \in BOOLEAN :
          Convert(s, a, t, l, typed)

Spec == Init /\ [][Next]_vars

----------------------------------------------------------------------------
\* A message decodes to what was sent, in either byte order and for sizes of
\* either form, and never before its last byte that is read has arrived; a
\* description decodes to the one that was announced, also under its id alone
\* while the registry has room (encode and decode of the messages, of
\* FieldDesc, and PvaWriter and PvaReader).
WireRoundTrip ==
  /\ got.kind = "ok" =>
       /\ got.value @@ [order |-> sent.order] = sent
       /\ got.at = Len(written) - Unread(sent)
  /\ got.kind = "error" => got.of < Len(written) - Unread(sent)
  /\ got.kind = "desc" =>
       \/ got.value = got.of
       \/ got.value = << >> /\ Len(registry) = MaxEntries

\* The event that a delta stands for: a field that was not sent is zero.
EventOf(desc, changed) ==
  LET enum == desc.id = NTEnum
      value == IF enum THEN desc.fields[1][2].fields[1][2] ELSE desc.fields[1][2]
      At(i, d) == IF i \in changed THEN << Sample(d, i)[2] >> ELSE Zero
      alarm == IndexOf(desc, 0, 2)
      time == IndexOf(desc, 0, 3) IN
  [value |-> At(IF enum THEN 2 ELSE 1, value),
   severity |-> At(alarm + 1, ScalarDesc("Int")), status |-> At(alarm + 2, ScalarDesc("Int")),
   seconds |-> At(time + 1, ScalarDesc("Long")), nanos |-> At(time + 2, ScalarDesc("Int"))]

\* A structure inside another one that holds a union: flat_field_count and
\* skip_flat_indices count the members of the union, decode_delta_structure
\* counts the union alone.
RECURSIVE HoldsUnion(_)
HoldsUnion(desc) ==
  \/ desc.ft \in {"Union", "UnionArray"}
  \/ \E k \in DOMAIN desc.fields : HoldsUnion(desc.fields[k][2])

NestedUnion(desc) ==
  \E k \in DOMAIN desc.fields :
    desc.fields[k][2].ft = "Structure" /\ HoldsUnion(desc.fields[k][2])

\* The event says what the delta said, but for an integer of more than 53 bits,
\* which is rounded.
EventAgrees(event, desc, changed) ==
  LET exact == EventOf(desc, changed)
      value == desc.fields[1][2]
      Same(v, w) == v = w \/ (value.st \in {"Long", "ULong"} /\ ~Fits53(value.st, w)) IN
  /\ [event EXCEPT !.value = exact.value] = exact
  /\ Len(event.value) = Len(exact.value)
  /\ \A i \in DOMAIN exact.value :
       IF value.ft = "ScalarArray"
         THEN /\ Len(event.value[i]) = Len(exact.value[i])
              /\ \A k \in DOMAIN exact.value[i] : Same(event.value[i][k], exact.value[i][k])
         ELSE Same(event.value[i], exact.value[i])

\* Whichever leaves an update marks, and whichever of the four decoders reads
\* it, what is published says what was sent.  In a value that is built, every
\* marked leaf has its value and no other has one.  In the event of a fast path
\* every marked field has its value, as an f64 that is exact up to 53 bits, and
\* every other one is zero; that can be the value itself only for an NTScalar,
\* of which an update of the alarm alone is sent on with the value 0
\* (decode_delta_structure, skip_flat_indices and the layouts of the fast paths
\* count the same flat indices).  Two cases are left out: empty arrays, see the
\* note on session.rs:1446, and deltas of structures with a nested union, of
\* which the code counts the indices in two ways.
UpdateReadAsSent ==
  topic = "update" /\ sent # Nothing /\ (0 \in sent.changed \/ ~NestedUnion(sent.desc)) =>
    \/ got.kind = "value" /\ got.value = SentValue(sent.desc, sent.changed)
    \/ /\ got.kind = "delta" /\ ~sent.first
       /\ EventAgrees(got.value, sent.desc, sent.changed)
       /\ got.value.value = Zero => sent.desc.id = NTScalar

\* The structures of which convert_nt_scalar finds every part: one of three
\* fields or more that begins with a scalar must begin with the value, the
\* alarm and the time.
FoundByPlace(sample, layout) ==
  sample.type = "NTScalar" /\ Len(layout) >= 3 /\ layout[1] \notin {"alarm", "timeStamp"}
    => SubSeq(layout, 1, 3) = << "value", "alarm", "timeStamp" >>

\* What was sent of a part of the structure: nothing when it is not laid out.
Laid(option, name, layout) ==
  IF option # << >> /\ \E i \in DOMAIN layout : layout[i] = name THEN option ELSE << >>

MeantAlarm(option) ==
  IF option = << >> THEN [severity |-> 0, status |-> 0, message |-> ""]
  ELSE [severity |-> LET s == OrElse(option[1].severity, 0) IN IF s \in 0..3 THEN s ELSE 4,
        status |-> LET s == OrElse(option[1].status, 0) IN
                   IF s \in {0, 1, 2, 3, 4, 5, 7} THEN s ELSE 6,
        message |-> OrElse(option[1].message, "")]

MeantTime(option) ==
  IF option = << >> THEN [seconds |-> 0, nanoseconds |-> 0, user_tag |-> 0]
  ELSE [seconds |-> OrElse(option[1].seconds, 0), nanoseconds |-> OrElse(option[1].nanos, 0),
        user_tag |-> OrElse(option[1].tag, 0)]

\* A structure becomes the normative type of its value with the alarm and the
\* time it was sent with, whether its parts are found by place or by name,
\* with a description or without one (to_normative, which only the tests call,
\* and to_normative_from_value).  A scalar or an array that a delta left out
\* never becomes a sample; an enumeration whose index was left out becomes one
\* with the index 0, and one left out as a whole does too where a description
\* says that it is one (convert_nt_enum).  A structure that begins with another
\* scalar, or has another field behind its value, is read by place all the
\* same and is left out here: FoundByPlace.
ConvertedAsSent ==
  topic = "values" /\ sent # Nothing /\ FoundByPlace(sent.sample, sent.layout) =>
    LET meant == IF sent.typed THEN sent.sample.meant ELSE sent.sample.bare
        valued == Laid(<< TRUE >>, "value", sent.layout) # << >>
        nt == got.value[1] IN
    IF ~valued /\ sent.sample.type # "NTTable" /\ sent.sample.type # "vendor"
      THEN got.value = << >>
      ELSE valued =>
        /\ got.value = << >> <=> meant = << >>
        /\ meant # << >> =>
             /\ << nt.nt, IF nt.nt = "Custom" THEN nt.value["value"] ELSE nt.value >> = meant[1]
             /\ nt.alarm = MeantAlarm(Laid(sent.alarm, "alarm", sent.layout))
             /\ nt.timestamp = MeantTime(Laid(sent.time, "timeStamp", sent.layout))
=============================================================================
