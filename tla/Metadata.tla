------------------------------ MODULE Metadata ------------------------------
(***************************************************************************)
(* The metadata of a PV: captured from its first normative type, brought   *)
(* up to date from later ones, captured anew after a reset, and stored as  *)
(* a row.  The archiver captures and stores; update_from and reset are     *)
(* offered by the crates and called by their tests.  Texts and limits are  *)
(* small values; "" and 0 are what Default gives, and a limit, an f64, may *)
(* be NaN.  A normative type is the record of what metadata reads of it:    *)
(* nt, st (the type of its elements), count (elements, rows, bins or       *)
(* channels), descriptor, units, choices, dimension, and the options       *)
(* display, control and value_alarm.  A type that is only captured goes by *)
(* its data type: Matrix for NTMatrix etc.                                 *)
(***************************************************************************)
EXTENDS Integers, Sequences

CONSTANTS
  MetaTypes,   \* normative types, as metadata reads them
  NaN,         \* the f64 that differs from itself
  MaxTypes     \* bound: the calls for one PV

ASSUME MetadataAssumption ==
  /\ MaxTypes \in Nat /\ NaN \notin Int
  /\ \A nt \in MetaTypes :
       /\ nt.display # << >> => nt.display[1].precision \in Int
       /\ nt.control # << >> => nt.control[1].min_step \in Int \cup {NaN}
       /\ nt.value_alarm # << >> => nt.value_alarm[1].hysteresis \in Int \cup {NaN}

VARIABLES
  metadata_extracted,   \* of the PV's converter
  metadata,             \* its PvMetadata
  noticed,              \* [before, changed]: what the last update_from found
                        \* and answered
  stored_row,           \* the row of the metadata
  said,                 \* history: field -> what the last type that spoke of
                        \* it since the capture said
  clock                 \* calls so far; time passes between two of them

metadataVars == << metadata_extracted, metadata, noticed, stored_row, said, clock >>

----------------------------------------------------------------------------
(* PvMetadata.                                                             *)

\* PvDataType::from_nt
DataType(nt) ==
  CASE nt.nt = "NTScalar" -> IF nt.st = "String" THEN "String" ELSE "Scalar"
    [] nt.nt = "NTEnum" -> "Scalar"
    [] nt.nt = "NTScalarArray" -> "Array"
    [] nt.nt = "NTNDArray" -> "Image"
    [] nt.nt = "Custom" -> "Custom"
    [] OTHER -> nt.nt

Empty ==
  [data_type |-> "Custom", scalar_type |-> << >>, array_size |-> << >>,
   description |-> "", units |-> "", precision |-> 0, display_form |-> "Default",
   display_low |-> 0, display_high |-> 0,
   control_low |-> 0, control_high |-> 0, min_step |-> 0,
   alarm_lolo |-> 0, alarm_low |-> 0, alarm_high |-> 0, alarm_hihi |-> 0,
   alarm_hysteresis |-> 0, enum_choices |-> << >>, dimensions |-> << >>,
   updated_at |-> 0]

\* An empty description does not replace one.
apply_display(meta, d) ==
  [meta EXCEPT !.description = IF d.description = "" THEN @ ELSE d.description,
               !.units = d.units, !.precision = d.precision, !.display_form = d.form,
               !.display_low = d.limit_low, !.display_high = d.limit_high]

apply_control(meta, c) ==
  [meta EXCEPT !.control_low = c.limit_low, !.control_high = c.limit_high,
               !.min_step = c.min_step]

apply_value_alarm(meta, va) ==
  [meta EXCEPT !.alarm_lolo = va.low_alarm_limit, !.alarm_low = va.low_warning_limit,
               !.alarm_high = va.high_warning_limit, !.alarm_hihi = va.high_alarm_limit,
               !.alarm_hysteresis = va.hysteresis]

ApplyIf(meta, option, Apply(_, _)) == IF option = << >> THEN meta ELSE Apply(meta, option[1])

apply_optional_display_control_alarm(meta, nt) ==
  ApplyIf(ApplyIf(ApplyIf(meta, nt.display, apply_display),
                  nt.control, apply_control), nt.value_alarm, apply_value_alarm)

\* DimensionInfo::from_dimension; a matrix gives its sizes alone.
DimensionInfo(nt) ==
  [i \in DOMAIN nt.dimension |-> [size |-> nt.dimension[i][1], full_size |-> nt.dimension[i][2]]]

MatrixDimensions(nt) ==
  IF Len(nt.dimension) < 2 THEN << >>
  ELSE [i \in DOMAIN nt.dimension |->
          [size |-> nt.dimension[i][1], full_size |-> nt.dimension[i][1]]]

from_initial_update(nt, now) ==
  LET meta == [Empty EXCEPT !.data_type = DataType(nt), !.updated_at = now]
      Typed(st) == [meta EXCEPT !.scalar_type = << st >>] IN
  CASE nt.nt = "NTScalar" -> apply_optional_display_control_alarm(Typed(nt.st), nt)
    [] nt.nt = "NTEnum" -> [Typed("Int") EXCEPT !.enum_choices = nt.choices]
    [] nt.nt = "NTScalarArray" ->
         apply_optional_display_control_alarm(
           [Typed(nt.st) EXCEPT !.array_size = << nt.count >>], nt)
    [] nt.nt = "Matrix" ->
         [ApplyIf([Typed("Double") EXCEPT !.array_size = << nt.count >>,
                                          !.description = nt.descriptor],
                  nt.display, apply_display) EXCEPT !.dimensions = MatrixDimensions(nt)]
    [] nt.nt = "Histogram" ->
         [meta EXCEPT !.description = nt.descriptor, !.array_size = << nt.count >>]
    [] nt.nt = "Continuum" ->
         [Typed("Double") EXCEPT !.description = nt.descriptor, !.array_size = << nt.count >>,
                                 !.units = IF nt.units = << >> THEN @ ELSE nt.units[1]]
    [] nt.nt = "NameValue" ->
         [Typed(nt.st) EXCEPT !.description = nt.descriptor, !.array_size = << nt.count >>]
    [] nt.nt \in {"Table", "MultiChannel"} -> [meta EXCEPT !.array_size = << nt.count >>]
    [] nt.nt = "NTNDArray" -> [Typed(nt.st) EXCEPT !.dimensions = DimensionInfo(nt)]
    [] nt.nt = "Aggregate" -> Typed("Double")
    [] nt.nt = "Union" ->
         [meta EXCEPT !.description = nt.descriptor,
                      !.scalar_type = IF nt.st = "" THEN @ ELSE << nt.st >>]
    [] OTHER -> meta

Applied(meta, nt) ==
  CASE nt.nt = "NTScalar" -> apply_optional_display_control_alarm(meta, nt)
    [] nt.nt = "NTEnum" -> [meta EXCEPT !.enum_choices = nt.choices]
    [] nt.nt = "NTScalarArray" ->
         apply_optional_display_control_alarm([meta EXCEPT !.array_size = << nt.count >>], nt)
    [] nt.nt = "Matrix" -> ApplyIf(meta, nt.display, apply_display)
    [] nt.nt = "NTNDArray" -> [meta EXCEPT !.dimensions = DimensionInfo(nt)]
    [] OTHER -> meta

\* Mutant: the dimensions are left out of the snapshot, as display_form is.
SnapshotFieldsFew ==
  { "description", "units", "precision", "display_low", "display_high",
    "control_low", "control_high", "alarm_lolo", "alarm_low", "alarm_high",
    "alarm_hihi", "alarm_hysteresis", "enum_choices", "array_size" }

\* MetaSnapshot
SnapshotFields ==
  { "description", "units", "precision", "display_low", "display_high",
    "control_low", "control_high", "alarm_lolo", "alarm_low", "alarm_high",
    "alarm_hihi", "alarm_hysteresis", "enum_choices", "dimensions", "array_size" }

\* != of two f64, and of anything else: NaN is not equal to NaN.
Unequal(a, b) == a # b \/ a = NaN

differs_from(meta, old) == \E f \in SnapshotFields : Unequal(meta[f], old[f])

update_from(meta, nt, now) ==
  LET applied == Applied(meta, nt)
      changed == differs_from(applied, meta) IN
  [meta |-> IF changed THEN [applied EXCEPT !.updated_at = now] ELSE applied,
   changed |-> changed]

\* max, of f64 the other operand if one is NaN.
AtLeast(n, low) == IF n = NaN \/ n < low THEN low ELSE n
Clamp(n, low, high) == IF n > high THEN high ELSE AtLeast(n, low)

\* StoredMetadata::from_core, MetadataRow
from_core(meta) ==
  [meta EXCEPT !.precision = Clamp(@, 0, 15), !.min_step = AtLeast(@, 0),
               !.alarm_hysteresis = AtLeast(@, 0)]

----------------------------------------------------------------------------
(* What the types say: the reference for from_initial_update and           *)
(* update_from, field by field.                                            *)

Heard(old, nt) ==
  LET limited == nt.nt \in {"NTScalar", "NTScalarArray"}
      shown == (limited \/ nt.nt = "Matrix") /\ nt.display # << >>
      controlled == limited /\ nt.control # << >>
      alarmed == limited /\ nt.value_alarm # << >>
      d == nt.display[1]
      c == nt.control[1]
      va == nt.value_alarm[1] IN
  [f \in DOMAIN old |->
     CASE f = "description" /\ shown /\ d.description # "" -> d.description
       [] f = "units" /\ shown -> d.units
       [] f = "precision" /\ shown -> d.precision
       [] f = "display_form" /\ shown -> d.form
       [] f = "display_low" /\ shown -> d.limit_low
       [] f = "display_high" /\ shown -> d.limit_high
       [] f = "control_low" /\ controlled -> c.limit_low
       [] f = "control_high" /\ controlled -> c.limit_high
       [] f = "min_step" /\ controlled -> c.min_step
       [] f = "alarm_lolo" /\ alarmed -> va.low_alarm_limit
       [] f = "alarm_low" /\ alarmed -> va.low_warning_limit
       [] f = "alarm_high" /\ alarmed -> va.high_warning_limit
       [] f = "alarm_hihi" /\ alarmed -> va.high_alarm_limit
       [] f = "alarm_hysteresis" /\ alarmed -> va.hysteresis
       [] f = "enum_choices" /\ nt.nt = "NTEnum" -> nt.choices
       [] f = "array_size" /\ nt.nt = "NTScalarArray" -> << nt.count >>
       [] f = "dimensions" /\ nt.nt = "NTNDArray" -> DimensionInfo(nt)
       [] OTHER -> old[f]]

----------------------------------------------------------------------------
(* PvConverter and those who hold the metadata.                            *)

MetadataCall == clock < MaxTypes /\ clock' = clock + 1

\* The first value after a reset.
maybe_attach_metadata(nt) ==
  /\ MetadataCall /\ ~metadata_extracted /\ metadata_extracted' = TRUE
  /\ metadata' = from_initial_update(nt, clock)
  /\ noticed' = [before |-> metadata', changed |-> FALSE]
  /\ stored_row' = from_core(metadata')
  /\ said' = Heard(metadata', nt)

\* Whoever holds captured metadata.
UpdateMetadata(nt) ==
  /\ MetadataCall /\ clock > 0
  /\ LET u == update_from(metadata, nt, clock) IN
     /\ metadata' = u.meta
     /\ noticed' = [before |-> metadata, changed |-> u.changed]
     /\ stored_row' = from_core(u.meta)
  /\ said' = Heard(said, nt)
  /\ UNCHANGED metadata_extracted

\* reset; before the first value it changes nothing.
ResetConverter ==
  /\ MetadataCall /\ metadata_extracted /\ metadata_extracted' = FALSE
  /\ UNCHANGED << metadata, noticed, stored_row, said >>

MetadataInit ==
  /\ metadata_extracted = FALSE /\ clock = 0
  /\ metadata = Empty /\ said = Empty /\ stored_row = from_core(Empty)
  /\ noticed = [before |-> Empty, changed |-> FALSE]

MetadataNext ==
  \/ \E nt \in MetaTypes : maybe_attach_metadata(nt) \/ UpdateMetadata(nt)
  \/ ResetConverter

MetadataSpec == MetadataInit /\ [][MetadataNext]_metadataVars

----------------------------------------------------------------------------
\* What update_from compares.
Compared == DOMAIN metadata \ {"display_form", "min_step", "updated_at"}

\* The metadata of a PV says of every field what the last type that spoke of
\* it said.  No change of a field that update_from compares is missed, and it
\* answers that there was one without a change only where a limit is NaN; what
\* it answers and the date agree (PvMetadata::update_from, differs_from).  The
\* row stored is within the limits of its columns.  Not compared are
\* display_form and min_step: a change of these alone is made and not reported,
\* although update_from's comment says "any field".
MetadataFollows ==
  /\ \A f \in DOMAIN metadata \ {"updated_at"} : metadata[f] = said[f]
  /\ (\E f \in Compared : metadata[f] # noticed.before[f]) => noticed.changed
  /\ noticed.changed =>
       \E f \in Compared : metadata[f] # noticed.before[f] \/ metadata[f] = NaN
  /\ noticed.changed <=> metadata.updated_at # noticed.before.updated_at
  /\ stored_row.precision \in 0..15
  /\ stored_row.min_step >= 0 /\ stored_row.alarm_hysteresis >= 0
=============================================================================
