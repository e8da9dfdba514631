------------------------------- MODULE PvData -------------------------------
(***************************************************************************)
(* The pvData wire format: integers in the byte order of the connection,   *)
(* sizes and strings.                                                      *)
(* i32 and narrower integers are numbers; 8-byte values and floats stay    *)
(* the bytes they are, least significant first.  A string is its bytes; a  *)
(* byte above 127 stands for one that is not UTF-8.                        *)
(*                                                                         *)
(* A reader is a record: what it has read so far is the sequence out, and  *)
(* ok is FALSE once a read has failed.  A failed reader reads no further,  *)
(* as every read of the code returns early with `?`.                       *)
(***************************************************************************)
EXTENDS Integers, Sequences, Header
LOCAL INSTANCE SequencesExt

SIZE_NULL == 255
SIZE_EXTENDED == 254

----------------------------------------------------------------------------
(* PvaWriter.                                                              *)

\* Mutant: the marker of the extended form is taken for a size of one byte.
WriteSizeMarker(n, order) ==
  IF n <= SIZE_EXTENDED THEN << n >>
  ELSE << SIZE_EXTENDED >> \o write_int(n, 4, order)

write_size(n, order) ==
  IF n < SIZE_EXTENDED THEN << n >>
  ELSE << SIZE_EXTENDED >> \o write_int(n, 4, order)

write_string(s, order) == write_size(Len(s), order) \o s

\* The bytes of a list, without its length: Write gives those of one item.
WriteEach(list, Write(_)) == FlattenSeq([i \in DOMAIN list |-> Write(list[i])])

----------------------------------------------------------------------------
(* PvaReader.                                                              *)

Reader(buf, order) ==
  [buf |-> buf, at |-> 0, ok |-> TRUE, order |-> order, out |-> << >>]

Got(r) == Last(r.out)
Failed(r) == [r EXCEPT !.ok = FALSE]
Put(r, v) == [r EXCEPT !.out = Append(@, v)]
Forget(r) == IF r.ok THEN [r EXCEPT !.out = Front(@)] ELSE r
Replace(r, v) == Put(Forget(r), v)

\* The rest of a decoder, after `?`.
Then(r, Rest(_)) == IF r.ok THEN Rest(r) ELSE r

\* ensure, read_fixed, read_bytes
read_bytes(r, n) ==
  IF r.ok /\ r.at + n <= Len(r.buf)
    THEN [Put(r, SubSeq(r.buf, r.at + 1, r.at + n)) EXCEPT !.at = @ + n]
    ELSE Failed(r)

read_int(r, width, signed) ==
  Then(read_bytes(r, width),
       LAMBDA b : Replace(b, Number(InOrder(Got(b), b.order), signed)))

read_u8(r) == read_int(r, 1, FALSE)
read_u16(r) == read_int(r, 2, FALSE)
read_i16(r) == read_int(r, 2, TRUE)
read_i32(r) == read_int(r, 4, TRUE)

\* read_i64, read_f32, read_f64: a value that is only carried along.
read_wide(r, width) ==
  Then(read_bytes(r, width), LAMBDA b : Replace(b, InOrder(Got(b), b.order)))

\* read_size_non_null: a null is an error, and so is a negative size.
read_size(r) ==
  Then(read_u8(r), LAMBDA tag :
    CASE Got(tag) = SIZE_NULL -> Failed(tag)
      [] Got(tag) = SIZE_EXTENDED ->
           Then(read_i32(Forget(tag)), LAMBDA n : IF Got(n) < 0 THEN Failed(n) ELSE n)
      [] OTHER -> tag)

read_string(r) ==
  Then(read_size(r), LAMBDA n :
    Then(read_bytes(Forget(n), Got(n)), LAMBDA s :
      IF \E i \in DOMAIN Got(s) : Got(s)[i] > 127 THEN Failed(s) ELSE s))

\* n items of which Read reads one, as one value.
ReadEach(r, n, Read(_)) ==
  LET items == FoldLeft(LAMBDA s, i : IF s.ok THEN Read(s) ELSE s,
                        [r EXCEPT !.out = << >>], [i \in 1..n |-> i]) IN
  [items EXCEPT !.out = Append(r.out, items.out)]

\* As many items as the number just read says, in its place.
Counted(n, Read(_)) == Then(n, LAMBDA c : ReadEach(Forget(c), Got(c), Read))

\* The last n values read, as one.
Group(r, n) ==
  Then(r, LAMBDA s :
    [s EXCEPT !.out = Append(SubSeq(@, 1, Len(@) - n),
                             SubSeq(@, Len(@) - n + 1, Len(@)))])
=============================================================================
