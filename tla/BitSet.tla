------------------------------- MODULE BitSet -------------------------------
(***************************************************************************)
(* PvaBitSet: the set of changed fields of an update.  A word is the set   *)
(* of its one-bits; the first words are inline, the others in a vector     *)
(* that grows.  On the wire it is its bytes, each the set of its one-bits, *)
(* without the trailing zero bytes; their number goes in front.  The       *)
(* machine is one bit set under its operations.                            *)
(***************************************************************************)
EXTENDS Integers, Sequences, FiniteSets

CONSTANTS
  ByteBits,       \* 8
  WordBytes,      \* 8
  INLINE_WORDS,   \* 2
  MaxBit          \* bound: the bits that are used

ASSUME BitSetAssumption ==
  /\ {ByteBits, WordBytes} \subseteq Nat \ {0}
  /\ {INLINE_WORDS, MaxBit} \subseteq Nat

VARIABLES
  bits,   \* a PvaBitSet
  marks   \* history: the set it stands for

bitVars == << bits, marks >>

WordBits == ByteBits * WordBytes
INLINE_BITS == INLINE_WORDS * WordBits

Zeros(n) == [i \in 1..n |-> {}]
DivCeil(n, d) == (n + d - 1) \div d
Larger(m, n) == IF m > n THEN m ELSE n
Smaller(m, n) == IF m < n THEN m ELSE n

\* Vec::resize
Resize(words, n) == [i \in 1..n |-> IF i <= Len(words) THEN words[i] ELSE {}]

new == [inline |-> Zeros(INLINE_WORDS), overflow |-> << >>, bit_count |-> 0]

with_capacity(n) ==
  [new EXCEPT !.bit_count = n,
              !.overflow = IF n > INLINE_BITS
                             THEN Zeros(DivCeil(n - INLINE_BITS, WordBits))
                             ELSE << >>]

\* A word by its number from 0; get_word.
Word(bs, w) ==
  IF w < INLINE_WORDS THEN bs.inline[w + 1]
  ELSE IF w - INLINE_WORDS < Len(bs.overflow) THEN bs.overflow[w - INLINE_WORDS + 1]
  ELSE {}

\* A word that is there is replaced; `if ow < overflow.len()`.
PutWord(bs, w, word) ==
  IF w < INLINE_WORDS THEN [bs EXCEPT !.inline[w + 1] = word]
  ELSE IF w - INLINE_WORDS < Len(bs.overflow)
    THEN [bs EXCEPT !.overflow[w - INLINE_WORDS + 1] = word]
  ELSE bs

\* Words are put one by one from the first on, as far as there is room.
PutWords(bs, words) ==
  [bs EXCEPT
     !.inline = [i \in 1..INLINE_WORDS |-> IF i <= Len(words) THEN words[i] ELSE @[i]],
     !.overflow = [i \in 1..Len(@) |->
                     IF INLINE_WORDS + i <= Len(words) THEN words[INLINE_WORDS + i] ELSE @[i]]]

is_set(bs, i) == i % WordBits \in Word(bs, i \div WordBits)

\* Room for bit i: the vector grows, and so does bit_count.
Grown(bs, i) ==
  LET ow == i \div WordBits - INLINE_WORDS IN
  [bs EXCEPT !.overflow = IF ow >= Len(@) THEN Resize(@, ow + 1) ELSE @,
             !.bit_count = Larger(@, i + 1)]

set(bs, i) ==
  LET g == Grown(bs, i)
      w == i \div WordBits IN
  PutWord(g, w, Word(g, w) \cup {i % WordBits})

clear_bit(bs, i) ==
  LET w == i \div WordBits IN PutWord(bs, w, Word(bs, w) \ {i % WordBits})

clear_all(bs) ==
  [bs EXCEPT !.inline = Zeros(INLINE_WORDS), !.overflow = Zeros(Len(@))]

toggle(bs, i) ==
  LET g == Grown(bs, i) IN IF is_set(bs, i) THEN clear_bit(g, i) ELSE set(g, i)

\* Each bit is set; the capacity has room for all of them.
from_bits(on) ==
  IF on = {} THEN new
  ELSE LET max == CHOOSE m \in on : \A b \in on : b <= m IN
       PutWords(with_capacity(max + 1),
                [w \in 1..(max \div WordBits + 1) |->
                   { b \in 0..(WordBits - 1) : WordBits * (w - 1) + b \in on }])

\* Full words, and a mask for what remains.
all_set(n) ==
  LET full == n \div WordBits
      rest == n % WordBits IN
  PutWords(with_capacity(n),
           [w \in 1..(IF rest > 0 THEN full + 1 ELSE full) |->
              IF w <= full THEN 0..(WordBits - 1) ELSE 0..(rest - 1)])

\* iter_set and to_vec: the bits of every word.
Words(bs) == bs.inline \o bs.overflow
to_vec(bs) ==
  UNION { { WordBits * (w - 1) + b : b \in Words(bs)[w] } : w \in DOMAIN Words(bs) }

\* count_ones of every word, summed.
Ones(words) ==
  LET sum[n \in 0..Len(words)] == IF n = 0 THEN 0 ELSE sum[n - 1] + Cardinality(words[n]) IN
  sum[Len(words)]

count_set(bs) == Ones(Words(bs))
is_empty(bs) == \A w \in DOMAIN Words(bs) : Words(bs)[w] = {}

bitor(a, b) ==
  LET n == Larger(Len(a.overflow), Len(b.overflow)) IN
  [inline |-> [i \in DOMAIN a.inline |-> a.inline[i] \cup b.inline[i]],
   overflow |-> [i \in 1..n |-> Resize(a.overflow, n)[i] \cup Resize(b.overflow, n)[i]],
   bit_count |-> Larger(a.bit_count, b.bit_count)]

bitand(a, b) ==
  LET n == Smaller(Len(a.overflow), Len(b.overflow)) IN
  [inline |-> [i \in DOMAIN a.inline |-> a.inline[i] \cap b.inline[i]],
   overflow |-> [i \in 1..n |-> a.overflow[i] \cap b.overflow[i]],
   bit_count |-> Smaller(a.bit_count, b.bit_count)]

\* The bits of byte k of a word, counted in the byte, and back.
ByteOf(word, k) == { b \in 0..(ByteBits - 1) : ByteBits * k + b \in word }
Shifted(byte, k) == { ByteBits * k + b : b \in byte }

\* Mutant: the leading zero bytes of the last word are written as well.
EncodeWholeWords(bs) ==
  LET last == CHOOSE n \in 0..Len(Words(bs)) :
                /\ \A w \in (n + 1)..Len(Words(bs)) : Words(bs)[w] = {}
                /\ n > 0 => Words(bs)[n] # {} IN
  [i \in 1..(last * WordBytes) |->
     ByteOf(Words(bs)[(i - 1) \div WordBytes + 1], (i - 1) % WordBytes)]

\* The words up to the last that is not zero, and of that one the bytes up to
\* the last that is not zero.
encode(bs) ==
  LET last == CHOOSE n \in 0..Len(Words(bs)) :
                /\ \A w \in (n + 1)..Len(Words(bs)) : Words(bs)[w] = {}
                /\ n > 0 => Words(bs)[n] # {}
      top == CHOOSE b \in Words(bs)[last] : \A c \in Words(bs)[last] : c <= b
      total == IF last = 0 THEN 0
               ELSE (last - 1) * WordBytes + top \div ByteBits + 1 IN
  [i \in 1..total |->
     ByteOf(Words(bs)[(i - 1) \div WordBytes + 1], (i - 1) % WordBytes)]

\* decode: a capacity of whole bytes, filled word by word; the last one may be
\* a part of a word.
decode(bytes) ==
  LET BytesOf(w) == { k \in 0..(WordBytes - 1) : WordBytes * (w - 1) + k < Len(bytes) } IN
  PutWords(with_capacity(ByteBits * Len(bytes)),
           [w \in 1..DivCeil(Len(bytes), WordBytes) |->
              UNION { Shifted(bytes[WordBytes * (w - 1) + k + 1], k) : k \in BytesOf(w) }])

----------------------------------------------------------------------------
BitNumbers == 0..MaxBit

BitStep(bs, members) == bits' = bs /\ marks' = members

SetBit(i) == BitStep(set(bits, i), marks \cup {i})
ClearBit(i) == BitStep(clear_bit(bits, i), marks \ {i})
Toggle(i) == BitStep(toggle(bits, i), (marks \ {i}) \cup ({i} \ marks))
ClearAll == BitStep(clear_all(bits), {})
AllSet(n) == BitStep(all_set(n), 0..(n - 1))
FromBits(on) == BitStep(from_bits(on), on)
Union(a, b) == BitStep(bitor(bits, from_bits({a, b})), marks \cup {a, b})
Intersect(n) == BitStep(bitand(bits, all_set(n)), marks \cap 0..(n - 1))
Recode == BitStep(decode(encode(bits)), marks)

BitSetInit == bits = new /\ marks = {}

BitSetNext ==
  \/ \E i \in BitNumbers : SetBit(i) \/ ClearBit(i) \/ Toggle(i)
  \/ ClearAll \/ Recode
  \/ \E n \in 0..(MaxBit + 1) : AllSet(n) \/ Intersect(n)
  \/ \E on \in SUBSET BitNumbers : FromBits(on)
  \/ \E a \in BitNumbers : \E b \in 0..a : Union(a, b)

BitSetSpec == BitSetInit /\ [][BitSetNext]_bitVars

----------------------------------------------------------------------------
\* A bit set holds the bits it was given, across the end of its inline words
\* and after any growth, and its bytes are those of its bits and end with one
\* that is not zero (PvaBitSet; "Trailing zero bytes are omitted").
BitSetAgrees ==
  /\ to_vec(bits) = marks /\ count_set(bits) = Cardinality(marks)
  /\ is_empty(bits) <=> marks = {}
  /\ \A i \in 0..(2 * MaxBit) : is_set(bits, i) <=> i \in marks
  /\ \A i \in marks : i < bits.bit_count
  /\ LET bytes == encode(bits) IN
     /\ bytes # << >> => bytes[Len(bytes)] # {}
     /\ UNION { Shifted(bytes[k], k - 1) : k \in DOMAIN bytes } = marks
=============================================================================
