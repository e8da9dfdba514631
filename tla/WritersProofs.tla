--------------------------- MODULE WritersProofs ---------------------------
(***************************************************************************)
(* Proofs about the batch writer: for any updates, connections, limits and *)
(* thresholds, and any number of updates and failures, no accepted row     *)
(* vanishes, none is stored twice without an unheard commit, and an array  *)
(* id stands for one capture.                                              *)
(***************************************************************************)
EXTENDS Writers, FiniteSetTheorems, SequenceTheorems, TLAPS

----------------------------------------------------------------------------
(* The inductive invariant.                                                *)

\* The tables whose rows a section carries.
TablesOf(sec) ==
  CASE sec = "scalar" -> { "samples" }
    [] sec = "string" -> { "samples_string" }
    [] sec = "array_num" -> { "samples_array_num" }
    [] sec = "array_str" -> { "samples_array_str" }
    [] sec = "json" -> Range(JsonTables)
    [] sec = "image" -> { "samples_image" }

AllTables ==
  { "samples", "samples_string", "samples_image" } \cup ArrayTables
    \cup Range(JsonTables)

RowType == [s : Nat, i : Nat, a : Nat, tab : AllTables, n : Nat]

RowsOf(sec) == { r \in RowType : /\ r.tab \in TablesOf(sec)
                                 /\ sec = "json" => r.i = 0 /\ r.a = 0 }

\* What a buffer, and either half of a bundle, may hold.
Containers == { c \in [SectionNames -> Seq(RowType)] :
                  \A sec \in SectionNames : c[sec] \in Seq(RowsOf(sec)) }

Shape ==
  /\ buffer \in Containers
  /\ bundle \in [on : BOOLEAN, at : Nat, todo : Containers, keep : Containers]
  /\ samples \in Nat /\ next_array_id \in Nat /\ restarted \in BOOLEAN

\* A section before the current one has nothing left to send, one that is not
\* yet sent has nothing kept, and no bundle means an empty one.
Progress ==
  /\ IF bundle.on THEN bundle.at >= 1 ELSE bundle = NoBundle
  /\ \A k \in 1..6 : /\ k < bundle.at => bundle.todo[Sections[k]] = << >>
                     /\ k >= bundle.at => bundle.keep[Sections[k]] = << >>

\* Nothing is held or stored that no update stands for.
Known ==
  /\ Buffered \cup InBundle \cup db \subseteq expected
  /\ \A e \in expected : e[2] \in 0..samples

\* The ids drawn so far, each by one capture.
Identified ==
  ~restarted => \A e \in expected : e[1] \in ArrayTables =>
    /\ e[4] \in 0..(next_array_id - 1)
    /\ \A f \in expected : e[1] = f[1] /\ e[4] = f[4] => e[2] = f[2]

\* The rows of a sequence are different rows.
Different(sec, rows) ==
  \A p, q \in DOMAIN rows :
    p # q => CopyRowsOf(sec, rows[p]) \cap CopyRowsOf(sec, rows[q]) = {}

\* A row has one place.
Apart ==
  \A sec \in SectionNames :
    /\ Different(sec, buffer[sec])
    /\ Different(sec, bundle.todo[sec])
    /\ Different(sec, bundle.keep[sec])
    /\ RowsIn(sec, buffer[sec]) \cap RowsIn(sec, bundle.todo[sec]) = {}
    /\ RowsIn(sec, buffer[sec]) \cap RowsIn(sec, bundle.keep[sec]) = {}

\* What is held although it is stored is so because of an unheard commit, or
\* of a flush_all that failed in part.
Unheard == (Buffered \cup InBundle) \cap db \subseteq unsure \cup resent

WritersInv ==
  /\ Shape /\ Progress /\ Known /\ Identified /\ Apart /\ Unheard
  /\ NothingVanishes /\ StoredOnce

----------------------------------------------------------------------------
(* Sections, rows and sequences of rows.                                   *)

LEMMA SectionFacts ==
  /\ SectionNames = { "scalar", "string", "array_num", "array_str", "json",
                      "image" }
  /\ Len(Sections) = 6
  /\ \A k \in 1..6 : Sections[k] \in SectionNames
  /\ \A sec \in SectionNames : \E k \in 1..6 : Sections[k] = sec
  /\ \A k, m \in 1..6 : Sections[k] = Sections[m] => k = m
<1>1. DOMAIN Sections = 1..6 /\ Len(Sections) = 6
  BY DEF Sections
<1>2. SectionNames = { "scalar", "string", "array_num", "array_str", "json",
                       "image" }
  BY <1>1 DEF SectionNames, Range, Sections
<1>3. \A k \in 1..6 : Sections[k] \in SectionNames
  BY <1>1 DEF SectionNames, Range
<1>4. \A sec \in SectionNames : \E k \in 1..6 : Sections[k] = sec
  BY <1>1 DEF SectionNames, Range
<1>5. \A k, m \in 1..6 : Sections[k] = Sections[m] => k = m
  BY DEF Sections
<1> QED BY <1>1, <1>2, <1>3, <1>4, <1>5

LEMMA JsonFamily ==
  Range(JsonTables) = { "samples_table", "samples_custom", "samples_nv",
                        "samples_hist", "samples_cont", "samples_mch" }
<1>1. DOMAIN JsonTables = 1..6
  BY DEF JsonTables
<1> QED BY <1>1 DEF Range, JsonTables

\* No table belongs to two sections.
LEMMA TablesApart ==
  ASSUME NEW sec \in SectionNames, NEW other \in SectionNames, sec # other
  PROVE  TablesOf(sec) \cap TablesOf(other) = {}
BY SectionFacts, JsonFamily DEF TablesOf

\* The table rows of a buffered row name its table and its update.
LEMMA CopyRowsFacts ==
  ASSUME NEW sec, NEW r \in RowType, NEW e \in CopyRowsOf(sec, r)
  PROVE  e[1] = r.tab /\ e[2] = r.s
BY DEF CopyRowsOf

\* Rows of different updates, or different elements of one, differ.
LEMMA CopyRowsDiffer ==
  ASSUME NEW sec, NEW r \in RowType, NEW t \in RowType,
         r.s # t.s \/ (r.tab \notin Destructured /\ r.i # t.i /\ r.tab = t.tab)
  PROVE  CopyRowsOf(sec, r) \cap CopyRowsOf(sec, t) = {}
BY DEF CopyRowsOf

LEMMA RowsInEmpty == ASSUME NEW sec PROVE RowsIn(sec, << >>) = {}
BY DEF RowsIn

LEMMA RowsInMember ==
  ASSUME NEW sec, NEW rows, NEW e
  PROVE  e \in RowsIn(sec, rows)
           <=> \E p \in DOMAIN rows : e \in CopyRowsOf(sec, rows[p])
BY DEF RowsIn

LEMMA RowsInConcat ==
  ASSUME NEW sec, NEW T, NEW a \in Seq(T), NEW b \in Seq(T)
  PROVE  RowsIn(sec, a \o b) = RowsIn(sec, a) \cup RowsIn(sec, b)
<1>1. /\ DOMAIN a = 1..Len(a) /\ DOMAIN b = 1..Len(b)
      /\ DOMAIN (a \o b) = 1..(Len(a) + Len(b))
      /\ Len(a) \in Nat /\ Len(b) \in Nat
  OBVIOUS
<1>2. \A p \in 1..Len(a) : (a \o b)[p] = a[p]
  OBVIOUS
<1>3. \A p \in 1..Len(b) : (a \o b)[Len(a) + p] = b[p]
  OBVIOUS
<1>4. \A p \in 1..(Len(a) + Len(b)) :
        p \in 1..Len(a) \/ \E q \in 1..Len(b) : p = Len(a) + q
  <2> SUFFICES ASSUME NEW p \in 1..(Len(a) + Len(b)), p \notin 1..Len(a)
               PROVE  \E q \in 1..Len(b) : p = Len(a) + q
    OBVIOUS
  <2>1. p - Len(a) \in 1..Len(b) /\ p = Len(a) + (p - Len(a))
    BY <1>1
  <2> QED BY <2>1
<1>5. ASSUME NEW e \in RowsIn(sec, a \o b)
      PROVE  e \in RowsIn(sec, a) \cup RowsIn(sec, b)
  <2>1. PICK p \in 1..(Len(a) + Len(b)) : e \in CopyRowsOf(sec, (a \o b)[p])
    BY <1>1, <1>5, RowsInMember
  <2>2. CASE p \in 1..Len(a)
    BY <2>1, <2>2, <1>1, <1>2, RowsInMember
  <2>3. CASE \E q \in 1..Len(b) : p = Len(a) + q
    BY <2>1, <2>3, <1>1, <1>3, RowsInMember
  <2> QED BY <2>2, <2>3, <1>4
<1>6. ASSUME NEW e \in RowsIn(sec, a)
      PROVE  e \in RowsIn(sec, a \o b)
  <2>1. PICK p \in 1..Len(a) : e \in CopyRowsOf(sec, a[p])
    BY <1>1, <1>6, RowsInMember
  <2>2. p \in DOMAIN (a \o b)
    BY <1>1
  <2> QED BY <2>1, <2>2, <1>2, RowsInMember
<1>7. ASSUME NEW e \in RowsIn(sec, b)
      PROVE  e \in RowsIn(sec, a \o b)
  <2>1. PICK p \in 1..Len(b) : e \in CopyRowsOf(sec, b[p])
    BY <1>1, <1>7, RowsInMember
  <2>2. Len(a) + p \in DOMAIN (a \o b)
    BY <1>1
  <2> QED BY <2>1, <2>2, <1>3, RowsInMember
<1> QED BY <1>5, <1>6, <1>7

\* Where the rows of a section come from.
LEMMA RowsInTables ==
  ASSUME NEW sec \in SectionNames, NEW rows \in Seq(RowsOf(sec)),
         NEW e \in RowsIn(sec, rows)
  PROVE  e[1] \in TablesOf(sec)
<1>1. PICK p \in DOMAIN rows : e \in CopyRowsOf(sec, rows[p])
  BY RowsInMember
<1>2. rows[p] \in RowsOf(sec)
  BY <1>1
<1>3. rows[p] \in RowType /\ rows[p].tab \in TablesOf(sec)
  BY <1>2 DEF RowsOf
<1> QED BY <1>1, <1>3, CopyRowsFacts

LEMMA SectionsApart ==
  ASSUME NEW sec \in SectionNames, NEW other \in SectionNames, sec # other,
         NEW rows \in Seq(RowsOf(sec)), NEW more \in Seq(RowsOf(other))
  PROVE  RowsIn(sec, rows) \cap RowsIn(other, more) = {}
BY RowsInTables, TablesApart

\* Sequences without common rows make one without repeated rows.
LEMMA DifferentConcat ==
  ASSUME NEW sec, NEW T, NEW a \in Seq(T), NEW b \in Seq(T),
         Different(sec, a), Different(sec, b),
         RowsIn(sec, a) \cap RowsIn(sec, b) = {}
  PROVE  Different(sec, a \o b)
<1>1. /\ DOMAIN a = 1..Len(a) /\ DOMAIN b = 1..Len(b)
      /\ DOMAIN (a \o b) = 1..(Len(a) + Len(b))
      /\ Len(a) \in Nat /\ Len(b) \in Nat
  OBVIOUS
<1>2. \A p \in 1..Len(a) : (a \o b)[p] = a[p]
  OBVIOUS
<1>3. \A p \in 1..Len(b) : (a \o b)[Len(a) + p] = b[p]
  OBVIOUS
<1>4. \A p \in 1..(Len(a) + Len(b)) :
        p \in 1..Len(a) \/ \E k \in 1..Len(b) : p = Len(a) + k
  <2> SUFFICES ASSUME NEW p \in 1..(Len(a) + Len(b)), p \notin 1..Len(a)
               PROVE  \E k \in 1..Len(b) : p = Len(a) + k
    OBVIOUS
  <2>1. p - Len(a) \in 1..Len(b) /\ p = Len(a) + (p - Len(a))
    BY <1>1
  <2> QED BY <2>1
<1>5. ASSUME NEW p \in 1..Len(a), NEW k \in 1..Len(b)
      PROVE  CopyRowsOf(sec, a[p]) \cap CopyRowsOf(sec, b[k]) = {}
  <2>1. CopyRowsOf(sec, a[p]) \subseteq RowsIn(sec, a)
    BY <1>1, RowsInMember
  <2>2. CopyRowsOf(sec, b[k]) \subseteq RowsIn(sec, b)
    BY <1>1, RowsInMember
  <2> QED BY <2>1, <2>2
<1> SUFFICES ASSUME NEW p \in DOMAIN (a \o b), NEW q \in DOMAIN (a \o b), p # q
             PROVE  CopyRowsOf(sec, (a \o b)[p])
                      \cap CopyRowsOf(sec, (a \o b)[q]) = {}
  BY DEF Different
<1>6. CASE p \in 1..Len(a) /\ q \in 1..Len(a)
  BY <1>6, <1>1, <1>2 DEF Different
<1>7. CASE p \in 1..Len(a) /\ q \notin 1..Len(a)
  BY <1>7, <1>1, <1>2, <1>3, <1>4, <1>5
<1>8. CASE p \notin 1..Len(a) /\ q \in 1..Len(a)
  BY <1>8, <1>1, <1>2, <1>3, <1>4, <1>5
<1>9. CASE p \notin 1..Len(a) /\ q \notin 1..Len(a)
  <2>1. PICK k \in 1..Len(b) : p = Len(a) + k
    BY <1>9, <1>1, <1>4
  <2>2. PICK m \in 1..Len(b) : q = Len(a) + m
    BY <1>9, <1>1, <1>4
  <2>3. k # m
    BY <2>1, <2>2
  <2> QED BY <2>1, <2>2, <2>3, <1>1, <1>3 DEF Different
<1> QED BY <1>6, <1>7, <1>8, <1>9
----------------------------------------------------------------------------
(* The rows kept for a retry are found again by position.                  *)

\* The rank of a position among the kept ones numbers them from 1 on.
LEMMA Ranks ==
  ASSUME NEW n \in Nat, NEW kept \in SUBSET (1..n)
  PROVE  LET rank(p) == Cardinality({ q \in kept : q <= p })
         IN  /\ Cardinality(kept) \in Nat
             /\ \A p \in kept : rank(p) \in 1..Cardinality(kept)
             /\ \A p, q \in kept : rank(p) = rank(q) => p = q
             /\ \A k \in 1..Cardinality(kept) : \E p \in kept : rank(p) = k
<1> DEFINE below(p) == { q \in kept : q <= p }
           rank(p) == Cardinality(below(p))
           f == [p \in kept |-> rank(p)]
<1>1. IsFiniteSet(1..n)
  BY FS_Interval
<1>2. IsFiniteSet(kept) /\ Cardinality(kept) \in Nat
  BY <1>1, FS_Subset, FS_CardinalityType
<1>3. ASSUME NEW p \in kept
      PROVE  /\ IsFiniteSet(below(p)) /\ rank(p) \in Nat
             /\ rank(p) <= Cardinality(kept) /\ rank(p) # 0
  <2>1. below(p) \in SUBSET kept
    OBVIOUS
  <2>2. IsFiniteSet(below(p)) /\ rank(p) <= Cardinality(kept)
    BY <2>1, <1>2, FS_Subset
  <2>3. rank(p) \in Nat
    BY <2>2, FS_CardinalityType
  <2>4. p \in below(p)
    OBVIOUS
  <2>5. below(p) # {}
    BY <2>4
  <2>6. rank(p) # 0
    BY <2>2, <2>5, FS_EmptySet
  <2> QED BY <2>2, <2>3, <2>6
<1>4. ASSUME NEW p \in kept, NEW q \in kept, p < q
      PROVE  rank(p) # rank(q)
  <2>1. below(p) \in SUBSET below(q)
    <3>1. ASSUME NEW x \in kept, x <= p PROVE x <= q
      <4>1. x \in Int /\ p \in Int /\ q \in Int
        OBVIOUS
      <4> QED BY <4>1, <3>1, <1>4
    <3> QED BY <3>1
  <2>2. q \in below(q) /\ q \notin below(p)
    BY <1>4
  <2>3. IsFiniteSet(below(q))
    BY <1>3
  <2>4. Cardinality(below(q)) = Cardinality(below(p)) => below(q) = below(p)
    BY <2>1, <2>3, FS_Subset
  <2> QED BY <2>2, <2>4
<1>5. ASSUME NEW p \in kept, NEW q \in kept, rank(p) = rank(q)
      PROVE  p = q
  <2>1. p \in Nat /\ q \in Nat
    OBVIOUS
  <2>2. p < q \/ q < p \/ p = q
    BY <2>1
  <2> QED BY <2>2, <1>4, <1>5
<1>6. \A p \in kept : rank(p) \in 1..Cardinality(kept)
  <2> DEFINE c == Cardinality(kept)
  <2> SUFFICES ASSUME NEW p \in kept PROVE rank(p) \in 1..c
    OBVIOUS
  <2>1. rank(p) \in Nat /\ rank(p) <= c /\ rank(p) # 0 /\ c \in Nat
    BY <1>2, <1>3
  <2> HIDE DEF rank, c
  <2> QED BY <2>1
<1>7. \A k \in 1..Cardinality(kept) : \E p \in kept : rank(p) = k
  <2> HIDE DEF rank
  <2>1. f \in [kept -> 1..Cardinality(kept)]
    BY <1>6
  <2>2. f \in Injection(kept, 1..Cardinality(kept))
    BY <2>1, <1>5 DEF Injection, IsInjective
  <2>3. /\ IsFiniteSet(1..Cardinality(kept))
        /\ Cardinality(1..Cardinality(kept)) = Cardinality(kept)
    BY <1>2, FS_Interval
  <2> HIDE DEF f
  <2>4. f \in Surjection(kept, 1..Cardinality(kept))
    BY <2>2, <2>3, FS_Injection
  <2> USE DEF f
  <2> QED BY <2>4 DEF Surjection
<1> QED BY <1>2, <1>5, <1>6, <1>7

\* RowsAt keeps the rows at the given positions, each once.
LEMMA RowsAtFacts ==
  ASSUME NEW sec, NEW T, NEW rows \in Seq(T), NEW kept \in SUBSET (DOMAIN rows)
  PROVE  /\ RowsAt(rows, kept) \in Seq(T)
         /\ RowsIn(sec, RowsAt(rows, kept))
              = UNION { CopyRowsOf(sec, rows[p]) : p \in kept }
         /\ Different(sec, rows) => Different(sec, RowsAt(rows, kept))
<1> DEFINE rank(p) == Cardinality({ q \in kept : q <= p })
           at(k) == CHOOSE p \in kept : rank(p) = k
           c == Cardinality(kept)
           new == [k \in 1..c |-> rows[at(k)]]
<1>1. RowsAt(rows, kept) = new
  BY DEF RowsAt
<1>2. Len(rows) \in Nat /\ DOMAIN rows = 1..Len(rows)
  OBVIOUS
<1>3. /\ c \in Nat
      /\ \A p \in kept : rank(p) \in 1..c
      /\ \A p, q \in kept : rank(p) = rank(q) => p = q
      /\ \A k \in 1..c : \E p \in kept : rank(p) = k
  BY <1>2, Ranks
<1> HIDE DEF rank, c
<1>4. \A k \in 1..c : at(k) \in kept /\ rank(at(k)) = k
  BY <1>3
<1>5. \A p \in kept : at(rank(p)) = p
  BY <1>3, <1>4
<1> HIDE DEF at
<1>6. \A p \in kept : rows[p] \in T
  BY <1>2
<1>7. new \in [1..c -> T]
  BY <1>4, <1>6
<1>8. new \in Seq(T)
  BY <1>3, <1>7
<1>9. DOMAIN new = 1..c /\ \A k \in 1..c : new[k] = rows[at(k)]
  OBVIOUS
<1> HIDE DEF new
<1>10. ASSUME NEW e
       PROVE  e \in RowsIn(sec, new)
                <=> \E p \in kept : e \in CopyRowsOf(sec, rows[p])
  <2>1. ASSUME e \in RowsIn(sec, new)
        PROVE  \E p \in kept : e \in CopyRowsOf(sec, rows[p])
    <3>1. PICK k \in DOMAIN new : e \in CopyRowsOf(sec, new[k])
      BY <2>1, RowsInMember
    <3> QED BY <3>1, <1>4, <1>9
  <2>2. ASSUME NEW p \in kept, e \in CopyRowsOf(sec, rows[p])
        PROVE  e \in RowsIn(sec, new)
    <3>1. rank(p) \in DOMAIN new /\ new[rank(p)] = rows[p]
      BY <1>3, <1>5, <1>9
    <3> QED BY <3>1, <2>2, RowsInMember
  <2> QED BY <2>1, <2>2
<1>11. ASSUME Different(sec, rows)
       PROVE  Different(sec, new)
  <2> SUFFICES ASSUME NEW k \in DOMAIN new, NEW m \in DOMAIN new, k # m
               PROVE  CopyRowsOf(sec, new[k]) \cap CopyRowsOf(sec, new[m]) = {}
    BY DEF Different
  <2>1. at(k) # at(m) /\ at(k) \in DOMAIN rows /\ at(m) \in DOMAIN rows
    BY <1>4, <1>9
  <2> QED BY <2>1, <1>11, <1>9 DEF Different
<1>12. RowsIn(sec, new) = UNION { CopyRowsOf(sec, rows[p]) : p \in kept }
  BY <1>10
<1> QED BY <1>1, <1>8, <1>11, <1>12

----------------------------------------------------------------------------
(* A section is cut into chunks that cover it and do not overlap.          *)

LEMMA DivFacts ==
  ASSUME NEW a \in Nat, NEW d \in Nat \ {0}
  PROVE  /\ a \div d \in Nat
         /\ (a \div d) * d <= a
         /\ a < (a \div d) * d + d
OBVIOUS

LEMMA ProductMonotone ==
  ASSUME NEW x \in Int, NEW y \in Int, NEW d \in Nat, x <= y
  PROVE  x * d <= y * d
OBVIOUS

LEMMA ProductNext ==
  ASSUME NEW x \in Int, NEW d \in Int
  PROVE  (x + 1) * d = x * d + d /\ x * d \in Int
OBVIOUS

\* The quotient is the only number whose multiples enclose a.
LEMMA DivUnique ==
  ASSUME NEW a \in Nat, NEW d \in Nat \ {0}, NEW i \in Int,
         i * d <= a, a < i * d + d
  PROVE  i = a \div d
<1> DEFINE m == a \div d
<1>1. m \in Nat /\ m * d <= a /\ a < m * d + d
  BY DivFacts
<1> HIDE DEF m
<1>2. ASSUME i + 1 <= m PROVE FALSE
  <2>1. (i + 1) * d <= m * d
    BY <1>1, <1>2, ProductMonotone
  <2>2. (i + 1) * d = i * d + d /\ i * d \in Int
    BY ProductNext
  <2>3. m * d \in Int
    BY <1>1, ProductNext
  <2> QED BY <2>1, <2>2, <2>3, <1>1
<1>3. ASSUME m + 1 <= i PROVE FALSE
  <2>1. (m + 1) * d <= i * d
    BY <1>1, <1>3, ProductMonotone
  <2>2. (m + 1) * d = m * d + d /\ m * d \in Int
    BY <1>1, ProductNext
  <2>3. i * d \in Int
    BY ProductNext
  <2> QED BY <2>1, <2>2, <2>3, <1>1
<1>4. i = m
  BY <1>1, <1>2, <1>3
<1> QED BY <1>4 DEF m

LEMMA ChunkSizePositive ==
  ASSUME NEW sec, NEW count \in Nat \ {0}
  PROVE  ChunkSize(sec, count) \in Nat \ {0}
<1>1. Conns \in Nat \ {0}
  BY WritersAssumption
<1> DEFINE a == count + Conns - 1
           m == a \div Conns
<1>2. a \in Nat /\ a >= Conns
  BY <1>1
<1>3. m \in Nat /\ a < m * Conns + Conns
  BY <1>1, <1>2, DivFacts
<1>4. m # 0
  <2> SUFFICES ASSUME m = 0 PROVE FALSE
    OBVIOUS
  <2>1. m * Conns = 0
    BY <1>1
  <2> HIDE DEF m, a
  <2> QED BY <2>1, <1>1, <1>2, <1>3
<1>5. m \in Nat \ {0}
  BY <1>3, <1>4
<1> QED BY <1>5 DEF ChunkSize

LEMMA ChunksNatural ==
  ASSUME NEW sec, NEW T, NEW rows \in Seq(T), rows # << >>
  PROVE  ChunkNumbers(rows, ChunkSize(sec, Len(rows))) \subseteq Nat
<1> DEFINE size == ChunkSize(sec, Len(rows))
           b == Len(rows) + size - 1
<1>1. Len(rows) \in Nat \ {0}
  OBVIOUS
<1>2. size \in Nat \ {0}
  BY <1>1, ChunkSizePositive
<1> HIDE DEF size
<1>3. b \in Nat
  BY <1>1, <1>2
<1> HIDE DEF b
<1>4. b \div size \in Nat
  BY <1>2, <1>3, DivFacts
<1>5. 0..(b \div size - 1) \subseteq Nat
  BY <1>4
<1>6. ChunkNumbers(rows, size) = 0..(b \div size - 1)
  BY DEF ChunkNumbers, b
<1> QED BY <1>5, <1>6 DEF size

\* The positions of the rows in some chunks.
Positions(rows, size, I) ==
  { p \in DOMAIN rows : ((p - 1) \div size) \in I }

LEMMA ChunkOfRow ==
  ASSUME NEW T, NEW rows \in Seq(T), NEW size \in Nat \ {0},
         NEW p \in DOMAIN rows
  PROVE  ((p - 1) \div size) \in ChunkNumbers(rows, size)
<1> DEFINE len == Len(rows)
           m == (p - 1) \div size
           b == len + size - 1
           z == b \div size
<1>1. len \in Nat /\ p \in 1..len /\ rows # << >>
  OBVIOUS
<1>2. p - 1 \in Nat /\ b \in Nat /\ b >= (p - 1) + size
  <2> HIDE DEF len
  <2> QED BY <1>1
<1>3. m \in Nat /\ m * size <= p - 1
  BY <1>2, DivFacts
<1>4. z \in Nat /\ b < z * size + size
  BY <1>2, DivFacts
<1> HIDE DEF m, z, b
<1>5. m * size \in Int /\ (m + 1) * size = m * size + size
  BY <1>3, ProductNext
<1>6. z * size \in Int
  BY <1>4, ProductNext
<1>7. ASSUME z <= m PROVE FALSE
  <2>1. z * size <= m * size
    BY <1>3, <1>4, <1>7, ProductMonotone
  <2> DEFINE x == z * size
             y == m * size
  <2>2. x \in Int /\ y \in Int /\ x <= y /\ y <= p - 1 /\ b < x + size
    BY <2>1, <1>3, <1>4, <1>5, <1>6
  <2> HIDE DEF x, y
  <2>3. b < y + size /\ y + size <= (p - 1) + size
    BY <2>2, <1>2
  <2> QED BY <2>2, <2>3, <1>2
<1>8. m \in 0..(z - 1)
  BY <1>3, <1>4, <1>7
<1>9. ChunkNumbers(rows, size) = 0..(z - 1)
  BY <1>1 DEF ChunkNumbers, z, b
<1> QED BY <1>8, <1>9 DEF m

\* The rows of a chunk are those at its positions.
LEMMA ChunkRows ==
  ASSUME NEW sec, NEW T, NEW rows \in Seq(T), NEW size \in Nat \ {0},
         NEW i \in Nat
  PROVE  RowsIn(sec, Chunk(rows, size, i))
           = UNION { CopyRowsOf(sec, rows[p]) : p \in Positions(rows, size, {i}) }
<1> DEFINE len == Len(rows)
           from == i * size
           end == from + size
           hi == Min({ (i + 1) * size, len })
           chunk == Chunk(rows, size, i)
<1>1. len \in Nat /\ DOMAIN rows = 1..len
  OBVIOUS
<1>2. from \in Int /\ (i + 1) * size = end
  BY ProductNext
<1>3. from >= 0
  <2>1. 0 * size <= i * size
    BY ProductMonotone
  <2> QED BY <2>1
<1> HIDE DEF from, len
<1>4. end \in Nat /\ from \in Nat
  BY <1>2, <1>3
<1> HIDE DEF end
<1>5. hi = Min({ end, len })
  BY <1>2
<1>6. (hi = end /\ end <= len) \/ (hi = len /\ len <= end)
  <2>1. \E x \in { end, len } : \A y \in { end, len } : x <= y
    BY <1>1, <1>4
  <2>2. hi \in { end, len } /\ \A y \in { end, len } : hi <= y
    BY <2>1, <1>5 DEF Min
  <2> QED BY <2>2
<1>7. chunk = SubSeq(rows, from + 1, hi)
  BY DEF Chunk, from, len
<1> HIDE DEF hi
<1>8. hi \in Nat /\ hi <= len /\ hi <= end
  BY <1>1, <1>4, <1>6
<1>9. /\ DOMAIN chunk = 1..(hi - from)
      /\ \A k \in 1..(hi - from) : chunk[k] = rows[from + k]
  <2>1. chunk = [k \in 1..(hi - (from + 1) + 1) |-> rows[from + 1 + k - 1]]
    BY <1>7, <1>8, <1>4
  <2>2. hi - (from + 1) + 1 = hi - from
    BY <1>4, <1>8
  <2>3. \A k \in 1..(hi - from) : from + 1 + k - 1 = from + k
    BY <1>4, <1>8
  <2> HIDE DEF chunk
  <2> QED BY <2>1, <2>2, <2>3
<1> HIDE DEF chunk
<1>10. ASSUME NEW p \in 1..len
       PROVE  p \in Positions(rows, size, {i}) <=> from < p /\ p <= end
  <2>1. p - 1 \in Nat
    BY <1>1
  <2>2. ASSUME from < p, p <= end
        PROVE  i = (p - 1) \div size
    <3>1. i * size <= p - 1 /\ p - 1 < i * size + size
      BY <2>2, <1>1, <1>4 DEF from, end
    <3> QED BY <3>1, <2>1, DivUnique
  <2>3. ASSUME i = (p - 1) \div size
        PROVE  from < p /\ p <= end
    <3>1. i * size <= p - 1 /\ p - 1 < i * size + size
      BY <2>1, <2>3, DivFacts
    <3>2. from <= p - 1 /\ p - 1 < end
      BY <3>1 DEF from, end
    <3> QED BY <3>2, <1>1, <1>4
  <2>4. p \in Positions(rows, size, {i}) <=> (p - 1) \div size = i
    BY <1>1 DEF Positions
  <2> QED BY <2>2, <2>3, <2>4
<1>11. ASSUME NEW e \in RowsIn(sec, chunk)
       PROVE  \E p \in Positions(rows, size, {i}) : e \in CopyRowsOf(sec, rows[p])
  <2>1. PICK k \in 1..(hi - from) : e \in CopyRowsOf(sec, rows[from + k])
    BY <1>9, RowsInMember
  <2>2. from + k \in 1..len /\ from < from + k /\ from + k <= end
    BY <1>1, <1>4, <1>8
  <2>3. from + k \in Positions(rows, size, {i})
    BY <2>2, <1>10
  <2> QED BY <2>1, <2>3
<1>12. ASSUME NEW p \in Positions(rows, size, {i}),
              NEW e \in CopyRowsOf(sec, rows[p])
       PROVE  e \in RowsIn(sec, chunk)
  <2>1. p \in 1..len
    BY <1>1 DEF Positions
  <2>2. from < p /\ p <= end
    BY <2>1, <1>10
  <2>3. p - from \in 1..(hi - from) /\ from + (p - from) = p
    BY <2>1, <2>2, <1>1, <1>4, <1>6, <1>8
  <2>4. p - from \in DOMAIN chunk /\ chunk[p - from] = rows[p]
    BY <2>3, <1>9
  <2> QED BY <2>4, RowsInMember
<1>13. RowsIn(sec, chunk)
         = UNION { CopyRowsOf(sec, rows[p]) : p \in Positions(rows, size, {i}) }
  BY <1>11, <1>12
<1> QED BY <1>13 DEF chunk

LEMMA ChunksRows ==
  ASSUME NEW sec, NEW T, NEW rows \in Seq(T), NEW size \in Nat \ {0},
         NEW I \in SUBSET Nat
  PROVE  UNION { RowsIn(sec, Chunk(rows, size, i)) : i \in I }
           = UNION { CopyRowsOf(sec, rows[p]) : p \in Positions(rows, size, I) }
<1> DEFINE A == UNION { RowsIn(sec, Chunk(rows, size, i)) : i \in I }
           B == UNION { CopyRowsOf(sec, rows[p]) : p \in Positions(rows, size, I) }
<1>1. \A i \in I : RowsIn(sec, Chunk(rows, size, i))
        = UNION { CopyRowsOf(sec, rows[p]) : p \in Positions(rows, size, {i}) }
  BY ChunkRows
<1>2. ASSUME NEW e \in A PROVE e \in B
  <2>1. PICK i \in I : e \in RowsIn(sec, Chunk(rows, size, i))
    OBVIOUS
  <2>2. PICK p \in Positions(rows, size, {i}) : e \in CopyRowsOf(sec, rows[p])
    BY <2>1, <1>1
  <2>3. p \in Positions(rows, size, I)
    BY DEF Positions
  <2> QED BY <2>2, <2>3
<1>3. ASSUME NEW e \in B PROVE e \in A
  <2>1. PICK p \in Positions(rows, size, I) : e \in CopyRowsOf(sec, rows[p])
    OBVIOUS
  <2>2. PICK i \in I : p \in Positions(rows, size, {i})
    BY DEF Positions
  <2>3. e \in RowsIn(sec, Chunk(rows, size, i))
    BY <2>1, <2>2, <1>1
  <2> QED BY <2>3
<1> QED BY <1>2, <1>3

----------------------------------------------------------------------------
(* What is held, section by section.                                       *)

Bundles == [on : BOOLEAN, at : Nat, todo : Containers, keep : Containers]

LEMMA ContainerFacts ==
  ASSUME NEW c \in Containers, NEW sec \in SectionNames
  PROVE  c[sec] \in Seq(RowsOf(sec)) /\ c[sec] \in Seq(RowType)
BY DEF Containers

LEMMA EmptyContainer ==
  /\ Empty \in Containers
  /\ \A sec \in SectionNames : Empty[sec] = << >>
<1>1. \A T : << >> \in Seq(T)
  OBVIOUS
<1>2. Empty \in [SectionNames -> Seq(RowType)]
  BY <1>1 DEF Empty
<1>3. \A sec \in SectionNames : Empty[sec] = << >>
  BY DEF Empty
<1> QED BY <1>1, <1>2, <1>3 DEF Containers

LEMMA ContainerUpdate ==
  ASSUME NEW c \in Containers, NEW sec \in SectionNames,
         NEW rows \in Seq(RowsOf(sec))
  PROVE  [c EXCEPT ![sec] = rows] \in Containers
<1>1. rows \in Seq(RowType)
  <2>1. RowsOf(sec) \subseteq RowType
    BY DEF RowsOf
  <2>2. \A k \in 1..Len(rows) : rows[k] \in RowType
    BY <2>1
  <2> QED BY <2>2
<1>2. c \in [SectionNames -> Seq(RowType)]
  BY DEF Containers
<1>3. [c EXCEPT ![sec] = rows] \in [SectionNames -> Seq(RowType)]
  BY <1>1, <1>2
<1>4. ASSUME NEW x \in SectionNames
      PROVE  [c EXCEPT ![sec] = rows][x] \in Seq(RowsOf(x))
  <2>1. [c EXCEPT ![sec] = rows][x] = IF x = sec THEN rows ELSE c[x]
    BY <1>2
  <2> QED BY <2>1, ContainerFacts
<1> QED BY <1>3, <1>4 DEF Containers

LEMMA BufferedMember ==
  ASSUME NEW e
  PROVE  e \in Buffered <=> \E sec \in SectionNames : e \in RowsIn(sec, buffer[sec])
BY DEF Buffered

\* The rows of a bundle.
RowsOfBundle(b) ==
  UNION { RowsIn(sec, b.todo[sec] \o b.keep[sec]) : sec \in SectionNames }

LEMMA BundleMember ==
  ASSUME NEW b \in Bundles, NEW e
  PROVE  e \in RowsOfBundle(b) <=>
           \E sec \in SectionNames : \/ e \in RowsIn(sec, b.todo[sec])
                                     \/ e \in RowsIn(sec, b.keep[sec])
<1>1. b.todo \in Containers /\ b.keep \in Containers
  BY DEF Bundles
<1>2. \A sec \in SectionNames :
        RowsIn(sec, b.todo[sec] \o b.keep[sec])
          = RowsIn(sec, b.todo[sec]) \cup RowsIn(sec, b.keep[sec])
  <2> SUFFICES ASSUME NEW sec \in SectionNames
               PROVE  RowsIn(sec, b.todo[sec] \o b.keep[sec])
                        = RowsIn(sec, b.todo[sec]) \cup RowsIn(sec, b.keep[sec])
    OBVIOUS
  <2>1. b.todo[sec] \in Seq(RowType) /\ b.keep[sec] \in Seq(RowType)
    BY <1>1, ContainerFacts
  <2> QED BY <2>1, RowsInConcat
<1> QED BY <1>2 DEF RowsOfBundle

LEMMA InBundleIs == InBundle = RowsOfBundle(bundle)
BY DEF InBundle, RowsOfBundle

LEMMA EmptyBundle ==
  /\ NoBundle \in Bundles
  /\ RowsOfBundle(NoBundle) = {}
<1>1. NoBundle \in Bundles
  BY EmptyContainer DEF NoBundle, Bundles
<1>2. \A sec \in SectionNames : NoBundle.todo[sec] = << >> /\ NoBundle.keep[sec] = << >>
  BY EmptyContainer DEF NoBundle
<1>3. \A sec \in SectionNames :
        RowsIn(sec, NoBundle.todo[sec]) = {} /\ RowsIn(sec, NoBundle.keep[sec]) = {}
  BY <1>2, RowsInEmpty
<1>4. \A e : e \notin RowsOfBundle(NoBundle)
  BY <1>1, <1>3, BundleMember
<1> QED BY <1>1, <1>4

LEMMA DifferentEmpty == ASSUME NEW sec PROVE Different(sec, << >>)
BY DEF Different

----------------------------------------------------------------------------
(* An update comes in: rows of a new number are appended to one section,   *)
(* or it is refused.                                                       *)

Pushed(sec, new) ==
  /\ new \in Seq(RowsOf(sec)) /\ Different(sec, new)
  /\ buffer' = [buffer EXCEPT ![sec] = @ \o new]
  /\ samples' \in Nat /\ samples <= samples'
  /\ next_array_id' \in Nat /\ next_array_id <= next_array_id'
  /\ \A e \in RowsIn(sec, new) :
       /\ e[2] \in (samples + 1)..samples'
       /\ e[1] \in ArrayTables => /\ e[2] = samples + 1
                                  /\ e[4] = next_array_id
                                  /\ next_array_id' = next_array_id + 1
  /\ Taken
  /\ UNCHANGED << flushVars, gone, restarted >>

Refused ==
  /\ samples' \in Nat /\ samples <= samples'
  /\ expected \subseteq expected' /\ expected' \subseteq expected \cup Buffered
  /\ UNCHANGED << buffer, next_array_id, flushVars, gone, restarted >>

LEMMA PushedKeeps ==
  ASSUME WritersInv, NEW sec \in SectionNames, NEW new, Pushed(sec, new)
  PROVE  WritersInv'
<1> USE DEF Pushed
<1> DEFINE N == RowsIn(sec, new)
<1>1. /\ buffer \in Containers /\ bundle \in Bundles
      /\ samples \in Nat /\ next_array_id \in Nat /\ restarted \in BOOLEAN
  BY DEF WritersInv, Shape, Bundles
<1>2. buffer[sec] \in Seq(RowsOf(sec)) /\ new \in Seq(RowsOf(sec))
  BY <1>1, ContainerFacts
<1>3. buffer[sec] \o new \in Seq(RowsOf(sec))
  BY <1>2
<1>4. buffer' \in Containers
  BY <1>1, <1>3, ContainerUpdate
<1>5. /\ buffer'[sec] = buffer[sec] \o new
      /\ \A x \in SectionNames : x # sec => buffer'[x] = buffer[x]
  BY <1>1 DEF Containers
<1>6. RowsIn(sec, buffer'[sec]) = RowsIn(sec, buffer[sec]) \cup N
  <2>1. RowsIn(sec, buffer[sec] \o new) = RowsIn(sec, buffer[sec]) \cup N
    <3> HIDE DEF Pushed
    <3> DEFINE T == RowsOf(sec)
               a == buffer[sec]
    <3>1. a \in Seq(T) /\ new \in Seq(T)
      BY <1>2
    <3> HIDE DEF T, a
    <3>2. RowsIn(sec, a \o new) = RowsIn(sec, a) \cup RowsIn(sec, new)
      BY <3>1, RowsInConcat
    <3> QED BY <3>2 DEF a
  <2> QED BY <2>1, <1>5
<1>7. bundle' = bundle /\ db' = db /\ twice' = twice /\ lost' = lost
      /\ unsure' = unsure /\ resent' = resent /\ gone' = gone /\ restarted' = restarted
  BY DEF flushVars
<1>8. UNION { RowsIn(x, buffer'[x]) : x \in SectionNames } = Buffered \cup N
  <2> DEFINE B == UNION { RowsIn(x, buffer'[x]) : x \in SectionNames }
  <2>1. ASSUME NEW e \in B PROVE e \in Buffered \cup N
    <3>1. PICK x \in SectionNames : e \in RowsIn(x, buffer'[x])
      OBVIOUS
    <3> QED BY <3>1, <1>5, <1>6, BufferedMember
  <2>2. ASSUME NEW e \in Buffered PROVE e \in B
    <3>1. PICK x \in SectionNames : e \in RowsIn(x, buffer[x])
      BY BufferedMember
    <3>2. e \in RowsIn(x, buffer'[x])
      BY <3>1, <1>5, <1>6
    <3> QED BY <3>2
  <2>3. N \subseteq B
    BY <1>6
  <2> QED BY <2>1, <2>2, <2>3
<1>9. Buffered' = Buffered \cup N
  BY <1>8 DEF Buffered
<1>10. InBundle' = InBundle
  BY <1>7 DEF InBundle
<1>11. Buffered \subseteq expected /\ InBundle \subseteq expected /\ db \subseteq expected
  BY DEF WritersInv, Known
<1>12. expected' = expected \cup N
  BY <1>8, <1>11 DEF Taken
<1>13. \A e \in expected : e[2] \in 0..samples
  BY DEF WritersInv, Known
<1>14. \A e \in N : e[2] \in (samples + 1)..samples'
  OBVIOUS
<1>15. N \cap expected = {}
  <2> SUFFICES ASSUME NEW e \in N, e \in expected PROVE FALSE
    OBVIOUS
  <2>1. e[2] \in 0..samples /\ e[2] \in (samples + 1)..samples'
    BY <1>13, <1>14
  <2> QED BY <2>1, <1>1
<1> HIDE DEF N
<1>16. Shape'
  BY <1>1, <1>4, <1>7 DEF Shape, Bundles
<1>17. Progress'
  BY <1>7 DEF WritersInv, Progress
<1>18. Known'
  <2>1. (Buffered \cup InBundle \cup db)' \subseteq expected'
    BY <1>7, <1>9, <1>10, <1>11, <1>12
  <2>2. ASSUME NEW e \in expected' PROVE e[2] \in 0..samples'
    <3>1. e[2] \in 0..samples \/ e[2] \in (samples + 1)..samples'
      BY <1>12, <1>13, <1>14
    <3> QED BY <3>1, <1>1
  <2> QED BY <2>1, <2>2 DEF Known
<1>19. Identified'
  <2> SUFFICES ASSUME ~restarted, NEW e \in expected', e[1] \in ArrayTables
               PROVE  /\ e[4] \in 0..(next_array_id' - 1)
                      /\ \A f \in expected' :
                           e[1] = f[1] /\ e[4] = f[4] => e[2] = f[2]
    BY <1>7 DEF Identified
  <2>1. \A f \in expected : f[1] \in ArrayTables =>
          /\ f[4] \in 0..(next_array_id - 1)
          /\ \A g \in expected : f[1] = g[1] /\ f[4] = g[4] => f[2] = g[2]
    BY DEF WritersInv, Identified
  <2>2. \A f \in N : f[1] \in ArrayTables =>
          f[2] = samples + 1 /\ f[4] = next_array_id
          /\ next_array_id' = next_array_id + 1
    BY DEF N
  <2>3. next_array_id' \in Nat /\ next_array_id <= next_array_id'
    OBVIOUS
  <2>4. CASE e \in N
    <3>1. e[4] = next_array_id /\ next_array_id' = next_array_id + 1
      BY <2>2, <2>4
    <3>2. \A f \in expected' :
            e[1] = f[1] /\ e[4] = f[4] => e[2] = f[2]
      <4> SUFFICES ASSUME NEW f \in expected', e[1] = f[1], e[4] = f[4]
                   PROVE  e[2] = f[2]
        OBVIOUS
      <4>1. CASE f \in N
        BY <4>1, <2>2, <2>4
      <4>2. CASE f \in expected
        <5>1. f[4] \in 0..(next_array_id - 1) /\ f[4] = next_array_id
          BY <4>2, <2>1, <3>1
        <5> QED BY <5>1, <1>1
      <4> QED BY <4>1, <4>2, <1>12
    <3> QED BY <3>1, <3>2, <1>1
  <2>5. CASE e \in expected
    <3>1. e[4] \in 0..(next_array_id - 1)
      BY <2>1, <2>5
    <3>2. \A f \in expected' :
            e[1] = f[1] /\ e[4] = f[4] => e[2] = f[2]
      <4> SUFFICES ASSUME NEW f \in expected', e[1] = f[1], e[4] = f[4]
                   PROVE  e[2] = f[2]
        OBVIOUS
      <4>1. CASE f \in N
        <5>1. e[4] \in 0..(next_array_id - 1) /\ e[4] = next_array_id
          BY <4>1, <2>2, <3>1
        <5> QED BY <5>1, <1>1
      <4>2. CASE f \in expected
        BY <4>2, <2>1, <2>5
      <4> QED BY <4>1, <4>2, <1>12
    <3>3. e[4] \in 0..(next_array_id' - 1)
      BY <3>1, <2>3, <1>1
    <3> QED BY <3>2, <3>3
  <2> QED BY <2>4, <2>5, <1>12
<1>20. Apart'
  <2> SUFFICES ASSUME NEW x \in SectionNames
               PROVE  /\ Different(x, buffer'[x])
                      /\ Different(x, bundle.todo[x])
                      /\ Different(x, bundle.keep[x])
                      /\ RowsIn(x, buffer'[x]) \cap RowsIn(x, bundle.todo[x]) = {}
                      /\ RowsIn(x, buffer'[x]) \cap RowsIn(x, bundle.keep[x]) = {}
    BY <1>7 DEF Apart
  <2>1. /\ Different(x, buffer[x])
        /\ Different(x, bundle.todo[x])
        /\ Different(x, bundle.keep[x])
        /\ RowsIn(x, buffer[x]) \cap RowsIn(x, bundle.todo[x]) = {}
        /\ RowsIn(x, buffer[x]) \cap RowsIn(x, bundle.keep[x]) = {}
    BY DEF WritersInv, Apart
  <2>2. CASE x # sec
    BY <2>1, <2>2, <1>5
  <2>3. CASE x = sec
    <3>1. RowsIn(sec, buffer[sec]) \cap N = {}
      <4>1. RowsIn(sec, buffer[sec]) \subseteq Buffered
        BY BufferedMember
      <4> QED BY <4>1, <1>11, <1>15
    <3>2. Different(sec, buffer[sec] \o new)
      <4>1. Different(sec, buffer[sec]) /\ Different(sec, new)
        BY <2>1, <2>3
      <4> QED BY <4>1, <3>1, <1>2, DifferentConcat DEF N
    <3>3. /\ RowsIn(sec, bundle.todo[sec]) \subseteq InBundle
          /\ RowsIn(sec, bundle.keep[sec]) \subseteq InBundle
      BY <1>1, BundleMember, InBundleIs
    <3>4. /\ N \cap RowsIn(sec, bundle.todo[sec]) = {}
          /\ N \cap RowsIn(sec, bundle.keep[sec]) = {}
      BY <3>3, <1>11, <1>15
    <3> QED BY <2>1, <2>3, <3>2, <3>4, <1>5, <1>6
  <2> QED BY <2>2, <2>3
<1>21. Unheard'
  <2>1. (Buffered \cup InBundle) \cap db \subseteq unsure \cup resent
    BY DEF WritersInv, Unheard
  <2>2. (Buffered' \cup InBundle') \cap db' \subseteq unsure' \cup resent'
    BY <2>1, <1>7, <1>9, <1>10, <1>11, <1>15
  <2> QED BY <2>2 DEF Unheard
<1>22. NothingVanishes'
  <2> SUFFICES ASSUME NEW e \in expected', Readable(e[1])
               PROVE  e \in Buffered' \cup InBundle' \cup db' \cup lost' \cup gone'
    BY DEF NothingVanishes, Readable
  <2>1. CASE e \in N
    BY <2>1, <1>9
  <2>2. CASE e \in expected
    <3>1. e \in Buffered \cup InBundle \cup db \cup lost \cup gone
      BY <2>2 DEF WritersInv, NothingVanishes
    <3> QED BY <3>1, <1>7, <1>9, <1>10
  <2> QED BY <2>1, <2>2, <1>12
<1>23. StoredOnce'
  BY <1>7 DEF WritersInv, StoredOnce
<1> QED BY <1>16, <1>17, <1>18, <1>19, <1>20, <1>21, <1>22, <1>23 DEF WritersInv

LEMMA RefusedKeeps ==
  ASSUME WritersInv, Refused
  PROVE  WritersInv'
<1>1. /\ samples \in Nat /\ samples' \in Nat /\ samples <= samples'
      /\ Buffered \subseteq expected
  BY DEF Refused, WritersInv, Shape, Known
<1>2. /\ expected' = expected /\ buffer' = buffer /\ bundle' = bundle
      /\ next_array_id' = next_array_id
      /\ db' = db /\ twice' = twice /\ lost' = lost /\ unsure' = unsure
      /\ resent' = resent
      /\ gone' = gone /\ restarted' = restarted
  BY <1>1 DEF Refused, flushVars
<1>3. Buffered' = Buffered /\ InBundle' = InBundle
  BY <1>2 DEF Buffered, InBundle
<1>4. Shape'
  BY <1>1, <1>2 DEF WritersInv, Shape
<1>5. Progress' /\ Identified' /\ Apart' /\ StoredOnce'
  BY <1>2 DEF WritersInv, Progress, Identified, Apart, StoredOnce
<1>6. Unheard' /\ NothingVanishes'
  BY <1>2, <1>3 DEF WritersInv, Unheard, NothingVanishes
<1>7. Known'
  <2>1. \A e \in expected : e[2] \in 0..samples'
    BY <1>1 DEF WritersInv, Known
  <2> QED BY <2>1, <1>2, <1>3 DEF WritersInv, Known
<1> QED BY <1>4, <1>5, <1>6, <1>7 DEF WritersInv

\* The next update, which is then expected.
Arrives ==
  /\ samples' = samples + 1
  /\ Taken
  /\ UNCHANGED << flushVars, gone, restarted >>

LEMMA TakenNothing ==
  ASSUME WritersInv, Arrives, buffer' = buffer, next_array_id' = next_array_id
  PROVE  WritersInv'
<1>1. samples \in Nat
  BY DEF WritersInv, Shape
<1>2. samples' \in Nat /\ samples <= samples'
  BY <1>1 DEF Arrives
<1>3. expected' = expected \cup Buffered
  BY DEF Arrives, Taken, Buffered
<1>4. Refused
  BY <1>2, <1>3 DEF Refused, Arrives
<1> QED BY <1>4, RefusedKeeps

\* A row of its own.
LEMMA OneRowKeeps ==
  ASSUME WritersInv, Arrives, NEW sec \in SectionNames, NEW r \in RowsOf(sec),
         r.s = samples + 1, r.tab \notin ArrayTables,
         next_array_id' = next_array_id,
         \/ buffer' = [buffer EXCEPT ![sec] = Append(@, r)]
         \/ buffer' = buffer
  PROVE  WritersInv'
<1>1. CASE buffer' = buffer
  BY <1>1, TakenNothing
<1>2. CASE buffer' = [buffer EXCEPT ![sec] = Append(@, r)]
  <2>1. buffer \in Containers /\ samples \in Nat /\ next_array_id \in Nat
    BY DEF WritersInv, Shape
  <2>2. buffer[sec] \in Seq(RowsOf(sec))
    BY <2>1, ContainerFacts
  <2>3. Append(buffer[sec], r) = buffer[sec] \o << r >>
    BY <2>2
  <2>4. buffer' = [buffer EXCEPT ![sec] = @ \o << r >>]
    BY <1>2, <2>3
  <2>5. << r >> \in Seq(RowsOf(sec)) /\ DOMAIN << r >> = {1} /\ << r >>[1] = r
    OBVIOUS
  <2>6. Different(sec, << r >>)
    BY <2>5 DEF Different
  <2>7. r \in RowType
    BY DEF RowsOf
  <2>8. ASSUME NEW e \in RowsIn(sec, << r >>)
        PROVE  e[2] = samples + 1 /\ e[1] \notin ArrayTables
    <3>1. e \in CopyRowsOf(sec, r)
      BY <2>5, RowsInMember
    <3> QED BY <3>1, <2>7, CopyRowsFacts
  <2>9. samples' \in Nat /\ samples <= samples'
        /\ samples + 1 \in (samples + 1)..samples'
    BY <2>1 DEF Arrives
  <2>10. Pushed(sec, << r >>)
    BY <2>1, <2>4, <2>5, <2>6, <2>8, <2>9 DEF Pushed, Arrives
  <2> QED BY <2>10, PushedKeeps
<1> QED BY <1>1, <1>2

\* A capture taken apart.
LEMMA ArrayPushKeeps ==
  ASSUME WritersInv, Arrives, NEW tab \in ArrayTables, NEW n \in Nat,
         ArrayPush(samples + 1, tab, n)
  PROVE  WritersInv'
<1> DEFINE sec == IF tab = "samples_array_num" THEN "array_num" ELSE "array_str"
           row(k) == Row(samples + 1, k - 1, next_array_id, tab, n)
           new == [k \in 1..n |-> row(k)]
<1>1. buffer \in Containers /\ samples \in Nat /\ next_array_id \in Nat
  BY DEF WritersInv, Shape
<1>2. sec \in SectionNames /\ TablesOf(sec) = {tab} /\ sec # "json"
      /\ tab \notin Destructured /\ tab \in AllTables
  <2>1. tab = "samples_array_num" \/ tab = "samples_array_str"
    BY DEF ArrayTables
  <2>2. tab \notin Destructured /\ tab \in AllTables
    BY <2>1 DEF Destructured, AllTables
  <2>3. CASE tab = "samples_array_num"
    BY <2>2, <2>3, SectionFacts DEF TablesOf
  <2>4. CASE tab = "samples_array_str"
    BY <2>2, <2>4, SectionFacts DEF TablesOf
  <2> QED BY <2>1, <2>3, <2>4
<1>3. \/ /\ buffer' = [buffer EXCEPT ![sec] = @ \o new]
         /\ next_array_id' = next_array_id + 1
      \/ buffer' = buffer /\ next_array_id' = next_array_id
  BY DEF ArrayPush, bufVars
<1> HIDE DEF sec
<1>4. CASE buffer' = buffer /\ next_array_id' = next_array_id
  BY <1>4, TakenNothing
<1>5. CASE /\ buffer' = [buffer EXCEPT ![sec] = @ \o new]
           /\ next_array_id' = next_array_id + 1
  <2>1. ASSUME NEW k \in 1..n
        PROVE  /\ row(k) \in RowsOf(sec) /\ row(k) \in RowType
               /\ row(k).s = samples + 1 /\ row(k).i = k - 1
               /\ row(k).a = next_array_id /\ row(k).tab = tab
    <3>1. k - 1 \in Nat /\ samples + 1 \in Nat
      BY <1>1
    <3>2. row(k) \in RowType
      BY <3>1, <1>1, <1>2 DEF Row, RowType
    <3>3. /\ row(k).s = samples + 1 /\ row(k).i = k - 1
          /\ row(k).a = next_array_id /\ row(k).tab = tab
      BY DEF Row
    <3> QED BY <3>2, <3>3, <1>2 DEF RowsOf
  <2>2. DOMAIN new = 1..n /\ \A k \in 1..n : new[k] = row(k)
    OBVIOUS
  <2> HIDE DEF row
  <2>3. new \in [1..n -> RowsOf(sec)]
    BY <2>1
  <2>4. new \in Seq(RowsOf(sec))
    BY <2>3
  <2> HIDE DEF new
  <2>5. Different(sec, new)
    <3> SUFFICES ASSUME NEW p \in 1..n, NEW q \in 1..n, p # q
                 PROVE  CopyRowsOf(sec, new[p]) \cap CopyRowsOf(sec, new[q]) = {}
      BY <2>2 DEF Different
    <3>1. /\ row(p) \in RowType /\ row(q) \in RowType
          /\ row(p).tab \notin Destructured /\ row(p).tab = row(q).tab
      BY <2>1, <1>2
    <3>2. row(p).i # row(q).i
      <4>1. row(p).i = p - 1 /\ row(q).i = q - 1
        BY <2>1
      <4> QED BY <4>1
    <3> QED BY <3>1, <3>2, <2>2, CopyRowsDiffer
  <2>6. ASSUME NEW e \in RowsIn(sec, new)
        PROVE  e[2] = samples + 1 /\ e[4] = next_array_id
    <3>1. PICK k \in 1..n : e \in CopyRowsOf(sec, row(k))
      BY <2>2, RowsInMember
    <3>2. /\ row(k) \in RowType /\ row(k).s = samples + 1
          /\ row(k).a = next_array_id /\ row(k).tab \notin Destructured
      BY <2>1, <1>2
    <3>3. e = << row(k).tab, row(k).s, row(k).i, row(k).a >>
      BY <3>1, <3>2 DEF CopyRowsOf
    <3> QED BY <3>2, <3>3
  <2>7. samples' \in Nat /\ samples <= samples'
        /\ samples + 1 \in (samples + 1)..samples'
    BY <1>1 DEF Arrives
  <2>8. next_array_id' \in Nat /\ next_array_id <= next_array_id'
    BY <1>1, <1>5
  <2>9. Pushed(sec, new)
    BY <1>5, <2>4, <2>5, <2>6, <2>7, <2>8 DEF Pushed, Arrives
  <2> QED BY <2>9, <1>2, PushedKeeps
<1> QED BY <1>3, <1>4, <1>5

\* A row of the writers that count bytes.
LEMMA PushSizedKeeps ==
  ASSUME WritersInv, Arrives, NEW w \in { "string", "json", "image" },
         NEW tab \in TablesOf(w), NEW n \in Nat, NEW size,
         PushSized(w, Row(samples + 1, 0, 0, tab, n), size),
         next_array_id' = next_array_id
  PROVE  WritersInv'
<1> DEFINE r == Row(samples + 1, 0, 0, tab, n)
<1>1. samples \in Nat
  BY DEF WritersInv, Shape
<1>2. w \in SectionNames
  BY SectionFacts
<1>3. tab \in AllTables /\ tab \notin ArrayTables
  BY JsonFamily DEF TablesOf, ArrayTables, AllTables
<1>4. r \in RowsOf(w) /\ r.s = samples + 1 /\ r.tab = tab
  BY <1>1, <1>3 DEF Row, RowsOf, RowType
<1>5. \/ buffer' = [buffer EXCEPT ![w] = Append(@, r)]
      \/ buffer' = buffer
  BY DEF PushSized
<1> HIDE DEF r
<1> QED BY <1>2, <1>3, <1>4, <1>5, OneRowKeeps

LEMMA ScalarPushKeeps ==
  ASSUME WritersInv, Arrives, ScalarPush(samples + 1),
         next_array_id' = next_array_id
  PROVE  WritersInv'
<1> DEFINE r == Row(samples + 1, 0, 0, "samples", 1)
<1>1. samples \in Nat
  BY DEF WritersInv, Shape
<1>2. "scalar" \in SectionNames /\ TablesOf("scalar") = { "samples" }
  BY SectionFacts DEF TablesOf
<1>3. r \in RowsOf("scalar") /\ r.s = samples + 1 /\ r.tab \notin ArrayTables
  <2>1. r \in RowType
    BY <1>1 DEF Row, RowType, AllTables
  <2>2. r.s = samples + 1 /\ r.tab = "samples"
    BY DEF Row
  <2> QED BY <2>1, <2>2, <1>2 DEF RowsOf, ArrayTables
<1>4. \/ buffer' = [buffer EXCEPT !["scalar"] = Append(@, r)]
      \/ buffer' = buffer
  BY DEF ScalarPush
<1> HIDE DEF r
<1> QED BY <1>2, <1>3, <1>4, OneRowKeeps

\* The table of an update.
LEMMA TableFacts ==
  ASSUME NEW nt \in NormativeTypes
  PROVE  /\ nt \in {"NTScalarArray", "NTMatrix"}
              => TableOf(nt) = "samples_array_num"
         /\ nt \in { "NTTable", "NTUnion", "Custom", "NTHistogram",
                     "NTContinuum", "NTNameValue", "NTMultiChannel" }
              => TableOf(nt) \in TablesOf("json")
         /\ TableOf(nt) \in { "samples", "samples_string", "samples_image" }
              \cup ArrayTables \cup TablesOf("json")
<1>1. TablesOf("json") = { "samples_table", "samples_custom", "samples_nv",
                           "samples_hist", "samples_cont", "samples_mch" }
  BY JsonFamily DEF TablesOf
<1> QED BY <1>1 DEF TableOf, NormativeTypes, ArrayTables

LEMMA DispatchKeeps ==
  ASSUME WritersInv, NEW u \in Updates, Dispatch(u)
  PROVE  WritersInv'
<1>1. u.nt \in NormativeTypes /\ u.n \in Nat
  BY WritersAssumption
<1>2. samples \in Nat
  BY DEF WritersInv, Shape
<1>3. CASE UNCHANGED << bufVars, expected >>
  <2>1. samples' \in Nat /\ samples <= samples'
    BY <1>2 DEF Dispatch
  <2>2. Refused
    BY <2>1, <1>3 DEF Dispatch, Refused, bufVars
  <2> QED BY <2>2, RefusedKeeps
<1>4. CASE DispatchWithId(samples + 1, u) /\ Taken
  <2>1. Arrives
    BY <1>4 DEF Dispatch, Arrives
  <2>2. CASE u.nt \in {"NTScalar", "NTScalar.string", "NTEnum", "NTAggregate"}
    <3>1. ScalarPush(samples + 1) /\ next_array_id' = next_array_id
      BY <1>4, <2>2 DEF DispatchWithId
    <3> QED BY <3>1, <2>1, ScalarPushKeeps
  <2>3. CASE u.nt \in {"NTScalarArray", "NTMatrix"}
    <3>1. ArrayPush(samples + 1, TableOf(u.nt), u.n)
      BY <1>4, <2>3 DEF DispatchWithId
    <3>2. TableOf(u.nt) \in ArrayTables
      BY <1>1, <2>3, TableFacts DEF ArrayTables
    <3> QED BY <3>1, <3>2, <2>1, <1>1, ArrayPushKeeps
  <2>4. CASE u.nt = "NTScalarArray.string"
    <3>1. UNCHANGED bufVars
      BY <1>4, <2>4 DEF DispatchWithId
    <3> QED BY <3>1, <2>1, TakenNothing DEF bufVars
  <2>5. CASE u.nt = "NTNDArray"
    <3> DEFINE m == IF u.n > 1 THEN u.n ELSE 0
    <3>1. ImagePush(samples + 1, m) /\ next_array_id' = next_array_id
      BY <1>4, <2>5 DEF DispatchWithId, FromUpdate
    <3>2. m \in Nat
      BY <1>1
    <3> HIDE DEF m
    <3>3. PushSized("image", Row(samples + 1, 0, 0, "samples_image", m), m + 1)
      BY <3>1 DEF ImagePush
    <3>4. "samples_image" \in TablesOf("image")
      BY DEF TablesOf
    <3> QED BY <3>1, <3>2, <3>3, <3>4, <2>1, PushSizedKeeps
  <2>6. CASE u.nt \in { "NTTable", "NTUnion", "Custom", "NTHistogram",
                        "NTContinuum", "NTNameValue", "NTMultiChannel" }
    <3>1. JsonPush(samples + 1, TableOf(u.nt), u.n)
          /\ next_array_id' = next_array_id
      BY <1>4, <2>6 DEF DispatchWithId
    <3>2. PushSized("json", Row(samples + 1, 0, 0, TableOf(u.nt), u.n), 1)
      BY <3>1 DEF JsonPush
    <3>3. TableOf(u.nt) \in TablesOf("json")
      BY <1>1, <2>6, TableFacts
    <3> QED BY <3>1, <3>2, <3>3, <2>1, <1>1, PushSizedKeeps
  <2> QED BY <2>2, <2>3, <2>4, <2>5, <2>6, <1>1 DEF NormativeTypes
<1> QED BY <1>3, <1>4 DEF Dispatch

LEMMA IngestOtherKeeps ==
  ASSUME WritersInv, NEW u \in Updates, IngestOther(u)
  PROVE  WritersInv'
<1> DEFINE tab == TableOf(u.nt)
<1>1. u.nt \in NormativeTypes /\ u.n \in Nat
  BY WritersAssumption
<1>2. Arrives
  BY DEF IngestOther, restUnchanged, Arrives
<1>3. tab \in { "samples_string", "samples_image" } \cup ArrayTables
              \cup TablesOf("json")
  BY <1>1, TableFacts DEF IngestOther
<1>4. CASE tab = "samples_string"
  <2>1. StringPush(samples + 1, u.n) /\ next_array_id' = next_array_id
    BY <1>4 DEF IngestOther, ArrayTables
  <2>2. PushSized("string", Row(samples + 1, 0, 0, "samples_string", u.n), 1)
    BY <2>1 DEF StringPush
  <2>3. "samples_string" \in TablesOf("string")
    BY DEF TablesOf
  <2> QED BY <2>1, <2>2, <2>3, <1>1, <1>2, PushSizedKeeps
<1>5. CASE tab \in ArrayTables
  <2>1. ArrayPush(samples + 1, tab, u.n)
    BY <1>5 DEF IngestOther, ArrayTables
  <2> QED BY <2>1, <1>1, <1>2, <1>5, ArrayPushKeeps
<1>6. CASE tab = "samples_image"
  <2>1. ImagePush(samples + 1, u.n) /\ next_array_id' = next_array_id
    BY <1>6 DEF IngestOther, ArrayTables
  <2>2. PushSized("image", Row(samples + 1, 0, 0, "samples_image", u.n), u.n + 1)
    BY <2>1 DEF ImagePush
  <2>3. "samples_image" \in TablesOf("image")
    BY DEF TablesOf
  <2> QED BY <2>1, <2>2, <2>3, <1>1, <1>2, PushSizedKeeps
<1>7. CASE tab \in TablesOf("json")
  <2>1. tab \notin { "samples_string", "samples_image" } \cup ArrayTables
    BY <1>7, JsonFamily DEF TablesOf, ArrayTables
  <2>2. JsonPush(samples + 1, tab, u.n) /\ next_array_id' = next_array_id
    BY <2>1 DEF IngestOther
  <2>3. PushSized("json", Row(samples + 1, 0, 0, tab, u.n), 1)
    BY <2>2 DEF JsonPush
  <2> HIDE DEF tab
  <2> QED BY <2>2, <2>3, <1>1, <1>2, <1>7, PushSizedKeeps
<1> QED BY <1>3, <1>4, <1>5, <1>6, <1>7

LEMMA IngestScalarsKeeps ==
  ASSUME WritersInv, NEW k \in 1..2, IngestScalars(k)
  PROVE  WritersInv'
<1> DEFINE row(i) == Row(samples + i, 0, 0, "samples", 1)
           new == [i \in 1..k |-> row(i)]
<1>1. samples \in Nat /\ next_array_id \in Nat /\ k \in Nat
  BY DEF WritersInv, Shape
<1>2. "scalar" \in SectionNames /\ TablesOf("scalar") = { "samples" }
  BY SectionFacts DEF TablesOf
<1>3. ASSUME NEW i \in 1..k
      PROVE  /\ row(i) \in RowsOf("scalar") /\ row(i) \in RowType
             /\ row(i).s = samples + i /\ row(i).tab = "samples"
  <2>1. samples + i \in Nat
    BY <1>1
  <2>2. row(i) \in RowType
    BY <2>1 DEF Row, RowType, AllTables
  <2>3. row(i).s = samples + i /\ row(i).tab = "samples"
    BY DEF Row
  <2> QED BY <2>2, <2>3, <1>2 DEF RowsOf
<1>4. buffer' = [buffer EXCEPT !["scalar"] = @ \o new]
  BY DEF IngestScalars
<1>5. DOMAIN new = 1..k /\ \A i \in 1..k : new[i] = row(i)
  OBVIOUS
<1> HIDE DEF row
<1>6. new \in Seq(RowsOf("scalar"))
  <2>1. new \in [1..k -> RowsOf("scalar")]
    BY <1>3
  <2> QED BY <2>1, <1>1
<1> HIDE DEF new
<1>7. Different("scalar", new)
  <2> SUFFICES ASSUME NEW p \in 1..k, NEW q \in 1..k, p # q
               PROVE  CopyRowsOf("scalar", new[p])
                        \cap CopyRowsOf("scalar", new[q]) = {}
    BY <1>5 DEF Different
  <2>1. row(p) \in RowType /\ row(q) \in RowType
    BY <1>3
  <2>2. row(p).s # row(q).s
    <3>1. row(p).s = samples + p /\ row(q).s = samples + q
      BY <1>3
    <3> QED BY <3>1, <1>1
  <2> QED BY <2>1, <2>2, <1>5, CopyRowsDiffer
<1>8. samples' = samples + k /\ samples' \in Nat /\ samples <= samples'
  BY <1>1 DEF IngestScalars
<1>9. ASSUME NEW e \in RowsIn("scalar", new)
      PROVE  e[2] \in (samples + 1)..samples' /\ e[1] \notin ArrayTables
  <2>1. PICK i \in 1..k : e \in CopyRowsOf("scalar", row(i))
    BY <1>5, RowsInMember
  <2>2. row(i) \in RowType /\ row(i).s = samples + i /\ row(i).tab = "samples"
    BY <1>3
  <2>3. e[1] = "samples" /\ e[2] = samples + i
    BY <2>1, <2>2, CopyRowsFacts
  <2>4. samples + i \in (samples + 1)..samples'
    BY <1>1, <1>8
  <2> QED BY <2>3, <2>4 DEF ArrayTables
<1>10. Pushed("scalar", new)
  <2>1. /\ next_array_id' = next_array_id /\ Taken
        /\ UNCHANGED << flushVars, gone, restarted >>
    BY DEF IngestScalars, restUnchanged
  <2>2. next_array_id' \in Nat /\ next_array_id <= next_array_id'
    BY <2>1, <1>1
  <2> QED BY <2>1, <2>2, <1>4, <1>6, <1>7, <1>8, <1>9 DEF Pushed
<1> QED BY <1>2, <1>10, PushedKeeps

----------------------------------------------------------------------------
(* One section of the bundle is sent.  C is committed, L is given up, U    *)
(* was committed unheard, and new is what is left for a retry.             *)

Flushed(sec, C, L, U, new) ==
  /\ bundle.on /\ bundle.at \in 1..6 /\ sec = Sections[bundle.at]
  /\ new \in Seq(RowsOf(sec)) /\ Different(sec, new)
  /\ RowsIn(sec, new) \subseteq RowsIn(sec, bundle.todo[sec])
  /\ C \subseteq RowsIn(sec, bundle.todo[sec])
  /\ C \cap RowsIn(sec, new) \subseteq U
  /\ \A e \in RowsIn(sec, bundle.todo[sec]) :
       Readable(e[1]) => e \in C \cup L \cup RowsIn(sec, new)
  /\ db' = db \cup C /\ twice' = twice \cup (C \cap db)
  /\ unsure' = unsure \cup U /\ lost' = lost \cup L /\ resent' = resent
  /\ bundle' = [bundle EXCEPT !.at = @ + 1, !.todo[sec] = << >>,
                              !.keep[sec] = new]
  /\ UNCHANGED << buffer, next_array_id, expected, gone, samples, restarted >>

LEMMA FlushedKeeps ==
  ASSUME WritersInv, NEW sec, NEW C, NEW L, NEW U, NEW new,
         Flushed(sec, C, L, U, new)
  PROVE  WritersInv'
<1> DEFINE todo == RowsIn(sec, bundle.todo[sec])
           kept == RowsIn(sec, new)
<1>1. /\ buffer \in Containers /\ bundle \in Bundles
      /\ bundle.todo \in Containers /\ bundle.keep \in Containers
  BY DEF WritersInv, Shape, Bundles
<1>2. bundle.at \in 1..6 /\ sec = Sections[bundle.at] /\ sec \in SectionNames
  BY SectionFacts DEF Flushed
<1>3. new \in Seq(RowsOf(sec)) /\ << >> \in Seq(RowsOf(sec))
  BY DEF Flushed
<1>4. /\ bundle' = [on |-> bundle.on, at |-> bundle.at + 1,
                    todo |-> [bundle.todo EXCEPT ![sec] = << >>],
                    keep |-> [bundle.keep EXCEPT ![sec] = new]]
  BY <1>1 DEF Flushed, Bundles
<1>5. /\ bundle'.on = bundle.on /\ bundle'.at = bundle.at + 1
      /\ bundle'.todo = [bundle.todo EXCEPT ![sec] = << >>]
      /\ bundle'.keep = [bundle.keep EXCEPT ![sec] = new]
  BY <1>4
<1>6. bundle'.todo \in Containers /\ bundle'.keep \in Containers
  <2>1. [bundle.todo EXCEPT ![sec] = << >>] \in Containers
    BY <1>1, <1>2, <1>3, ContainerUpdate
  <2>2. [bundle.keep EXCEPT ![sec] = new] \in Containers
    BY <1>1, <1>2, <1>3, ContainerUpdate
  <2> QED BY <2>1, <2>2, <1>5
<1>7. bundle' \in Bundles
  BY <1>1, <1>2, <1>4, <1>5, <1>6 DEF Bundles
<1>8. /\ bundle'.todo[sec] = << >> /\ bundle'.keep[sec] = new
      /\ \A x \in SectionNames : x # sec => /\ bundle'.todo[x] = bundle.todo[x]
                                            /\ bundle'.keep[x] = bundle.keep[x]
  BY <1>1, <1>2, <1>5 DEF Containers
<1>9. /\ buffer' = buffer /\ next_array_id' = next_array_id
      /\ expected' = expected /\ gone' = gone /\ samples' = samples
      /\ restarted' = restarted
      /\ db' = db \cup C /\ twice' = twice \cup (C \cap db)
      /\ unsure' = unsure \cup U /\ lost' = lost \cup L /\ resent' = resent
  BY DEF Flushed
<1>10. kept \subseteq todo /\ C \subseteq todo /\ C \cap kept \subseteq U
  BY DEF Flushed
<1>11. Buffered' = Buffered
  BY <1>9 DEF Buffered
<1>12. todo \subseteq InBundle
  BY <1>1, <1>2, BundleMember, InBundleIs
<1>13. RowsIn(sec, bundle.keep[sec]) = {}
  <2>1. bundle.keep[sec] = << >>
    BY <1>2 DEF WritersInv, Progress
  <2> QED BY <2>1, RowsInEmpty
<1>14. InBundle' = RowsOfBundle(bundle')
  BY DEF InBundle, RowsOfBundle
<1>15. RowsIn(sec, bundle'.todo[sec]) = {} /\ RowsIn(sec, bundle'.keep[sec]) = kept
  BY <1>8, RowsInEmpty
<1>16. InBundle' \subseteq InBundle
  <2> SUFFICES ASSUME NEW e \in InBundle' PROVE e \in InBundle
    OBVIOUS
  <2>1. PICK x \in SectionNames : \/ e \in RowsIn(x, bundle'.todo[x])
                                  \/ e \in RowsIn(x, bundle'.keep[x])
    BY <1>7, <1>14, BundleMember
  <2>2. CASE x = sec
    BY <2>1, <2>2, <1>10, <1>12, <1>15
  <2>3. CASE x # sec
    <3>1. \/ e \in RowsIn(x, bundle.todo[x])
          \/ e \in RowsIn(x, bundle.keep[x])
      BY <2>1, <2>3, <1>8
    <3> QED BY <3>1, <1>1, BundleMember, InBundleIs
  <2> QED BY <2>2, <2>3
<1>17. InBundle \subseteq InBundle' \cup todo
  <2> SUFFICES ASSUME NEW e \in InBundle, e \notin todo PROVE e \in InBundle'
    OBVIOUS
  <2>1. PICK x \in SectionNames : \/ e \in RowsIn(x, bundle.todo[x])
                                  \/ e \in RowsIn(x, bundle.keep[x])
    BY <1>1, BundleMember, InBundleIs
  <2>2. x # sec
    BY <2>1, <1>13
  <2>3. \/ e \in RowsIn(x, bundle'.todo[x])
        \/ e \in RowsIn(x, bundle'.keep[x])
    BY <2>1, <2>2, <1>8
  <2> QED BY <2>3, <1>7, <1>14, BundleMember
<1>18. kept \subseteq InBundle'
  BY <1>2, <1>7, <1>14, <1>15, BundleMember
<1>19. Buffered \cap todo = {}
  <2> SUFFICES ASSUME NEW e \in todo, e \in Buffered PROVE FALSE
    OBVIOUS
  <2>1. PICK x \in SectionNames : e \in RowsIn(x, buffer[x])
    BY BufferedMember
  <2>2. CASE x = sec
    BY <2>1, <2>2 DEF WritersInv, Apart
  <2>3. CASE x # sec
    <3>1. buffer[x] \in Seq(RowsOf(x)) /\ bundle.todo[sec] \in Seq(RowsOf(sec))
      BY <1>1, <1>2, ContainerFacts
    <3> QED BY <2>1, <2>3, <3>1, <1>2, SectionsApart
  <2> QED BY <2>2, <2>3
<1>20. InBundle' \cap todo \subseteq kept
  <2> SUFFICES ASSUME NEW e \in todo, e \in InBundle' PROVE e \in kept
    OBVIOUS
  <2>1. PICK x \in SectionNames : \/ e \in RowsIn(x, bundle'.todo[x])
                                  \/ e \in RowsIn(x, bundle'.keep[x])
    BY <1>7, <1>14, BundleMember
  <2>2. CASE x = sec
    BY <2>1, <2>2, <1>15
  <2>3. CASE x # sec
    <3>1. /\ bundle.todo[x] \in Seq(RowsOf(x)) /\ bundle.keep[x] \in Seq(RowsOf(x))
          /\ bundle.todo[sec] \in Seq(RowsOf(sec))
      BY <1>1, <1>2, ContainerFacts
    <3>2. \/ e \in RowsIn(x, bundle.todo[x])
          \/ e \in RowsIn(x, bundle.keep[x])
      BY <2>1, <2>3, <1>8
    <3> QED BY <2>3, <3>1, <3>2, <1>2, SectionsApart
  <2> QED BY <2>2, <2>3
<1>21. Shape'
  BY <1>1, <1>7, <1>9 DEF WritersInv, Shape, Bundles
<1>22. Progress'
  <2>1. bundle'.on /\ bundle.at + 1 >= 1
    BY <1>2, <1>5 DEF Flushed
  <2>2. ASSUME NEW k \in 1..6
        PROVE  /\ k < bundle.at + 1 => bundle'.todo[Sections[k]] = << >>
               /\ k >= bundle.at + 1 => bundle'.keep[Sections[k]] = << >>
    <3>1. Sections[k] \in SectionNames
      BY SectionFacts
    <3>2. /\ k < bundle.at => bundle.todo[Sections[k]] = << >>
          /\ k >= bundle.at => bundle.keep[Sections[k]] = << >>
      BY DEF WritersInv, Progress
    <3>3. CASE k = bundle.at
      BY <3>3, <1>2, <1>8
    <3>4. CASE k # bundle.at
      <4>1. Sections[k] # sec
        BY <3>4, <1>2, SectionFacts
      <4>2. /\ k < bundle.at + 1 => k < bundle.at
            /\ k >= bundle.at + 1 => k >= bundle.at
        BY <3>4, <1>2
      <4> QED BY <4>1, <4>2, <3>1, <3>2, <1>8
    <3> QED BY <3>3, <3>4
  <2> QED BY <2>1, <2>2, <1>5 DEF Progress
<1>23. Known'
  <2>1. Buffered \cup InBundle \cup db \subseteq expected
    BY DEF WritersInv, Known
  <2>2. Buffered' \cup InBundle' \cup db' \subseteq expected'
    BY <2>1, <1>9, <1>10, <1>11, <1>12, <1>16
  <2> QED BY <2>2, <1>9 DEF WritersInv, Known
<1>24. Identified'
  BY <1>9 DEF WritersInv, Identified
<1>25. Apart'
  <2> SUFFICES ASSUME NEW x \in SectionNames
               PROVE  /\ Different(x, buffer[x])
                      /\ Different(x, bundle'.todo[x])
                      /\ Different(x, bundle'.keep[x])
                      /\ RowsIn(x, buffer[x]) \cap RowsIn(x, bundle'.todo[x]) = {}
                      /\ RowsIn(x, buffer[x]) \cap RowsIn(x, bundle'.keep[x]) = {}
    BY <1>9 DEF Apart
  <2>1. /\ Different(x, buffer[x])
        /\ Different(x, bundle.todo[x])
        /\ Different(x, bundle.keep[x])
        /\ RowsIn(x, buffer[x]) \cap RowsIn(x, bundle.todo[x]) = {}
        /\ RowsIn(x, buffer[x]) \cap RowsIn(x, bundle.keep[x]) = {}
    BY DEF WritersInv, Apart
  <2>2. CASE x # sec
    BY <2>1, <2>2, <1>8
  <2>3. CASE x = sec
    <3>1. Different(sec, << >>) /\ Different(sec, new)
      BY DifferentEmpty DEF Flushed
    <3> QED BY <2>1, <2>3, <3>1, <1>8, <1>10, <1>15
  <2> QED BY <2>2, <2>3
<1>26. Unheard'
  <2>1. (Buffered \cup InBundle) \cap db \subseteq unsure \cup resent
    BY DEF WritersInv, Unheard
  <2>2. (Buffered' \cup InBundle') \cap db' \subseteq unsure' \cup resent'
    BY <2>1, <1>9, <1>10, <1>11, <1>16, <1>19, <1>20
  <2> QED BY <2>2 DEF Unheard
<1>27. StoredOnce'
  <2>1. /\ (Buffered \cup InBundle) \cap db \subseteq unsure \cup resent
        /\ twice \subseteq unsure \cup resent
    BY DEF WritersInv, Unheard, StoredOnce
  <2> QED BY <2>1, <1>9, <1>10, <1>12 DEF StoredOnce
<1>28. NothingVanishes'
  <2> SUFFICES ASSUME NEW e \in expected, Readable(e[1])
               PROVE  e \in Buffered' \cup InBundle' \cup db' \cup lost' \cup gone'
    BY <1>9 DEF NothingVanishes, Readable
  <2>1. e \in Buffered \cup InBundle \cup db \cup lost \cup gone
    BY DEF WritersInv, NothingVanishes
  <2>2. CASE e \in todo
    <3>1. e \in C \cup L \cup kept
      BY <2>2 DEF Flushed
    <3> QED BY <3>1, <1>9, <1>18
  <2>3. CASE e \notin todo
    BY <2>1, <2>3, <1>9, <1>11, <1>17
  <2> QED BY <2>2, <2>3
<1> QED BY <1>21, <1>22, <1>23, <1>24, <1>25, <1>26, <1>27, <1>28 DEF WritersInv

\* The rows at some positions of a section.
AtPositions(sec, rows, P) == UNION { CopyRowsOf(sec, rows[p]) : p \in P }

LEMMA SectionSent ==
  /\ WritersInv
  /\ bundle.on
  /\ bundle.at <= Len(Sections)
  => /\ bundle.at \in 1..6
     /\ Sections[bundle.at] \in SectionNames
     /\ bundle.todo[Sections[bundle.at]] \in Seq(RowsOf(Sections[bundle.at]))
     /\ Different(Sections[bundle.at], bundle.todo[Sections[bundle.at]])
<1> SUFFICES ASSUME WritersInv, bundle.on, bundle.at <= Len(Sections)
             PROVE  /\ bundle.at \in 1..6
                    /\ Sections[bundle.at] \in SectionNames
                    /\ bundle.todo[Sections[bundle.at]]
                         \in Seq(RowsOf(Sections[bundle.at]))
                    /\ Different(Sections[bundle.at],
                                 bundle.todo[Sections[bundle.at]])
  OBVIOUS
<1>1. bundle.at \in Nat /\ bundle.todo \in Containers
  BY DEF WritersInv, Shape
<1>2. bundle.at \in 1..6
  BY <1>1, SectionFacts DEF WritersInv, Progress
<1>3. Sections[bundle.at] \in SectionNames
  BY <1>2, SectionFacts
<1> QED BY <1>1, <1>2, <1>3, ContainerFacts DEF WritersInv, Apart

LEMMA FlushSectionKeeps ==
  ASSUME WritersInv, FlushSection
  PROVE  WritersInv'
<1> DEFINE sec == Sections[bundle.at]
           rows == bundle.todo[sec]
           size == ChunkSize(sec, Len(rows))
           chunks == ChunkNumbers(rows, size)
           reads == rows # << >> => rows[1].tab \in AcceptedTables
           of(I) == UNION { RowsIn(sec, Chunk(rows, size, i)) : i \in I }
           conn == [i \in chunks |-> ConnOf(i)]
           sent(out) == { i \in chunks : reads /\ Stores(out[i]) }
           kept(out) == { i \in chunks : reads /\ out[i] # "ok" }
           new(out) == KeptRows(rows, size, kept(out))
<1>1. PICK out \in Attempts(conn) :
        /\ Commit(of(sent(out)))
        /\ unsure' = unsure \cup of(sent(out) \cap kept(out))
        /\ lost' = lost \cup of({ i \in chunks : ~reads })
        /\ bundle' = [bundle EXCEPT !.at = @ + 1, !.todo[sec] = << >>,
                                    !.keep[sec] = new(out)]
  BY DEF FlushSection
<1>2. /\ bundle.at \in 1..6 /\ sec \in SectionNames
      /\ rows \in Seq(RowsOf(sec)) /\ Different(sec, rows)
  BY SectionSent DEF FlushSection
<1>3. out \in [chunks -> { "ok", "failed", "unheard" }]
  BY DEF Attempts
<1> DEFINE S == sent(out)
           K == kept(out)
           P(I) == Positions(rows, size, I)
           C == of(S)
           U == of(S \cap K)
           L == of({ i \in chunks : ~reads })
           rest == RowsAt(rows, P(K))
<1>4. new(out) = rest
  BY DEF KeptRows, Positions
<1>5. S \subseteq chunks /\ K \subseteq chunks
  OBVIOUS
<1>6. reads => \A i \in chunks : i \in S \/ i \in K
  BY <1>3 DEF Stores
<1>7. ~reads => { i \in chunks : ~reads } = chunks
  OBVIOUS
<1>8. { i \in chunks : ~reads } \subseteq chunks
  OBVIOUS
<1> HIDE DEF S, K, reads
<1>9. ASSUME NEW I \in SUBSET chunks
      PROVE  of(I) = AtPositions(sec, rows, P(I))
  <2>1. CASE rows = << >>
    <3>1. chunks = {}
      BY <2>1 DEF ChunkNumbers
    <3>2. P(I) = {}
      BY <2>1 DEF Positions
    <3> QED BY <3>1, <3>2 DEF AtPositions
  <2>2. CASE rows # << >>
    <3>1. Len(rows) \in Nat \ {0}
      BY <2>2, <1>2
    <3>2. size \in Nat \ {0}
      BY <3>1, ChunkSizePositive
    <3>3. I \subseteq Nat
      <4> DEFINE T == RowsOf(sec)
      <4>1. rows \in Seq(T)
        BY <1>2
      <4> HIDE DEF rows, T, sec
      <4>2. chunks \subseteq Nat
        BY <4>1, <2>2, ChunksNatural
      <4> QED BY <4>2
    <3> DEFINE T == RowsOf(sec)
    <3>4. rows \in Seq(T)
      BY <1>2
    <3> HIDE DEF rows, size, chunks, sec, T
    <3>5. UNION { RowsIn(sec, Chunk(rows, size, i)) : i \in I }
            = UNION { CopyRowsOf(sec, rows[p]) : p \in Positions(rows, size, I) }
      BY <3>2, <3>3, <3>4, ChunksRows
    <3> QED BY <3>5 DEF AtPositions
  <2> QED BY <2>1, <2>2
<1>10. ASSUME NEW p \in DOMAIN rows
       PROVE  ((p - 1) \div size) \in chunks
  <2>1. rows # << >> /\ Len(rows) \in Nat \ {0}
    BY <1>2
  <2>2. size \in Nat \ {0}
    BY <2>1, ChunkSizePositive
  <2> HIDE DEF rows, size
  <2> QED BY <2>2, <1>2, ChunkOfRow
<1>11. P(K) \in SUBSET (DOMAIN rows)
  BY DEF Positions
<1>12. /\ rest \in Seq(RowsOf(sec)) /\ Different(sec, rest)
       /\ RowsIn(sec, rest) = AtPositions(sec, rows, P(K))
  BY <1>2, <1>11, RowsAtFacts DEF AtPositions
<1>13. C = AtPositions(sec, rows, P(S))
  BY <1>5, <1>9
<1>14. U = AtPositions(sec, rows, P(S \cap K))
  <2>1. S \cap K \in SUBSET chunks
    BY <1>5
  <2> QED BY <2>1, <1>9
<1>15. ~reads => L = AtPositions(sec, rows, P(chunks))
  BY <1>7, <1>9
<1>16. \A I : AtPositions(sec, rows, P(I)) \subseteq RowsIn(sec, rows)
  BY RowsInMember DEF AtPositions, Positions
<1> HIDE DEF rest, of, C, U, L, size, chunks, rows
<1>17. C \cap RowsIn(sec, rest) \subseteq U
  <2> SUFFICES ASSUME NEW e \in C, e \in RowsIn(sec, rest) PROVE e \in U
    OBVIOUS
  <2>1. PICK p \in P(S) : e \in CopyRowsOf(sec, rows[p])
    BY <1>13 DEF AtPositions
  <2>2. PICK q \in P(K) : e \in CopyRowsOf(sec, rows[q])
    BY <1>12 DEF AtPositions
  <2>3. p \in DOMAIN rows /\ q \in DOMAIN rows
    BY DEF Positions
  <2>4. p = q
    BY <2>1, <2>2, <2>3, <1>2 DEF Different
  <2>5. p \in P(S \cap K)
    BY <2>4, <2>3 DEF Positions
  <2> QED BY <2>1, <2>5, <1>14 DEF AtPositions
<1>18. RowsIn(sec, rows) \subseteq C \cup L \cup RowsIn(sec, rest)
  <2> SUFFICES ASSUME NEW e \in RowsIn(sec, rows)
               PROVE  e \in C \cup L \cup RowsIn(sec, rest)
    OBVIOUS
  <2>1. PICK p \in DOMAIN rows : e \in CopyRowsOf(sec, rows[p])
    BY RowsInMember
  <2> DEFINE i == (p - 1) \div size
  <2>2. i \in chunks
    BY <1>10
  <2>3. \A I : i \in I => p \in P(I)
    BY DEF Positions
  <2> HIDE DEF i
  <2>4. CASE ~reads
    BY <2>1, <2>2, <2>3, <2>4, <1>15 DEF AtPositions
  <2>5. CASE reads /\ i \in S
    BY <2>1, <2>3, <2>5, <1>13 DEF AtPositions
  <2>6. CASE reads /\ i \in K
    BY <2>1, <2>3, <2>6, <1>12 DEF AtPositions
  <2> QED BY <2>2, <2>4, <2>5, <2>6, <1>6
<1>19. /\ db' = db \cup C /\ twice' = twice \cup (C \cap db)
       /\ unsure' = unsure \cup U /\ lost' = lost \cup L /\ resent' = resent
  BY <1>1 DEF FlushSection, Commit, C, U, L, S, K
<1>20. bundle' = [bundle EXCEPT !.at = @ + 1, !.todo[sec] = << >>,
                                !.keep[sec] = rest]
  BY <1>1, <1>4
<1>21. /\ bundle.on
       /\ UNCHANGED << buffer, next_array_id, expected, gone, samples,
                       restarted >>
  BY DEF FlushSection, bufVars
<1>22. rows = bundle.todo[sec]
  BY DEF rows
<1>23. C \subseteq RowsIn(sec, rows) /\ RowsIn(sec, rest) \subseteq RowsIn(sec, rows)
  BY <1>12, <1>13, <1>16
<1>24. Flushed(sec, C, L, U, rest)
  BY <1>2, <1>12, <1>17, <1>18, <1>19, <1>20, <1>21, <1>22, <1>23 DEF Flushed
<1> QED BY <1>24, FlushedKeeps

\* What is sent of a JSON row is its rows, or nothing where the payload
\* builder finds no elements.
LEMMA JsonElementsFacts ==
  ASSUME NEW r \in RowsOf("json")
  PROVE  /\ JsonElements(r) \subseteq CopyRowsOf("json", r)
         /\ \A e \in CopyRowsOf("json", r) : Readable(e[1]) => e \in JsonElements(r)
         /\ r.tab \in Range(JsonTables) /\ r \in RowType
<1>1. r.i = 0 /\ r.a = 0 /\ r.tab \in Range(JsonTables) /\ r \in RowType
  BY DEF RowsOf, TablesOf
<1>2. CASE r.tab \notin Destructured
  BY <1>1, <1>2 DEF JsonElements, CopyRowsOf
<1>3. CASE r.tab \in Destructured
  <2>1. JsonElements(r) \subseteq CopyRowsOf("json", r)
    BY <1>3 DEF JsonElements, CopyRowsOf
  <2>2. ASSUME NEW e \in CopyRowsOf("json", r), Readable(e[1])
        PROVE  e \in JsonElements(r)
    <3>1. e[1] = r.tab
      BY <1>1, CopyRowsFacts
    <3>2. Readable(r.tab)
      BY <3>1, <2>2
    <3> HIDE DEF Readable
    <3> QED BY <1>3, <3>2 DEF JsonElements, CopyRowsOf
  <2> QED BY <2>1, <2>2, <1>1
<1> QED BY <1>2, <1>3

\* A capture of the JSON family is taken by one of six COPYs.
ElementsOf(rows, t) ==
  UNION { JsonElements(r) : r \in { x \in Range(rows) : x.tab = t } }

LEMMA ElementsFacts ==
  ASSUME NEW rows \in Seq(RowsOf("json"))
  PROVE  /\ \A t : ElementsOf(rows, t) \subseteq RowsIn("json", rows)
         /\ \A t : \A e \in ElementsOf(rows, t) : e[1] = t
         /\ \A p \in DOMAIN rows : \A e \in CopyRowsOf("json", rows[p]) :
              /\ e[1] = rows[p].tab /\ rows[p].tab \in Range(JsonTables)
              /\ Readable(e[1]) => e \in ElementsOf(rows, rows[p].tab)
<1>1. \A p \in DOMAIN rows : rows[p] \in RowsOf("json")
  OBVIOUS
<1>2. ASSUME NEW t, NEW e \in ElementsOf(rows, t)
      PROVE  e \in RowsIn("json", rows) /\ e[1] = t
  <2>1. PICK r \in Range(rows) : r.tab = t /\ e \in JsonElements(r)
    BY DEF ElementsOf
  <2>2. PICK p \in DOMAIN rows : r = rows[p]
    BY DEF Range
  <2>3. e \in CopyRowsOf("json", rows[p]) /\ rows[p] \in RowType
    BY <2>1, <2>2, <1>1, JsonElementsFacts
  <2> QED BY <2>1, <2>2, <2>3, CopyRowsFacts, RowsInMember
<1>3. ASSUME NEW p \in DOMAIN rows, NEW e \in CopyRowsOf("json", rows[p])
      PROVE  /\ e[1] = rows[p].tab /\ rows[p].tab \in Range(JsonTables)
             /\ Readable(e[1]) => e \in ElementsOf(rows, rows[p].tab)
  <2>1. /\ rows[p] \in RowType /\ rows[p].tab \in Range(JsonTables)
        /\ Readable(e[1]) => e \in JsonElements(rows[p])
    BY <1>1, JsonElementsFacts
  <2>2. rows[p] \in Range(rows)
    BY DEF Range
  <2>3. e[1] = rows[p].tab
    BY <2>1, CopyRowsFacts
  <2>4. JsonElements(rows[p]) \subseteq ElementsOf(rows, rows[p].tab)
    BY <2>2 DEF ElementsOf
  <2> QED BY <2>1, <2>3, <2>4
<1> QED BY <1>2, <1>3

LEMMA FlushJsonKeeps ==
  ASSUME WritersInv, FlushJson
  PROVE  WritersInv'
<1> DEFINE rows == bundle.todo["json"]
           el(t) == ElementsOf(rows, t)
           tables == { t \in Range(JsonTables) : el(t) # {} }
           reads == { t \in tables : t \in AcceptedTables }
           conn == [t \in tables |-> ConnOf(0)]
           sent(out) == { t \in reads : Stores(out[t]) }
           failed(out) == { t \in reads : out[t] # "ok" }
<1>1. PICK out \in Attempts(conn) :
        /\ Commit(UNION { el(t) : t \in sent(out) })
        /\ lost' = lost \cup UNION { el(t) : t \in tables \ reads }
        /\ unsure' = unsure \cup UNION { el(t) :
                       t \in { x \in tables : out[x] = "unheard" } }
        /\ bundle' = [bundle EXCEPT !.at = @ + 1, !.todo["json"] = << >>,
                        !.keep["json"] = KeptJson(rows, failed(out))]
  BY DEF FlushJson, ElementsOf
<1>2. /\ bundle.at \in 1..6 /\ "json" \in SectionNames
      /\ "json" = Sections[bundle.at]
      /\ rows \in Seq(RowsOf("json")) /\ Different("json", rows)
  BY SectionSent DEF FlushJson
<1>3. out \in [tables -> { "ok", "failed", "unheard" }]
  BY DEF Attempts
<1> DEFINE S == sent(out)
           K == failed(out)
           C == UNION { el(t) : t \in S }
           L == UNION { el(t) : t \in tables \ reads }
           U == UNION { el(t) : t \in { x \in tables : out[x] = "unheard" } }
           P == { p \in DOMAIN rows : rows[p].tab \in K }
           rest == RowsAt(rows, P)
<1>4. KeptJson(rows, K) = rest
  BY DEF KeptJson
<1>5. \A t \in reads : (t \in S /\ t \in K => out[t] = "unheard")
                        /\ (t \in S \/ t \in K) /\ t \in tables
  BY <1>3 DEF Stores
<1>6. S \subseteq reads /\ K \subseteq reads
  OBVIOUS
<1>7. /\ rest \in Seq(RowsOf("json")) /\ Different("json", rest)
      /\ \A e : e \in RowsIn("json", rest)
                  <=> \E p \in P : e \in CopyRowsOf("json", rows[p])
  <2>1. P \in SUBSET (DOMAIN rows)
    OBVIOUS
  <2> DEFINE T == RowsOf("json")
  <2>2. rows \in Seq(T) /\ Different("json", rows)
    BY <1>2
  <2> HIDE DEF P, rows, T
  <2>3. /\ RowsAt(rows, P) \in Seq(T) /\ Different("json", RowsAt(rows, P))
        /\ RowsIn("json", RowsAt(rows, P))
              = UNION { CopyRowsOf("json", rows[p]) : p \in P }
    BY <2>1, <2>2, RowsAtFacts
  <2> QED BY <2>3 DEF T
<1> HIDE DEF rest, S, K, rows
<1>8. /\ \A t : el(t) \subseteq RowsIn("json", rows)
      /\ \A t : \A e \in el(t) : e[1] = t
      /\ \A p \in DOMAIN rows : \A e \in CopyRowsOf("json", rows[p]) :
              /\ e[1] = rows[p].tab /\ rows[p].tab \in Range(JsonTables)
              /\ Readable(e[1]) => e \in el(rows[p].tab)
  BY <1>2, ElementsFacts
<1> HIDE DEF el
<1>9. C \subseteq RowsIn("json", rows)
  BY <1>8
<1>10. RowsIn("json", rest) \subseteq RowsIn("json", rows)
  BY <1>7, RowsInMember
<1>11. C \cap RowsIn("json", rest) \subseteq U
  <2> SUFFICES ASSUME NEW e \in C, e \in RowsIn("json", rest) PROVE e \in U
    OBVIOUS
  <2>1. PICK t \in S : e \in el(t)
    OBVIOUS
  <2>2. PICK p \in P : e \in CopyRowsOf("json", rows[p])
    BY <1>7
  <2>3. t = rows[p].tab
    BY <2>1, <2>2, <1>8
  <2>4. t \in S /\ t \in K /\ t \in reads
    BY <2>1, <2>2, <2>3, <1>6
  <2>5. t \in tables /\ out[t] = "unheard"
    BY <2>4, <1>5
  <2> QED BY <2>1, <2>5
<1>12. ASSUME NEW e \in RowsIn("json", rows), Readable(e[1])
       PROVE  e \in C \cup L \cup RowsIn("json", rest)
  <2>1. PICK p \in DOMAIN rows : e \in CopyRowsOf("json", rows[p])
    BY RowsInMember
  <2> DEFINE t == rows[p].tab
  <2>2. e \in el(t) /\ t \in Range(JsonTables)
    BY <2>1, <1>8, <1>12
  <2>3. t \in tables
    BY <2>2
  <2>4. CASE t \notin reads
    BY <2>2, <2>3, <2>4
  <2>5. CASE t \in S
    BY <2>2, <2>5
  <2>6. CASE t \in K
    <3>1. p \in P
      BY <2>6
    <3> QED BY <2>1, <3>1, <1>7
  <2> QED BY <2>4, <2>5, <2>6, <1>5
<1>13. /\ db' = db \cup C /\ twice' = twice \cup (C \cap db)
       /\ unsure' = unsure \cup U /\ lost' = lost \cup L /\ resent' = resent
  BY <1>1 DEF FlushJson, Commit, S
<1>14. bundle' = [bundle EXCEPT !.at = @ + 1, !.todo["json"] = << >>,
                                !.keep["json"] = rest]
  BY <1>1, <1>4 DEF K
<1>15. /\ bundle.on
       /\ UNCHANGED << buffer, next_array_id, expected, gone, samples,
                       restarted >>
  BY DEF FlushJson, bufVars
<1>16. rows = bundle.todo["json"]
  BY DEF rows
<1> HIDE DEF C, U, L
<1>17. Flushed("json", C, L, U, rest)
  BY <1>2, <1>7, <1>9, <1>10, <1>11, <1>12, <1>13, <1>14, <1>15, <1>16
     DEF Flushed
<1> QED BY <1>17, FlushedKeeps

----------------------------------------------------------------------------
(* Bundles are taken, finished and dropped; connections come and go.       *)

LEMMA TakeBundleKeeps ==
  ASSUME WritersInv, TakeBundle
  PROVE  WritersInv'
<1>1. buffer \in Containers /\ bundle = NoBundle
  BY DEF WritersInv, Shape, Progress, TakeBundle
<1>2. /\ bundle' = [on |-> TRUE, at |-> 1, todo |-> buffer, keep |-> Empty]
      /\ buffer' = Empty
  BY DEF TakeBundle
<1>3. /\ next_array_id' = next_array_id /\ db' = db /\ twice' = twice
      /\ lost' = lost /\ unsure' = unsure /\ resent' = resent /\ expected' = expected
      /\ gone' = gone /\ samples' = samples /\ restarted' = restarted
  BY DEF TakeBundle
<1>4. bundle' \in Bundles /\ buffer' \in Containers
  BY <1>1, <1>2, EmptyContainer DEF Bundles
<1>5. /\ bundle'.todo = buffer /\ bundle'.keep = Empty
      /\ bundle'.on /\ bundle'.at = 1
  BY <1>2
<1>6. \A x \in SectionNames : bundle'.keep[x] = << >> /\ buffer'[x] = << >>
  BY <1>2, <1>5, EmptyContainer
<1>7. \A x \in SectionNames : RowsIn(x, bundle'.keep[x]) = {}
                              /\ RowsIn(x, buffer'[x]) = {}
  BY <1>6, RowsInEmpty
<1>8. Buffered' = {}
  BY <1>7 DEF Buffered
<1>9. InBundle' = Buffered
  <2>1. InBundle' = RowsOfBundle(bundle')
    BY DEF InBundle, RowsOfBundle
  <2>2. \A e : e \in InBundle' <=> e \in Buffered
    BY <2>1, <1>4, <1>5, <1>7, BundleMember, BufferedMember
  <2> QED BY <2>2
<1>10. InBundle = {}
  BY <1>1, EmptyBundle, InBundleIs
<1>11. Shape'
  BY <1>3, <1>4 DEF WritersInv, Shape, Bundles
<1>12. Progress'
  <2>1. \A k \in 1..6 : Sections[k] \in SectionNames /\ ~(k < 1)
    BY SectionFacts
  <2> QED BY <2>1, <1>5, <1>6 DEF Progress
<1>13. Known' /\ Identified'
  BY <1>3, <1>8, <1>9 DEF WritersInv, Known, Identified
<1>14. Apart'
  <2> SUFFICES ASSUME NEW x \in SectionNames
               PROVE  /\ Different(x, buffer'[x])
                      /\ Different(x, bundle'.todo[x])
                      /\ Different(x, bundle'.keep[x])
                      /\ RowsIn(x, buffer'[x]) \cap RowsIn(x, bundle'.todo[x]) = {}
                      /\ RowsIn(x, buffer'[x]) \cap RowsIn(x, bundle'.keep[x]) = {}
    BY DEF Apart
  <2>1. Different(x, << >>) /\ Different(x, buffer[x])
    BY DifferentEmpty DEF WritersInv, Apart
  <2> QED BY <2>1, <1>5, <1>6, <1>7
<1>15. Unheard' /\ StoredOnce'
  BY <1>3, <1>8, <1>9 DEF WritersInv, Unheard, StoredOnce
<1>16. NothingVanishes'
  BY <1>3, <1>9, <1>10 DEF WritersInv, NothingVanishes
<1> QED BY <1>11, <1>12, <1>13, <1>14, <1>15, <1>16 DEF WritersInv

LEMMA FinishBundleKeeps ==
  ASSUME WritersInv, FinishBundle
  PROVE  WritersInv'
<1>1. buffer \in Containers /\ bundle \in Bundles /\ bundle.at \in Nat
      /\ bundle.at > 6 /\ bundle.keep \in Containers
  BY SectionFacts DEF WritersInv, Shape, Bundles, FinishBundle
<1>2. \A x \in SectionNames : bundle.todo[x] = << >>
  <2> SUFFICES ASSUME NEW x \in SectionNames PROVE bundle.todo[x] = << >>
    OBVIOUS
  <2>1. PICK k \in 1..6 : Sections[k] = x
    BY SectionFacts
  <2>2. k < bundle.at
    BY <1>1
  <2> QED BY <2>1, <2>2 DEF WritersInv, Progress
<1>3. /\ buffer' = buffer /\ next_array_id' = next_array_id /\ db' = db
      /\ twice' = twice
      /\ lost' = lost /\ unsure' = unsure /\ resent' = resent /\ expected' = expected
      /\ gone' = gone /\ samples' = samples /\ restarted' = restarted
  BY DEF FinishBundle, bufVars
<1> DEFINE next == [on |-> TRUE, at |-> 1, todo |-> bundle.keep, keep |-> Empty]
<1>4. bundle' = IF bundle.keep = Empty THEN NoBundle ELSE next
  BY DEF FinishBundle
<1>5. /\ bundle' \in Bundles /\ bundle'.todo = bundle.keep
      /\ bundle'.keep = Empty
      /\ IF bundle'.on THEN bundle'.at = 1 ELSE bundle' = NoBundle /\ bundle'.at = 0
  <2>1. CASE bundle.keep = Empty
    <3>1. bundle' = NoBundle
      BY <2>1, <1>4
    <3> QED BY <2>1, <3>1, EmptyBundle DEF NoBundle
  <2>2. CASE bundle.keep # Empty
    <3>1. bundle' = next
      BY <2>2, <1>4
    <3>2. next \in Bundles
      BY <1>1, EmptyContainer DEF Bundles
    <3> QED BY <3>1, <3>2
  <2> QED BY <2>1, <2>2
<1>6. \A x \in SectionNames : bundle'.keep[x] = << >>
  BY <1>5, EmptyContainer
<1>7. \A x \in SectionNames : RowsIn(x, bundle'.keep[x]) = {}
                              /\ RowsIn(x, bundle.todo[x]) = {}
  BY <1>2, <1>6, RowsInEmpty
<1>8. Buffered' = Buffered
  BY <1>3 DEF Buffered
<1>9. InBundle' = InBundle
  <2>1. InBundle' = RowsOfBundle(bundle')
    BY DEF InBundle, RowsOfBundle
  <2>2. \A e : e \in RowsOfBundle(bundle')
               <=> \E x \in SectionNames : e \in RowsIn(x, bundle.keep[x])
    BY <1>5, <1>7, BundleMember
  <2>3. \A e : e \in InBundle
               <=> \E x \in SectionNames : e \in RowsIn(x, bundle.keep[x])
    BY <1>1, <1>7, BundleMember, InBundleIs
  <2>4. \A e : e \in InBundle' <=> e \in InBundle
    BY <2>1, <2>2, <2>3
  <2> QED BY <2>4
<1>11. Shape'
  BY <1>1, <1>3, <1>5 DEF WritersInv, Shape, Bundles
<1>12. Progress'
  <2>1. \A k \in 1..6 : Sections[k] \in SectionNames /\ ~(k < 1) /\ ~(k < 0)
    BY SectionFacts
  <2>2. bundle'.at \in {0, 1}
    BY <1>5
  <2>3. IF bundle'.on THEN bundle'.at >= 1 ELSE bundle' = NoBundle
    BY <1>5
  <2> QED BY <2>1, <2>2, <2>3, <1>6 DEF Progress
<1>13. Known' /\ Identified'
  BY <1>3, <1>8, <1>9 DEF WritersInv, Known, Identified
<1>14. Apart'
  <2> SUFFICES ASSUME NEW x \in SectionNames
               PROVE  /\ Different(x, buffer[x])
                      /\ Different(x, bundle'.todo[x])
                      /\ Different(x, bundle'.keep[x])
                      /\ RowsIn(x, buffer[x]) \cap RowsIn(x, bundle'.todo[x]) = {}
                      /\ RowsIn(x, buffer[x]) \cap RowsIn(x, bundle'.keep[x]) = {}
    BY <1>3 DEF Apart
  <2>1. /\ Different(x, << >>) /\ Different(x, buffer[x])
        /\ Different(x, bundle.keep[x])
        /\ RowsIn(x, buffer[x]) \cap RowsIn(x, bundle.keep[x]) = {}
    BY DifferentEmpty DEF WritersInv, Apart
  <2> QED BY <2>1, <1>5, <1>6, <1>7
<1>15. Unheard' /\ StoredOnce'
  BY <1>3, <1>8, <1>9 DEF WritersInv, Unheard, StoredOnce
<1>16. NothingVanishes'
  BY <1>3, <1>8, <1>9 DEF WritersInv, NothingVanishes
<1> QED BY <1>11, <1>12, <1>13, <1>14, <1>15, <1>16 DEF WritersInv

\* Rows are dropped from memory: the process discards its buffers or dies.
LEMMA DroppedKeeps ==
  ASSUME WritersInv,
         buffer' = Empty, bundle' = bundle \/ bundle' = NoBundle,
         gone \subseteq gone', Buffered \subseteq gone',
         bundle' = bundle \/ InBundle \subseteq gone',
         next_array_id' \in Nat,
         (restarted' = restarted /\ next_array_id' = next_array_id) \/ restarted' = TRUE,
         UNCHANGED << db, twice, lost, unsure, resent, expected, samples >>
  PROVE  WritersInv'
<1>1. bundle \in Bundles /\ samples \in Nat /\ restarted \in BOOLEAN
  BY DEF WritersInv, Shape, Bundles
<1>2. /\ bundle' \in Bundles /\ buffer' \in Containers
      /\ \A x \in SectionNames : buffer'[x] = << >>
  BY <1>1, EmptyBundle, EmptyContainer
<1>3. \A x \in SectionNames : RowsIn(x, buffer'[x]) = {}
  BY <1>2, RowsInEmpty
<1>4. Buffered' = {}
  BY <1>3 DEF Buffered
<1>5. InBundle' = RowsOfBundle(bundle')
  BY DEF InBundle, RowsOfBundle
<1>6. InBundle' \subseteq InBundle
  BY <1>5, EmptyBundle, InBundleIs
<1>7. InBundle \subseteq InBundle' \cup gone'
  <2>1. CASE bundle' = bundle
    BY <2>1, <1>5, InBundleIs
  <2> QED BY <2>1
<1>8. Shape'
  BY <1>1, <1>2 DEF Shape, Bundles
<1>9. Progress'
  <2>1. CASE bundle' = bundle
    BY <2>1 DEF WritersInv, Progress
  <2>2. CASE bundle' = NoBundle
    <3>1. \A k \in 1..6 : Sections[k] \in SectionNames /\ ~(k < 0)
      BY SectionFacts
    <3>2. ~bundle'.on /\ bundle'.at = 0 /\ bundle'.keep = Empty
      BY <2>2 DEF NoBundle
    <3> QED BY <2>2, <3>1, <3>2, EmptyContainer DEF Progress
  <2> QED BY <2>1, <2>2
<1>10. Known'
  BY <1>4, <1>6 DEF WritersInv, Known
<1>11. Identified'
  BY DEF WritersInv, Identified
<1>12. Apart'
  <2> SUFFICES ASSUME NEW x \in SectionNames
               PROVE  /\ Different(x, buffer'[x])
                      /\ Different(x, bundle'.todo[x])
                      /\ Different(x, bundle'.keep[x])
                      /\ RowsIn(x, buffer'[x]) \cap RowsIn(x, bundle'.todo[x]) = {}
                      /\ RowsIn(x, buffer'[x]) \cap RowsIn(x, bundle'.keep[x]) = {}
    BY DEF Apart
  <2>1. Different(x, << >>)
    BY DifferentEmpty
  <2>2. CASE bundle' = bundle
    BY <2>1, <2>2, <1>2, <1>3 DEF WritersInv, Apart
  <2>3. CASE bundle' = NoBundle
    <3>1. bundle'.todo[x] = << >> /\ bundle'.keep[x] = << >>
      BY <2>3, EmptyContainer DEF NoBundle
    <3> QED BY <2>1, <3>1, <1>2, <1>3
  <2> QED BY <2>2, <2>3
<1>13. Unheard' /\ StoredOnce'
  BY <1>4, <1>6 DEF WritersInv, Unheard, StoredOnce
<1>14. NothingVanishes'
  BY <1>4, <1>7 DEF WritersInv, NothingVanishes
<1> QED BY <1>8, <1>9, <1>10, <1>11, <1>12, <1>13, <1>14 DEF WritersInv

LEMMA DiscardAllKeeps ==
  ASSUME WritersInv, DiscardAll
  PROVE  WritersInv'
<1>1. next_array_id \in Nat
  BY DEF WritersInv, Shape
<1> QED BY <1>1, DroppedKeeps DEF DiscardAll, flushVars

LEMMA RestartKeeps ==
  ASSUME WritersInv, Restart
  PROVE  WritersInv'
BY DroppedKeeps DEF Restart

LEMMA SameRowsKeeps ==
  ASSUME WritersInv,
         UNCHANGED << buffer, next_array_id, bundle, db, twice, lost, unsure,
                      resent, expected, gone, samples, restarted >>
  PROVE  WritersInv'
<1>1. Buffered' = Buffered /\ InBundle' = InBundle
  BY DEF Buffered, InBundle
<1>2. Shape' /\ Progress' /\ Identified' /\ Apart' /\ StoredOnce'
  BY DEF WritersInv, Shape, Progress, Identified, Apart, StoredOnce
<1>3. Known' /\ Unheard' /\ NothingVanishes'
  BY <1>1 DEF WritersInv, Known, Unheard, NothingVanishes
<1> QED BY <1>2, <1>3 DEF WritersInv

----------------------------------------------------------------------------
(* flush_all.                                                              *)

LEMMA UnitFacts ==
  ASSUME WritersInv
  PROVE  /\ \A u \in Units : /\ u.sec \in SectionNames
                             /\ u.rows \subseteq RowsIn(u.sec, buffer[u.sec])
         /\ \A sec \in SectionNames : \A e \in RowsIn(sec, buffer[sec]) :
              Readable(e[1]) => \E u \in Units : u.sec = sec /\ e \in u.rows
<1>1. buffer \in Containers
  BY DEF WritersInv, Shape
<1>2. ASSUME NEW sec \in SectionNames \ {"json"}
      PROVE  /\ \A u \in ChunkUnits(sec) :
                  u.sec = sec /\ u.rows \subseteq RowsIn(sec, buffer[sec])
             /\ \A e \in RowsIn(sec, buffer[sec]) :
                  \E u \in ChunkUnits(sec) : e \in u.rows
  <2> DEFINE rows == buffer[sec]
             size == ChunkSize(sec, Len(rows))
             chunks == ChunkNumbers(rows, size)
             T == RowsOf(sec)
             part(i) == RowsIn(sec, Chunk(rows, size, i))
             unit(i) == [sec |-> sec, k |-> i, conn |-> ConnOf(i), rows |-> part(i)]
  <2>1. rows \in Seq(T)
    BY <1>1, ContainerFacts
  <2>2. ChunkUnits(sec) = { unit(i) : i \in chunks }
    BY DEF ChunkUnits
  <2>3. rows = << >> => chunks = {} /\ RowsIn(sec, rows) = {}
    BY RowsInEmpty DEF ChunkNumbers
  <2>4. rows # << >> => size \in Nat \ {0} /\ chunks \subseteq Nat
    <3> SUFFICES ASSUME rows # << >>
                 PROVE  size \in Nat \ {0} /\ chunks \subseteq Nat
      OBVIOUS
    <3>1. Len(rows) \in Nat \ {0}
      BY <2>1
    <3> HIDE DEF rows, T
    <3>2. chunks \subseteq Nat
      BY <2>1, ChunksNatural
    <3> QED BY <3>1, <3>2, ChunkSizePositive
  <2> HIDE DEF rows, size, chunks, T
  <2>5. ASSUME NEW i \in chunks
        PROVE  part(i) = AtPositions(sec, rows, Positions(rows, size, {i}))
    <3>1. rows # << >>
      BY <2>3
    <3>2. size \in Nat \ {0} /\ i \in Nat
      BY <3>1, <2>4
    <3> QED BY <2>1, <3>2, ChunkRows DEF AtPositions
  <2>6. ASSUME NEW i \in chunks
        PROVE  part(i) \subseteq RowsIn(sec, rows)
    BY <2>5, RowsInMember DEF AtPositions, Positions
  <2>7. ASSUME NEW e \in RowsIn(sec, rows)
        PROVE  \E i \in chunks : e \in part(i)
    <3>1. PICK p \in DOMAIN rows : e \in CopyRowsOf(sec, rows[p])
      BY RowsInMember
    <3> DEFINE i == (p - 1) \div size
    <3>2. size \in Nat \ {0}
      BY <2>3, <2>4
    <3>3. i \in chunks
      BY <2>1, <3>2, ChunkOfRow DEF chunks
    <3>4. p \in Positions(rows, size, {i})
      BY DEF Positions
    <3> HIDE DEF i, part
    <3>5. e \in part(i)
      BY <3>1, <3>3, <3>4, <2>5 DEF AtPositions
    <3> QED BY <3>3, <3>5
  <2> HIDE DEF part
  <2>8. ASSUME NEW u \in ChunkUnits(sec)
        PROVE  u.sec = sec /\ u.rows \subseteq RowsIn(sec, rows)
    <3>1. PICK i \in chunks : u = unit(i)
      BY <2>2
    <3> QED BY <3>1, <2>6
  <2>9. ASSUME NEW e \in RowsIn(sec, rows)
        PROVE  \E u \in ChunkUnits(sec) : e \in u.rows
    <3>1. PICK i \in chunks : e \in part(i)
      BY <2>7
    <3>2. unit(i) \in ChunkUnits(sec) /\ unit(i).rows = part(i)
      BY <2>2
    <3> HIDE DEF unit
    <3> QED BY <3>1, <3>2
  <2> QED BY <2>8, <2>9 DEF rows
<1>3. /\ \A u \in JsonUnits :
           u.sec = "json" /\ u.rows \subseteq RowsIn("json", buffer["json"])
      /\ \A e \in RowsIn("json", buffer["json"]) :
           Readable(e[1]) => \E u \in JsonUnits : e \in u.rows
  <2> DEFINE rows == buffer["json"]
             el(t) == ElementsOf(rows, t)
             unit(i) == [sec |-> "json", k |-> i,
                         conn |-> ConnOf(IF i < 3 THEN 0 ELSE i - 2),
                         rows |-> el(JsonTables[i])]
  <2>1. JsonUnits = { u \in { unit(i) : i \in DOMAIN JsonTables } : u.rows # {} }
    BY DEF JsonUnits, ElementsOf
  <2>2. rows \in Seq(RowsOf("json"))
    BY <1>1, ContainerFacts, SectionFacts
  <2> HIDE DEF rows
  <2>3. /\ \A t : el(t) \subseteq RowsIn("json", rows)
        /\ \A p \in DOMAIN rows : \A e \in CopyRowsOf("json", rows[p]) :
              /\ rows[p].tab \in Range(JsonTables)
              /\ Readable(e[1]) => e \in el(rows[p].tab)
    BY <2>2, ElementsFacts
  <2> HIDE DEF el
  <2>4. ASSUME NEW u \in JsonUnits
        PROVE  u.sec = "json" /\ u.rows \subseteq RowsIn("json", rows)
    <3>1. PICK i \in DOMAIN JsonTables : u = unit(i)
      BY <2>1
    <3> QED BY <3>1, <2>3
  <2>5. ASSUME NEW e \in RowsIn("json", rows), Readable(e[1])
        PROVE  \E u \in JsonUnits : e \in u.rows
    <3>1. PICK p \in DOMAIN rows : e \in CopyRowsOf("json", rows[p])
      BY RowsInMember
    <3>2. rows[p].tab \in Range(JsonTables) /\ e \in el(rows[p].tab)
      BY <3>1, <2>3, <2>5
    <3>3. PICK i \in DOMAIN JsonTables : JsonTables[i] = rows[p].tab
      BY <3>2 DEF Range
    <3>4. unit(i).rows = el(rows[p].tab)
      BY <3>3
    <3>5. unit(i) \in JsonUnits
      BY <2>1, <3>2, <3>4
    <3> HIDE DEF unit
    <3> QED BY <3>2, <3>4, <3>5
  <2> QED BY <2>4, <2>5 DEF rows
<1>4. "json" \in SectionNames
  BY SectionFacts
<1>5. ASSUME NEW u \in Units
      PROVE  u.sec \in SectionNames /\ u.rows \subseteq RowsIn(u.sec, buffer[u.sec])
  <2>1. CASE u \in JsonUnits
    BY <2>1, <1>3, <1>4
  <2>2. CASE u \notin JsonUnits
    <3>1. PICK sec \in SectionNames \ {"json"} : u \in ChunkUnits(sec)
      BY <2>2 DEF Units
    <3> QED BY <3>1, <1>2
  <2> QED BY <2>1, <2>2
<1>6. ASSUME NEW sec \in SectionNames, NEW e \in RowsIn(sec, buffer[sec]),
             Readable(e[1])
      PROVE  \E u \in Units : u.sec = sec /\ e \in u.rows
  <2>1. CASE sec = "json"
    <3>1. PICK u \in JsonUnits : e \in u.rows
      BY <2>1, <1>3, <1>6
    <3> QED BY <2>1, <3>1, <1>3 DEF Units
  <2>2. CASE sec # "json"
    <3>1. PICK u \in ChunkUnits(sec) : e \in u.rows
      BY <2>2, <1>2
    <3>2. u.sec = sec /\ u \in Units
      BY <2>2, <3>1, <1>2 DEF Units
    <3> QED BY <3>1, <3>2
  <2> QED BY <2>1, <2>2
<1> QED BY <1>5, <1>6

LEMMA FlushAllKeeps ==
  ASSUME WritersInv, FlushAll
  PROVE  WritersInv'
<1> DEFINE clear(ok) == { sec \in SectionNames :
                            \A u \in Units : u.sec = sec => u \in ok }
<1>1. PICK ok \in SUBSET Units, unheard \in SUBSET Units :
        /\ Cleared(clear(ok))
        /\ Commit(UNION { u.rows : u \in ok \cup unheard })
        /\ unsure' = unsure \cup UNION { u.rows : u \in unheard }
        /\ resent' = resent \cup UNION { u.rows : u \in
             { v \in ok : \E w \in Units \ ok : w.sec = v.sec } }
  BY DEF FlushAll
<1> DEFINE C == UNION { u.rows : u \in ok \cup unheard }
           again == { v \in ok : \E w \in Units \ ok : w.sec = v.sec }
           U == UNION { u.rows : u \in unheard \cup again }
           done == clear(ok)
<1>2. /\ bundle' = bundle /\ next_array_id' = next_array_id /\ lost' = lost
      /\ expected' = expected /\ gone' = gone /\ samples' = samples
      /\ restarted' = restarted
      /\ db' = db \cup C /\ twice' = twice \cup (C \cap db)
      /\ unsure' \cup resent' = unsure \cup resent \cup U
  BY <1>1 DEF FlushAll, Commit
<1>3. buffer' = [sec \in SectionNames |-> IF sec \in done THEN << >>
                                          ELSE buffer[sec]]
  BY <1>1 DEF Cleared
<1>4. /\ \A u \in Units : /\ u.sec \in SectionNames
                          /\ u.rows \subseteq RowsIn(u.sec, buffer[u.sec])
      /\ \A sec \in SectionNames : \A e \in RowsIn(sec, buffer[sec]) :
           Readable(e[1]) => \E u \in Units : u.sec = sec /\ e \in u.rows
  BY UnitFacts
<1>5. \A sec \in SectionNames : \A u \in Units :
        sec \in done /\ u.sec = sec => u \in ok
  OBVIOUS
<1>6. \A sec \in SectionNames :
        sec \notin done => \E w \in Units \ ok : w.sec = sec
  OBVIOUS
<1> HIDE DEF done
<1>7. buffer \in Containers /\ bundle \in Bundles
  BY DEF WritersInv, Shape, Bundles
<1>8. \A x \in SectionNames : buffer'[x] = IF x \in done THEN << >> ELSE buffer[x]
  BY <1>3
<1>9. \A x \in SectionNames :
        RowsIn(x, buffer'[x]) = IF x \in done THEN {} ELSE RowsIn(x, buffer[x])
  BY <1>8, RowsInEmpty
<1>10. buffer' \in Containers
  <2>1. ASSUME NEW x \in SectionNames
        PROVE  buffer'[x] \in Seq(RowType) /\ buffer'[x] \in Seq(RowsOf(x))
    <3>1. /\ buffer[x] \in Seq(RowType) /\ buffer[x] \in Seq(RowsOf(x))
          /\ << >> \in Seq(RowType) /\ << >> \in Seq(RowsOf(x))
      BY <1>7, ContainerFacts
    <3> QED BY <3>1, <1>8
  <2>2. buffer' \in [SectionNames -> Seq(RowType)]
    BY <2>1, <1>3
  <2> QED BY <2>1, <2>2 DEF Containers
<1>11. ASSUME NEW e
       PROVE  e \in Buffered' <=> \E x \in SectionNames :
                                     e \in RowsIn(x, buffer'[x])
  BY DEF Buffered
<1>12. Buffered' \subseteq Buffered
  BY <1>9, <1>11, BufferedMember
<1>13. InBundle' = InBundle
  BY <1>2 DEF InBundle
<1>14. C \subseteq Buffered
  <2> SUFFICES ASSUME NEW e \in C PROVE e \in Buffered
    OBVIOUS
  <2>1. PICK u \in Units : e \in u.rows
    OBVIOUS
  <2> QED BY <2>1, <1>4, BufferedMember
<1>15. Buffered \cap InBundle = {}
  <2> SUFFICES ASSUME NEW e \in Buffered, e \in InBundle PROVE FALSE
    OBVIOUS
  <2>1. PICK x \in SectionNames : e \in RowsIn(x, buffer[x])
    BY BufferedMember
  <2>2. PICK y \in SectionNames : \/ e \in RowsIn(y, bundle.todo[y])
                                  \/ e \in RowsIn(y, bundle.keep[y])
    BY <1>7, BundleMember, InBundleIs
  <2>3. CASE x = y
    BY <2>1, <2>2, <2>3 DEF WritersInv, Apart
  <2>4. CASE x # y
    <3>1. bundle.todo \in Containers /\ bundle.keep \in Containers
      BY <1>7 DEF Bundles
    <3>2. /\ buffer[x] \in Seq(RowsOf(x)) /\ bundle.todo[y] \in Seq(RowsOf(y))
          /\ bundle.keep[y] \in Seq(RowsOf(y))
      BY <3>1, <1>7, ContainerFacts
    <3> QED BY <2>1, <2>2, <2>4, <3>2, SectionsApart
  <2> QED BY <2>3, <2>4
<1>16. Buffered' \cap C \subseteq U
  <2> SUFFICES ASSUME NEW e \in C, e \in Buffered' PROVE e \in U
    OBVIOUS
  <2>1. PICK u \in ok \cup unheard : e \in u.rows
    OBVIOUS
  <2>2. PICK x \in SectionNames : e \in RowsIn(x, buffer'[x])
    BY <1>11
  <2>3. x \notin done /\ e \in RowsIn(x, buffer[x])
    BY <2>2, <1>9
  <2>4. u.sec = x
    <3>1. u.sec \in SectionNames /\ e \in RowsIn(u.sec, buffer[u.sec])
      BY <2>1, <1>4
    <3>2. buffer[x] \in Seq(RowsOf(x)) /\ buffer[u.sec] \in Seq(RowsOf(u.sec))
      BY <3>1, <1>7, ContainerFacts
    <3> QED BY <2>3, <3>1, <3>2, SectionsApart
  <2>5. CASE u \in unheard
    BY <2>1, <2>5
  <2>6. CASE u \in ok
    <3>1. u \in again
      BY <2>3, <2>4, <2>6, <1>6
    <3> QED BY <2>1, <3>1
  <2> QED BY <2>5, <2>6
<1>17. ASSUME NEW e \in Buffered, Readable(e[1])
       PROVE  e \in Buffered' \cup C
  <2>1. PICK x \in SectionNames : e \in RowsIn(x, buffer[x])
    BY BufferedMember
  <2>2. CASE x \notin done
    BY <2>1, <2>2, <1>9, <1>11
  <2>3. CASE x \in done
    <3>1. PICK u \in Units : u.sec = x /\ e \in u.rows
      BY <2>1, <1>4, <1>17
    <3>2. u \in ok
      BY <2>3, <3>1, <1>5
    <3> QED BY <3>1, <3>2
  <2> QED BY <2>2, <2>3
<1> HIDE DEF C, U
<1>18. Shape'
  BY <1>2, <1>10 DEF WritersInv, Shape
<1>19. Progress' /\ Identified'
  BY <1>2 DEF WritersInv, Progress, Identified
<1>20. Known'
  <2>1. Buffered \cup InBundle \cup db \subseteq expected
    BY DEF WritersInv, Known
  <2>2. Buffered' \cup InBundle' \cup db' \subseteq expected'
    BY <2>1, <1>2, <1>12, <1>13, <1>14
  <2> QED BY <2>2, <1>2 DEF WritersInv, Known
<1>21. Apart'
  <2> SUFFICES ASSUME NEW x \in SectionNames
               PROVE  /\ Different(x, buffer'[x])
                      /\ Different(x, bundle.todo[x])
                      /\ Different(x, bundle.keep[x])
                      /\ RowsIn(x, buffer'[x]) \cap RowsIn(x, bundle.todo[x]) = {}
                      /\ RowsIn(x, buffer'[x]) \cap RowsIn(x, bundle.keep[x]) = {}
    BY <1>2 DEF Apart
  <2>1. /\ Different(x, buffer[x]) /\ Different(x, << >>)
        /\ Different(x, bundle.todo[x])
        /\ Different(x, bundle.keep[x])
        /\ RowsIn(x, buffer[x]) \cap RowsIn(x, bundle.todo[x]) = {}
        /\ RowsIn(x, buffer[x]) \cap RowsIn(x, bundle.keep[x]) = {}
    BY DifferentEmpty DEF WritersInv, Apart
  <2>2. CASE x \in done
    BY <2>1, <2>2, <1>8, <1>9
  <2>3. CASE x \notin done
    BY <2>1, <2>3, <1>8, <1>9
  <2> QED BY <2>2, <2>3
<1>22. Unheard'
  <2>1. (Buffered \cup InBundle) \cap db \subseteq unsure \cup resent
    BY DEF WritersInv, Unheard
  <2>2. (Buffered' \cup InBundle') \cap db' \subseteq unsure' \cup resent'
    BY <2>1, <1>2, <1>12, <1>13, <1>14, <1>15, <1>16
  <2> QED BY <2>2 DEF Unheard
<1>23. StoredOnce'
  <2>1. /\ (Buffered \cup InBundle) \cap db \subseteq unsure \cup resent
        /\ twice \subseteq unsure \cup resent
    BY DEF WritersInv, Unheard, StoredOnce
  <2> QED BY <2>1, <1>2, <1>14 DEF StoredOnce
<1>24. NothingVanishes'
  <2> SUFFICES ASSUME NEW e \in expected, Readable(e[1])
               PROVE  e \in Buffered' \cup InBundle' \cup db' \cup lost' \cup gone'
    BY <1>2 DEF NothingVanishes, Readable
  <2>1. e \in Buffered \cup InBundle \cup db \cup lost \cup gone
    BY DEF WritersInv, NothingVanishes
  <2> QED BY <2>1, <1>2, <1>13, <1>17
<1> QED BY <1>18, <1>19, <1>20, <1>21, <1>22, <1>23, <1>24 DEF WritersInv

----------------------------------------------------------------------------
(* The theorems.                                                           *)

LEMMA InitHolds == Init => WritersInv
<1> SUFFICES ASSUME Init PROVE WritersInv
  OBVIOUS
<1> USE DEF Init
<1>1. \A x \in SectionNames : buffer[x] = << >> /\ bundle.todo[x] = << >>
                              /\ bundle.keep[x] = << >>
  BY EmptyContainer DEF NoBundle
<1>2. \A x \in SectionNames : RowsIn(x, buffer[x]) = {}
  BY <1>1, RowsInEmpty
<1>3. Buffered = {} /\ InBundle = {}
  BY <1>2, EmptyBundle, InBundleIs DEF Buffered
<1>4. Shape
  BY EmptyContainer, EmptyBundle DEF Shape, Bundles
<1>5. Progress
  <2>1. \A k \in 1..6 : Sections[k] \in SectionNames /\ ~(k < 0)
    BY SectionFacts
  <2>2. ~bundle.on /\ bundle.at = 0
    BY DEF NoBundle
  <2> QED BY <2>1, <2>2, <1>1 DEF Progress
<1>6. Apart
  BY <1>1, <1>2, DifferentEmpty DEF Apart
<1>7. Known /\ Identified /\ Unheard /\ NothingVanishes /\ StoredOnce
  BY <1>3 DEF Known, Identified, Unheard, NothingVanishes, StoredOnce
<1> QED BY <1>4, <1>5, <1>6, <1>7 DEF WritersInv

LEMMA NextKeeps == WritersInv /\ [Next]_vars => WritersInv'
<1> SUFFICES ASSUME WritersInv, [Next]_vars PROVE WritersInv'
  OBVIOUS
<1>1. CASE \E u \in Updates : Dispatch(u)
  BY <1>1, DispatchKeeps
<1>2. CASE \E k \in 1..2 : IngestScalars(k)
  BY <1>2, IngestScalarsKeeps
<1>3. CASE \E u \in Updates : IngestOther(u)
  BY <1>3, IngestOtherKeeps
<1>4. CASE DiscardAll
  BY <1>4, DiscardAllKeeps
<1>5. CASE TakeBundle
  BY <1>5, TakeBundleKeeps
<1>6. CASE FlushSection
  BY <1>6, FlushSectionKeeps
<1>7. CASE FlushJson
  BY <1>7, FlushJsonKeeps
<1>8. CASE FinishBundle
  BY <1>8, FinishBundleKeeps
<1>9. CASE \E D \in SUBSET (0..(Conns - 1)) : ConnectionsClose(D)
  BY <1>9, SameRowsKeeps DEF ConnectionsClose, bufVars
<1>10. CASE Heal
  BY <1>10, SameRowsKeeps DEF Heal, bufVars
<1>11. CASE FlushAll
  BY <1>11, FlushAllKeeps
<1>12. CASE Restart
  BY <1>12, RestartKeeps
<1>13. CASE UNCHANGED vars
  BY <1>13, SameRowsKeeps DEF vars, bufVars, flushVars
<1> QED BY <1>1, <1>2, <1>3, <1>4, <1>5, <1>6, <1>7, <1>8, <1>9, <1>10, <1>11,
           <1>12, <1>13 DEF Next

\* The writers keep the inductive invariant.
THEOREM WritersInvariant == Spec => []WritersInv
BY InitHolds, NextKeeps, PTL DEF Spec

\* No accepted row vanishes: what flush_section kept, sent and lost is all it
\* was given, whatever the number of rows, connections and failures, and a
\* writer's own flush clears only what it has sent.
THEOREM WritersNothingVanishes == Spec => []NothingVanishes
<1>1. WritersInv => NothingVanishes
  BY DEF WritersInv
<1> QED BY <1>1, WritersInvariant, PTL

\* A retry sends no chunk again that is known to be stored: a row is in its
\* table twice only after a commit the client never heard of, or a flush_all
\* of which another COPY of the same writer had failed.
THEOREM WritersStoredOnce == Spec => []StoredOnce
<1>1. WritersInv => StoredOnce
  BY DEF WritersInv
<1> QED BY <1>1, WritersInvariant, PTL

\* As long as the process runs, an array_id in a table is that of one capture,
\* however its rows were cut into chunks, retried and stored.
THEOREM WritersArrayIdIdentifiesCapture == Spec => []ArrayIdIdentifiesCapture
<1>1. WritersInv => ArrayIdIdentifiesCapture
  <2> SUFFICES ASSUME WritersInv, ~restarted, NEW e \in db, NEW f \in db,
                      e[1] = f[1], e[1] \in ArrayTables, e[4] = f[4]
               PROVE  e[2] = f[2]
    BY DEF ArrayIdIdentifiesCapture
  <2>1. e \in expected /\ f \in expected
    BY DEF WritersInv, Known
  <2> QED BY <2>1 DEF WritersInv, Identified
<1> QED BY <1>1, WritersInvariant, PTL

----------------------------------------------------------------------------
(* Types and ranges.                                                       *)

Ranged == { r \in RowType : r.s \in 1..MaxSamples /\ r.i \in 0..r.n }

\* The counter has drawn an id for some of the updates; no more failures than
\* were allowed.
RangeInv ==
  /\ buffer \in [SectionNames -> Seq(Ranged)]
  /\ current_bytes \in [WriterNames -> Nat]
  /\ alive \in [0..(Conns - 1) -> BOOLEAN]
  /\ samples \in 0..MaxSamples /\ next_array_id \in 1..(samples + 1)
  /\ faults \in 0..MaxFaults

LEMMA RangeInvTypes == RangeInv => TypeOK
<1> SUFFICES ASSUME RangeInv PROVE TypeOK
  OBVIOUS
<1>1. ASSUME NEW sec \in SectionNames, NEW r \in Range(buffer[sec])
      PROVE  r.s \in 1..MaxSamples /\ r.i \in 0..r.n
  <2>1. buffer[sec] \in Seq(Ranged)
    BY DEF RangeInv
  <2>2. PICK p \in DOMAIN buffer[sec] : r = buffer[sec][p]
    BY DEF Range
  <2>3. r \in Ranged
    BY <2>1, <2>2
  <2> QED BY <2>3 DEF Ranged
<1>2. MaxSamples \in Nat
  BY WritersAssumption
<1> QED BY <1>1, <1>2 DEF RangeInv, TypeOK

LEMMA FiniteImage ==
  ASSUME NEW S, IsFiniteSet(S), NEW f, DOMAIN f = S, f = [x \in S |-> f[x]]
  PROVE  IsFiniteSet({ f[x] : x \in S })
<1> DEFINE T == { f[x] : x \in S }
<1>1. f \in [S -> T]
  OBVIOUS
<1>2. \A t \in T : \E x \in S : f[x] = t
  OBVIOUS
<1> HIDE DEF T
<1>3. f \in Surjection(S, T)
  BY <1>1, <1>2 DEF Surjection
<1>4. IsFiniteSet(T)
  BY <1>3, FS_Surjection
<1> QED BY <1>4 DEF T

LEMMA ChunksFinite ==
  ASSUME NEW sec, NEW T, NEW rows \in Seq(T)
  PROVE  IsFiniteSet(ChunkNumbers(rows, ChunkSize(sec, Len(rows))))
<1> DEFINE size == ChunkSize(sec, Len(rows))
           b == Len(rows) + size - 1
<1>1. CASE rows = << >>
  BY <1>1, FS_EmptySet DEF ChunkNumbers
<1>2. CASE rows # << >>
  <2>1. Len(rows) \in Nat \ {0}
    BY <1>2
  <2>2. size \in Nat \ {0}
    BY <2>1, ChunkSizePositive
  <2> HIDE DEF size
  <2>3. b \in Nat
    BY <2>1, <2>2
  <2> HIDE DEF b
  <2>4. b \div size \in Nat
    BY <2>2, <2>3, DivFacts
  <2>5. 0 \in Int /\ b \div size - 1 \in Int
    BY <2>4
  <2>6. IsFiniteSet(0..(b \div size - 1))
    BY <2>5, FS_Interval
  <2>7. ChunkNumbers(rows, size) = 0..(b \div size - 1)
    BY <1>2 DEF ChunkNumbers, b
  <2> QED BY <2>6, <2>7 DEF size
<1> QED BY <1>1, <1>2

\* There are finitely many COPYs, so their failures can be counted.
LEMMA UnitsFinite ==
  ASSUME buffer \in [SectionNames -> Seq(Ranged)]
  PROVE  IsFiniteSet(Units)
<1>1. ASSUME NEW sec \in SectionNames
      PROVE  IsFiniteSet(ChunkUnits(sec))
  <2> DEFINE size == ChunkSize(sec, Len(buffer[sec]))
             S == ChunkNumbers(buffer[sec], size)
             f == [i \in S |-> [sec |-> sec, k |-> i, conn |-> ConnOf(i),
                                rows |-> RowsIn(sec, Chunk(buffer[sec], size, i))]]
  <2>1. buffer[sec] \in Seq(Ranged)
    OBVIOUS
  <2>2. IsFiniteSet(S)
    BY <2>1, ChunksFinite
  <2>3. ChunkUnits(sec) = { f[i] : i \in S }
    BY DEF ChunkUnits
  <2>4. DOMAIN f = S /\ f = [i \in S |-> f[i]]
    OBVIOUS
  <2> HIDE DEF f, S
  <2> QED BY <2>2, <2>3, <2>4, FiniteImage
<1>2. IsFiniteSet(JsonUnits)
  <2> DEFINE elements(t) == UNION { JsonElements(r) :
                              r \in { x \in Range(buffer["json"]) : x.tab = t } }
             f == [i \in 1..6 |-> [sec |-> "json", k |-> i,
                                   conn |-> ConnOf(IF i < 3 THEN 0 ELSE i - 2),
                                   rows |-> elements(JsonTables[i])]]
             all == { f[i] : i \in 1..6 }
  <2>1. DOMAIN JsonTables = 1..6
    BY DEF JsonTables
  <2>2. JsonUnits \subseteq all
    BY <2>1 DEF JsonUnits
  <2>3. DOMAIN f = 1..6 /\ f = [i \in 1..6 |-> f[i]]
    OBVIOUS
  <2> HIDE DEF f
  <2>4. IsFiniteSet(1..6)
    <3>1. PICK m \in Int, n \in Int : m = 1 /\ n = 6
      OBVIOUS
    <3>2. IsFiniteSet(m..n)
      BY FS_Interval
    <3> QED BY <3>1, <3>2
  <2>5. IsFiniteSet(all)
    BY <2>3, <2>4, FiniteImage
  <2> QED BY <2>2, <2>5, FS_Subset
<1>3. Units = JsonUnits \cup (ChunkUnits("scalar") \cup (ChunkUnits("string")
                \cup (ChunkUnits("array_num") \cup (ChunkUnits("array_str")
                \cup ChunkUnits("image")))))
  <2>1. SectionNames \ {"json"} =
          { "scalar", "string", "array_num", "array_str", "image" }
    BY SectionFacts
  <2> QED BY <2>1 DEF Units
<1>4. \A a, b : IsFiniteSet(a) /\ IsFiniteSet(b) => IsFiniteSet(a \cup b)
  BY FS_Union
<1>5. \A sec \in { "scalar", "string", "array_num", "array_str", "image" } :
        IsFiniteSet(ChunkUnits(sec))
  BY <1>1, SectionFacts
<1>6. IsFiniteSet(ChunkUnits("array_str") \cup ChunkUnits("image"))
  BY <1>4, <1>5
<1>7. IsFiniteSet(ChunkUnits("array_num") \cup (ChunkUnits("array_str")
                \cup ChunkUnits("image")))
  BY <1>4, <1>5, <1>6
<1>8. IsFiniteSet(ChunkUnits("string")
                \cup (ChunkUnits("array_num") \cup (ChunkUnits("array_str")
                \cup ChunkUnits("image"))))
  BY <1>4, <1>5, <1>7
<1>9. IsFiniteSet(ChunkUnits("scalar") \cup (ChunkUnits("string")
                \cup (ChunkUnits("array_num") \cup (ChunkUnits("array_str")
                \cup ChunkUnits("image")))))
  BY <1>4, <1>5, <1>8
<1> QED BY <1>2, <1>3, <1>4, <1>9

\* Counted failures stay within the bound.
LEMMA FaultsBounded ==
  ASSUME RangeInv, NEW S, IsFiniteSet(S), NEW F, F \subseteq S,
         faults + Cardinality(F) <= MaxFaults
  PROVE  faults + Cardinality(F) \in 0..MaxFaults
<1>1. IsFiniteSet(F)
  BY FS_Subset
<1>2. Cardinality(F) \in Nat
  BY <1>1, FS_CardinalityType
<1>3. MaxFaults \in Nat /\ faults \in Nat
  BY WritersAssumption DEF RangeInv
<1> HIDE DEF RangeInv
<1> QED BY <1>2, <1>3

\* The rows of an update that is taken.
LEMMA RowRanged ==
  ASSUME RangeInv, NEW s \in 1..MaxSamples, NEW i \in Nat, NEW a \in Nat,
         NEW tab \in AllTables, NEW n \in Nat, i <= n
  PROVE  Row(s, i, a, tab, n) \in Ranged
<1>1. s \in Nat /\ i \in 0..n
  BY WritersAssumption
<1> QED BY <1>1 DEF Row, Ranged, RowType

\* A writer that takes rows of the update, or none.
LEMMA PushRanged ==
  ASSUME RangeInv, NEW sec \in SectionNames, NEW more \in Seq(Ranged),
         buffer' = [buffer EXCEPT ![sec] = @ \o more]
  PROVE  buffer' \in [SectionNames -> Seq(Ranged)]
<1>1. buffer \in [SectionNames -> Seq(Ranged)]
  BY DEF RangeInv
<1>2. buffer[sec] \o more \in Seq(Ranged)
  BY <1>1
<1> QED BY <1>1, <1>2

LEMMA AppendRanged ==
  ASSUME RangeInv, NEW sec \in SectionNames, NEW r \in Ranged,
         buffer' = [buffer EXCEPT ![sec] = Append(@, r)]
  PROVE  buffer' \in [SectionNames -> Seq(Ranged)]
<1>1. buffer \in [SectionNames -> Seq(Ranged)]
  BY DEF RangeInv
<1>2. Append(buffer[sec], r) \in Seq(Ranged)
  BY <1>1
<1> QED BY <1>1, <1>2

\* What the pushes keep.
PushKept ==
  /\ buffer' \in [SectionNames -> Seq(Ranged)]
  /\ current_bytes' \in [WriterNames -> Nat]
  /\ next_array_id' \in 1..(samples + 2)

LEMMA SamplesFacts ==
  ASSUME RangeInv, samples < MaxSamples
  PROVE  /\ samples + 1 \in 1..MaxSamples
         /\ next_array_id \in Nat /\ next_array_id \in 1..(samples + 2)
         /\ next_array_id + 1 \in 1..(samples + 2)
<1>1. /\ MaxSamples \in Nat /\ samples \in 0..MaxSamples
      /\ next_array_id \in 1..(samples + 1)
  BY WritersAssumption DEF RangeInv
<1> QED BY <1>1

LEMMA NoPush ==
  ASSUME RangeInv, samples < MaxSamples, UNCHANGED bufVars
  PROVE  PushKept
BY SamplesFacts DEF PushKept, RangeInv, bufVars

LEMMA ScalarPushRanged ==
  ASSUME RangeInv, samples < MaxSamples, ScalarPush(samples + 1),
         UNCHANGED << current_bytes, next_array_id >>
  PROVE  PushKept
<1> DEFINE r == Row(samples + 1, 0, 0, "samples", 1)
<1>1. r \in Ranged
  BY SamplesFacts, RowRanged DEF AllTables
<1> HIDE DEF r
<1>2. buffer' = buffer \/ buffer' = [buffer EXCEPT !["scalar"] = Append(@, r)]
  BY DEF ScalarPush, r
<1>3. "scalar" \in SectionNames
  BY SectionFacts
<1>4. buffer' \in [SectionNames -> Seq(Ranged)]
  BY <1>1, <1>2, <1>3, AppendRanged DEF RangeInv
<1> QED BY <1>4, SamplesFacts DEF PushKept, RangeInv

LEMMA PushSizedRanged ==
  ASSUME RangeInv, samples < MaxSamples, NEW w \in { "string", "json", "image" },
         NEW tab \in AllTables, NEW n \in Nat, NEW size \in Nat,
         PushSized(w, Row(samples + 1, 0, 0, tab, n), size),
         next_array_id' = next_array_id
  PROVE  PushKept
<1> DEFINE r == Row(samples + 1, 0, 0, tab, n)
<1>1. r \in Ranged
  BY SamplesFacts, RowRanged
<1> HIDE DEF r
<1>2. \/ UNCHANGED << buffer, current_bytes >>
      \/ /\ buffer' = [buffer EXCEPT ![w] = Append(@, r)]
         /\ current_bytes' = [current_bytes EXCEPT ![w] = @ + size]
  BY DEF PushSized, r
<1>3. w \in SectionNames /\ w \in WriterNames
  BY SectionFacts DEF WriterNames
<1>4. buffer' \in [SectionNames -> Seq(Ranged)]
  BY <1>1, <1>2, <1>3, AppendRanged DEF RangeInv
<1>5. current_bytes' \in [WriterNames -> Nat]
  <2>1. current_bytes \in [WriterNames -> Nat]
    BY DEF RangeInv
  <2>2. current_bytes[w] + size \in Nat
    BY <2>1, <1>3
  <2> QED BY <1>2, <2>1, <2>2
<1> QED BY <1>4, <1>5, SamplesFacts DEF PushKept

LEMMA ArrayPushRanged ==
  ASSUME RangeInv, samples < MaxSamples, NEW tab \in ArrayTables, NEW n \in Nat,
         ArrayPush(samples + 1, tab, n)
  PROVE  PushKept
<1> DEFINE sec == IF tab = "samples_array_num" THEN "array_num" ELSE "array_str"
           more == [k \in 1..n |-> Row(samples + 1, k - 1, next_array_id, tab, n)]
<1>1. more \in Seq(Ranged)
  <2>1. tab \in AllTables
    BY DEF AllTables
  <2>2. ASSUME NEW k \in 1..n
        PROVE  Row(samples + 1, k - 1, next_array_id, tab, n) \in Ranged
    <3>1. k - 1 \in Nat /\ k - 1 <= n
      OBVIOUS
    <3> QED BY <2>1, <3>1, SamplesFacts, RowRanged
  <2>3. more \in [1..n -> Ranged]
    BY <2>2
  <2> QED BY <2>3
<1>2. sec \in SectionNames /\ "array" \in WriterNames
  BY SectionFacts DEF WriterNames
<1>3. \/ UNCHANGED bufVars
      \/ /\ buffer' = [buffer EXCEPT ![sec] = @ \o more]
         /\ current_bytes' = [current_bytes EXCEPT !["array"] = @ + n]
         /\ next_array_id' = next_array_id + 1
  BY DEF ArrayPush
<1> HIDE DEF sec, more
<1>4. CASE UNCHANGED bufVars
  BY <1>4, NoPush
<1>5. CASE /\ buffer' = [buffer EXCEPT ![sec] = @ \o more]
           /\ current_bytes' = [current_bytes EXCEPT !["array"] = @ + n]
           /\ next_array_id' = next_array_id + 1
  <2>1. buffer' \in [SectionNames -> Seq(Ranged)]
    BY <1>1, <1>2, <1>5, PushRanged
  <2>2. current_bytes \in [WriterNames -> Nat]
    BY DEF RangeInv
  <2>3. current_bytes["array"] + n \in Nat
    BY <2>2, <1>2
  <2>4. current_bytes' \in [WriterNames -> Nat]
    BY <1>5, <2>2, <2>3
  <2> QED BY <1>5, <2>1, <2>4, SamplesFacts DEF PushKept
<1> QED BY <1>3, <1>4, <1>5

LEMMA PushedRange ==
  ASSUME RangeInv, samples < MaxSamples, PushKept, samples' = samples + 1,
         faults' = faults, alive' = alive
  PROVE  RangeInv'
<1>1. MaxSamples \in Nat /\ samples \in 0..MaxSamples
  BY WritersAssumption DEF RangeInv
<1>2. samples' \in 0..MaxSamples /\ samples' + 1 = samples + 2
  BY <1>1
<1> QED BY <1>2 DEF RangeInv, PushKept

LEMMA TableKnown ==
  ASSUME NEW nt \in NormativeTypes
  PROVE  TableOf(nt) \in AllTables
BY TableFacts DEF AllTables, TablesOf

LEMMA DispatchRange ==
  ASSUME RangeInv, NEW u \in Updates, Dispatch(u)
  PROVE  RangeInv'
<1>1. u.nt \in NormativeTypes /\ u.n \in Nat
  BY WritersAssumption
<1>2. samples < MaxSamples /\ samples' = samples + 1 /\ alive' = alive
  BY DEF Dispatch, flushVars
<1>3. CASE faults < MaxFaults /\ faults' = faults + 1 /\ UNCHANGED bufVars
  <2>1. MaxFaults \in Nat /\ MaxSamples \in Nat
    BY WritersAssumption
  <2>2. samples' \in 0..MaxSamples /\ faults' \in 0..MaxFaults
    BY <1>2, <1>3, <2>1 DEF RangeInv
  <2>3. next_array_id' \in 1..(samples' + 1)
    BY <1>2, <1>3 DEF RangeInv, bufVars
  <2> QED BY <1>2, <1>3, <2>2, <2>3 DEF RangeInv, bufVars
<1>4. CASE DispatchWithId(samples + 1, u) /\ UNCHANGED faults
  <2>1. PushKept
    <3>1. CASE u.nt \in {"NTScalar", "NTScalar.string", "NTEnum", "NTAggregate"}
      <4>1. ScalarPush(samples + 1) /\ UNCHANGED << current_bytes, next_array_id >>
        BY <1>4, <3>1 DEF DispatchWithId
      <4> QED BY <1>2, <4>1, ScalarPushRanged
    <3>2. CASE u.nt \in {"NTScalarArray", "NTMatrix"}
      <4>1. ArrayPush(samples + 1, TableOf(u.nt), u.n)
        BY <1>4, <3>2 DEF DispatchWithId
      <4>2. TableOf(u.nt) \in ArrayTables
        BY <1>1, <3>2, TableFacts DEF ArrayTables
      <4> QED BY <1>1, <1>2, <4>1, <4>2, ArrayPushRanged
    <3>3. CASE u.nt = "NTScalarArray.string"
      <4>1. UNCHANGED bufVars
        BY <1>4, <3>3 DEF DispatchWithId
      <4> QED BY <1>2, <4>1, NoPush
    <3>4. CASE u.nt = "NTNDArray"
      <4> DEFINE m == IF u.n > 1 THEN u.n ELSE 0
      <4>1. ImagePush(samples + 1, m) /\ next_array_id' = next_array_id
        BY <1>4, <3>4 DEF DispatchWithId, FromUpdate
      <4>2. m \in Nat /\ m + 1 \in Nat
        BY <1>1
      <4> HIDE DEF m
      <4>3. PushSized("image", Row(samples + 1, 0, 0, "samples_image", m), m + 1)
        BY <4>1 DEF ImagePush
      <4>4. "samples_image" \in AllTables
        BY DEF AllTables
      <4> QED BY <1>2, <4>1, <4>2, <4>3, <4>4, PushSizedRanged
    <3>5. CASE u.nt \in { "NTTable", "NTUnion", "Custom", "NTHistogram",
                          "NTContinuum", "NTNameValue", "NTMultiChannel" }
      <4>1. JsonPush(samples + 1, TableOf(u.nt), u.n)
            /\ next_array_id' = next_array_id
        BY <1>4, <3>5 DEF DispatchWithId
      <4>2. PushSized("json", Row(samples + 1, 0, 0, TableOf(u.nt), u.n), 1)
        BY <4>1 DEF JsonPush
      <4> QED BY <1>1, <1>2, <4>1, <4>2, TableKnown, PushSizedRanged
    <3> QED BY <3>1, <3>2, <3>3, <3>4, <3>5, <1>1 DEF NormativeTypes
  <2> QED BY <1>2, <1>4, <2>1, PushedRange
<1> QED BY <1>3, <1>4 DEF Dispatch

LEMMA IngestOtherRange ==
  ASSUME RangeInv, NEW u \in Updates, IngestOther(u)
  PROVE  RangeInv'
<1> DEFINE tab == TableOf(u.nt)
<1>1. u.nt \in NormativeTypes /\ u.n \in Nat /\ u.n + 1 \in Nat /\ tab \in AllTables
  BY WritersAssumption, TableKnown
<1>2. /\ samples < MaxSamples /\ samples' = samples + 1 /\ alive' = alive
      /\ faults' = faults
  BY DEF IngestOther, restUnchanged, flushVars
<1>3. PushKept
  <2>1. CASE tab = "samples_string"
    <3>1. StringPush(samples + 1, u.n) /\ next_array_id' = next_array_id
      BY <2>1 DEF IngestOther, ArrayTables
    <3>2. PushSized("string", Row(samples + 1, 0, 0, "samples_string", u.n), 1)
      BY <3>1 DEF StringPush
    <3> QED BY <1>1, <1>2, <2>1, <3>1, <3>2, PushSizedRanged
  <2>2. CASE tab \in ArrayTables
    <3>1. ArrayPush(samples + 1, tab, u.n)
      BY <2>2 DEF IngestOther, ArrayTables
    <3> QED BY <1>1, <1>2, <2>2, <3>1, ArrayPushRanged
  <2>3. CASE tab = "samples_image"
    <3>1. ImagePush(samples + 1, u.n) /\ next_array_id' = next_array_id
      BY <2>3 DEF IngestOther, ArrayTables
    <3>2. PushSized("image", Row(samples + 1, 0, 0, "samples_image", u.n), u.n + 1)
      BY <3>1 DEF ImagePush
    <3> QED BY <1>1, <1>2, <2>3, <3>1, <3>2, PushSizedRanged
  <2>4. CASE tab \notin { "samples_string", "samples_image" } \cup ArrayTables
    <3>1. JsonPush(samples + 1, tab, u.n) /\ next_array_id' = next_array_id
      BY <2>4 DEF IngestOther
    <3>2. PushSized("json", Row(samples + 1, 0, 0, tab, u.n), 1)
      BY <3>1 DEF JsonPush
    <3> HIDE DEF tab
    <3> QED BY <1>1, <1>2, <3>1, <3>2, PushSizedRanged
  <2> QED BY <2>1, <2>2, <2>3, <2>4
<1> QED BY <1>2, <1>3, PushedRange

LEMMA IngestScalarsRange ==
  ASSUME RangeInv, NEW k \in 1..2, IngestScalars(k)
  PROVE  RangeInv'
<1> DEFINE more == [i \in 1..k |-> Row(samples + i, 0, 0, "samples", 1)]
<1>1. /\ MaxSamples \in Nat /\ samples \in 0..MaxSamples /\ k \in Nat
      /\ samples + k <= MaxSamples /\ samples' = samples + k
      /\ next_array_id' = next_array_id /\ next_array_id \in 1..(samples + 1)
  BY WritersAssumption DEF RangeInv, IngestScalars
<1>2. more \in Seq(Ranged)
  <2>1. ASSUME NEW i \in 1..k
        PROVE  Row(samples + i, 0, 0, "samples", 1) \in Ranged
    <3>1. samples + i \in 1..MaxSamples
      BY <1>1
    <3> QED BY <3>1, RowRanged DEF AllTables
  <2>2. more \in [1..k -> Ranged]
    BY <2>1
  <2> QED BY <1>1, <2>2
<1>3. buffer' = [buffer EXCEPT !["scalar"] = @ \o more]
  BY DEF IngestScalars
<1> HIDE DEF more
<1>4. "scalar" \in SectionNames
  BY SectionFacts
<1>5. buffer' \in [SectionNames -> Seq(Ranged)]
  BY <1>2, <1>3, <1>4, PushRanged
<1>6. samples' \in 0..MaxSamples /\ next_array_id' \in 1..(samples' + 1)
  BY <1>1
<1> QED BY <1>5, <1>6 DEF RangeInv, IngestScalars, restUnchanged, flushVars

\* The buffers are emptied or cleared in part.
LEMMA EmptyRanged == Empty \in [SectionNames -> Seq(Ranged)]
BY DEF Empty

LEMMA FlushSectionRange ==
  ASSUME WritersInv, RangeInv, FlushSection
  PROVE  RangeInv'
<1> DEFINE sec == Sections[bundle.at]
           rows == bundle.todo[sec]
           chunks == ChunkNumbers(rows, ChunkSize(sec, Len(rows)))
           conn == [i \in chunks |-> ConnOf(i)]
<1>1. rows \in Seq(RowsOf(sec))
  BY SectionSent DEF FlushSection
<1> HIDE DEF rows
<1>2. IsFiniteSet(chunks)
  BY <1>1, ChunksFinite
<1>3. PICK out \in Attempts(conn) : faults' = faults + Cardinality(Faulty(conn, out))
  BY DEF FlushSection, rows
<1>4. Faulty(conn, out) \subseteq chunks
  BY DEF Faulty
<1>5. faults + Cardinality(Faulty(conn, out)) <= MaxFaults
  BY DEF Attempts
<1> HIDE DEF conn, chunks
<1>6. faults' \in 0..MaxFaults
  BY <1>2, <1>3, <1>4, <1>5, FaultsBounded
<1> QED BY <1>6 DEF RangeInv, FlushSection, bufVars

LEMMA FlushJsonRange ==
  ASSUME WritersInv, RangeInv, FlushJson
  PROVE  RangeInv'
<1> DEFINE tables == { t \in Range(JsonTables) : ElementsOf(bundle.todo["json"], t) # {} }
           conn == [t \in tables |-> ConnOf(0)]
<1>1. IsFiniteSet(Range(JsonTables))
  <2>1. \A S, x : IsFiniteSet(S) => IsFiniteSet(S \cup {x})
    BY FS_AddElement
  <2>2. IsFiniteSet({"samples_table"})
    BY FS_Singleton
  <2>3. IsFiniteSet({"samples_table"} \cup {"samples_custom"} \cup {"samples_nv"})
    BY <2>1, <2>2
  <2>4. IsFiniteSet({"samples_table"} \cup {"samples_custom"} \cup {"samples_nv"}
                    \cup {"samples_hist"} \cup {"samples_cont"})
    BY <2>1, <2>3
  <2>5. IsFiniteSet({"samples_table"} \cup {"samples_custom"} \cup {"samples_nv"}
                    \cup {"samples_hist"} \cup {"samples_cont"} \cup {"samples_mch"})
    BY <2>1, <2>4
  <2>6. Range(JsonTables) =
          {"samples_table"} \cup {"samples_custom"} \cup {"samples_nv"}
             \cup {"samples_hist"} \cup {"samples_cont"} \cup {"samples_mch"}
    BY JsonFamily
  <2> QED BY <2>5, <2>6
<1>2. PICK out \in Attempts(conn) : faults' = faults + Cardinality(Faulty(conn, out))
  BY DEF FlushJson, ElementsOf
<1>3. Faulty(conn, out) \subseteq Range(JsonTables)
  BY DEF Faulty
<1>4. faults + Cardinality(Faulty(conn, out)) <= MaxFaults
  BY DEF Attempts
<1> HIDE DEF conn
<1>5. faults' \in 0..MaxFaults
  BY <1>1, <1>2, <1>3, <1>4, FaultsBounded
<1> QED BY <1>5 DEF RangeInv, FlushJson, bufVars

LEMMA FlushAllRange ==
  ASSUME RangeInv, FlushAll
  PROVE  RangeInv'
<1>1. buffer \in [SectionNames -> Seq(Ranged)] /\ current_bytes \in [WriterNames -> Nat]
  BY DEF RangeInv
<1>2. IsFiniteSet(Units)
  BY <1>1, UnitsFinite
<1>3. PICK ok \in SUBSET Units, unheard \in SUBSET Units, unsent \in SUBSET Units :
        LET failed == Units \ (ok \cup unheard \cup unsent)
            broken == { u \in failed \cup unheard : alive[u.conn] }
        IN  /\ faults + Cardinality(broken) <= MaxFaults
            /\ faults' = faults + Cardinality(broken)
            /\ Cleared({ sec \in SectionNames :
                           \A u \in Units : u.sec = sec => u \in ok })
  BY DEF FlushAll
<1> DEFINE broken == { u \in (Units \ (ok \cup unheard \cup unsent)) \cup unheard :
                         alive[u.conn] }
           done == { sec \in SectionNames : \A u \in Units : u.sec = sec => u \in ok }
<1>4. /\ faults + Cardinality(broken) <= MaxFaults
      /\ faults' = faults + Cardinality(broken) /\ Cleared(done)
  BY <1>3
<1>5. broken \subseteq Units
  OBVIOUS
<1> HIDE DEF broken, done
<1>6. faults' \in 0..MaxFaults
  BY <1>2, <1>4, <1>5, FaultsBounded
<1>7. buffer' \in [SectionNames -> Seq(Ranged)]
  <2>1. << >> \in Seq(Ranged)
    OBVIOUS
  <2> QED BY <1>1, <1>4, <2>1 DEF Cleared
<1>8. current_bytes' \in [WriterNames -> Nat]
  BY <1>1, <1>4 DEF Cleared
<1> QED BY <1>6, <1>7, <1>8 DEF RangeInv, FlushAll

LEMMA RangeInit == Init => RangeInv
<1> SUFFICES ASSUME Init PROVE RangeInv
  OBVIOUS
<1>1. Conns \in Nat /\ MaxSamples \in Nat /\ MaxFaults \in Nat
  BY WritersAssumption
<1> QED BY <1>1, EmptyRanged DEF Init, RangeInv

LEMMA RangeNext == WritersInv /\ RangeInv /\ [Next]_vars => RangeInv'
<1> SUFFICES ASSUME WritersInv, RangeInv, [Next]_vars PROVE RangeInv'
  OBVIOUS
<1>1. CASE \E u \in Updates : Dispatch(u)
  BY <1>1, DispatchRange
<1>2. CASE \E k \in 1..2 : IngestScalars(k)
  BY <1>2, IngestScalarsRange
<1>3. CASE \E u \in Updates : IngestOther(u)
  BY <1>3, IngestOtherRange
<1>4. CASE DiscardAll
  BY <1>4, EmptyRanged DEF DiscardAll, RangeInv, flushVars
<1>5. CASE TakeBundle
  BY <1>5, EmptyRanged DEF TakeBundle, RangeInv
<1>6. CASE FlushSection
  BY <1>6, FlushSectionRange
<1>7. CASE FlushJson
  BY <1>7, FlushJsonRange
<1>8. CASE FinishBundle
  BY <1>8 DEF FinishBundle, RangeInv, bufVars
<1>9. CASE \E D \in SUBSET (0..(Conns - 1)) : ConnectionsClose(D)
  <2>1. PICK D \in SUBSET (0..(Conns - 1)) : ConnectionsClose(D)
    BY <1>9
  <2>2. alive' \in [0..(Conns - 1) -> BOOLEAN]
    BY <2>1 DEF ConnectionsClose, RangeInv
  <2>3. faults' \in 0..MaxFaults
    <3>1. MaxFaults \in Nat
      BY WritersAssumption
    <3> QED BY <2>1, <3>1 DEF ConnectionsClose, RangeInv
  <2> QED BY <2>1, <2>2, <2>3 DEF ConnectionsClose, RangeInv, bufVars
<1>10. CASE Heal
  <2>1. alive' \in [0..(Conns - 1) -> BOOLEAN]
    BY <1>10 DEF Heal, RangeInv
  <2> QED BY <1>10, <2>1 DEF Heal, RangeInv, bufVars
<1>11. CASE FlushAll
  BY <1>11, FlushAllRange
<1>12. CASE Restart
  <2>1. alive' \in [0..(Conns - 1) -> BOOLEAN]
    BY <1>12 DEF Restart, RangeInv
  <2>2. next_array_id' \in 1..(samples' + 1)
    BY <1>12 DEF Restart, RangeInv
  <2> QED BY <1>12, <2>1, <2>2, EmptyRanged DEF Restart, RangeInv
<1>13. CASE UNCHANGED vars
  BY <1>13 DEF vars, bufVars, flushVars, RangeInv
<1> QED BY <1>1, <1>2, <1>3, <1>4, <1>5, <1>6, <1>7, <1>8, <1>9, <1>10, <1>11,
           <1>12, <1>13 DEF Next

\* The rows in the buffers are those of updates that were taken and elements
\* that these have, and the counter has drawn at most one id for each update.
THEOREM WritersTypeCorrect == Spec => []TypeOK
BY RangeInit, RangeNext, RangeInvTypes, WritersInvariant, PTL DEF Spec
=============================================================================
