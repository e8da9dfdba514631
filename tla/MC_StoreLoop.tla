---------------------------- MODULE MC_StoreLoop ----------------------------
(* Small instances of StoreLoop for TLC. *)
EXTENDS StoreLoop, TLC

CONSTANTS a, b, c, s1, s2

MCSections  == <<"scalar", "string", "json_cont", "image">>
MCWriterOf  == [x \in {"scalar", "string", "json_cont", "image"} |->
                  IF x = "json_cont" THEN "json" ELSE x]
MCParallel  == {"scalar", "string"}

\* Two scalar rows and a string row; a continuum, which json.rs writes as one
\* COPY row per base point, and an image; two strings.
MCSectionOf == [r \in Rows |-> IF r = c THEN "string" ELSE "scalar"]
MCJson      == [r \in Rows |-> IF r = c THEN "image" ELSE "json_cont"]
MCStrings   == [r \in Rows |-> "string"]

MCSymmetry == Permutations({a, b}) \cup Permutations(Shards)

MCOneEach(S)  == Cardinality(S)
MCJsonTwo(S)  == Cardinality(S) + Cardinality({r \in S : SectionOf[r] = "json_cont"})
============================================================================
