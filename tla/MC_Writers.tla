---------------------------- MODULE MC_Writers ----------------------------
EXTENDS Writers

\* Every Normative Type, waveforms of one and of three elements.
MCUpdates ==
  { [nt |-> nt, n |-> 1] : nt \in { "NTScalar", "NTScalar.string", "NTTable",
      "Custom", "NTHistogram", "NTScalarArray.string" } }
  \cup { [nt |-> "NTScalarArray", n |-> 3], [nt |-> "NTContinuum", n |-> 2],
         [nt |-> "NTNDArray", n |-> 1] }
===========================================================================
