---------------------------- MODULE MC_Startup ----------------------------
\* Two sockets, each with two texts that parse: its to_string and a longer form
\* of the same address.  One text lacks the port, and host is a name.
EXTENDS Startup

CONSTANTS a, b, aPrinted, aLong, aBare, bPrinted, bLong, host

MCParse == [t \in Addresses |-> CASE t \in {aPrinted, aLong} -> a
                                   [] t \in {bPrinted, bLong} -> b
                                   [] OTHER -> NoIoc]
MCWritten == [s \in Sockets |-> IF s = a THEN aPrinted ELSE bPrinted]
MCWithPort == [t \in Addresses |-> IF t = aBare THEN aPrinted ELSE t]

Symmetry == Permutations(Processes)
===========================================================================
