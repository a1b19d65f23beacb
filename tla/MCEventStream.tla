---------------------------- MODULE MCEventStream ----------------------------
EXTENDS EventStream, TLC

CONSTANTS a, b

Symmetry == Permutations(Streams)
===============================================================================
