------------------------------- MODULE MCPipe -------------------------------
EXTENDS Pipe, TLC

\* Slots and addresses are interchangeable.
Symmetry == Permutations(Slots) \cup Permutations(Pipes) \cup Permutations(Files)
=============================================================================
