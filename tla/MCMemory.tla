------------------------------- MODULE MCMemory -------------------------------
\* Memory on small instances; the .cfg files give the constants their values.
EXTENDS Memory, TLC
Interchangeable == Permutations(Clients) \cup Permutations(Workers)
===============================================================================
