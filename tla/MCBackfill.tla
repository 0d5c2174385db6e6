------------------------------ MODULE MCBackfill ------------------------------
EXTENDS BackfillInvariant

CONSTANTS d1, d2, c1, c2, c3

\* One document has all the chunks.
OneDocument == [c \in Chunk |-> d1]
===============================================================================
