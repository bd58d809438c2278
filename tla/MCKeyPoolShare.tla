--------------------------- MODULE MCKeyPoolShare ---------------------------
EXTENDS KeyPoolShare, TLC

\* The last key is alone in its group, the others share one.
MCGroupOf ==
    [k \in Key |-> IF k = Max(Key) THEN "ollama" ELSE "go"]
MCGroup == {"go", "ollama"}

Interchangeable == Permutations(Handler)
=============================================================================
