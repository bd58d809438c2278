---------------------------- MODULE MCTokenGate ----------------------------
EXTENDS TokenGate, TLC

Interchangeable == Permutations(Handler) \cup Permutations(Token)
=============================================================================
