-------------------------------- MODULE Maps --------------------------------
(***************************************************************************)
(* Go maps and tables keyed by a column, as functions: one entry set, one  *)
(* removed, one map laid over another.                                     *)
(***************************************************************************)
EXTENDS Functions

None == <<>>   \* the empty function: no rows, no handlers

Put(f, k, v) == [x \in DOMAIN f \cup {k} |-> IF x = k THEN v ELSE f[x]]
Drop(f, k) == Restrict(f, DOMAIN f \ {k})
Over(f, g) == [x \in DOMAIN f \cup DOMAIN g |-> IF x \in DOMAIN f THEN f[x] ELSE g[x]]
=============================================================================
