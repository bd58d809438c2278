----------------------------- MODULE MCKeyPool -----------------------------
EXTENDS KeyPool

\* Every key in one group: the health of a key does not depend on others.
OneGroup == [k \in Key |-> CHOOSE g \in Group : TRUE]
=============================================================================
