---------------------------- MODULE KeyPoolShare ----------------------------
(***************************************************************************)
(* KeyPool with a history of which key the round robin put first, to state *)
(* how PickAttempts shares the traffic among the keys of a group.          *)
(***************************************************************************)
EXTENDS KeyPool, Sequences, SequencesExt

\* The cursor kept modulo CursorPeriod chooses like the code's, which counts on:
\* the weights of any candidates of one group add up to a divisor of the period.
ASSUME CursorAssumption ==
    \A g \in Group : \A C \in SUBSET {k \in Key : GroupOf[k] = g} :
        \A cand \in [C -> StoredWeight] :
            C # {} => CursorPeriod % TotalWeight(cand) = 0

VARIABLE window   \* per group: the candidates of the last picks and their firsts

shareVars == <<vars, window>>

NoPicks == [cand |-> NoKey, firsts |-> <<>>]

\* The last TotalWeight(cand) elements of s.
Newest(s, n) == IF Len(s) > n THEN SubSeq(s, Len(s) - n + 1, Len(s)) ELSE s

\* A pick from other candidates than the last one starts a new window.
Observe(g, cand, k) ==
    LET old == IF window[g].cand = cand THEN window[g].firsts ELSE <<>>
    IN  window' = [window EXCEPT ![g] =
            [cand |-> cand, firsts |-> Newest(Append(old, k), TotalWeight(cand))]]

ShareInit == Init /\ window = [g \in Group |-> NoPicks]

ShareNext ==
    \/ \E h \in Handler :
          /\ Advance(h)
          /\ Observe(CandGroup(req[h].cand), req[h].cand, req'[h].first)
    \/ /\ \/ \E h \in Handler : (\E g \in Group : Load(h, g)) \/ Attempt(h)
          \/ Administer
          \/ Tick
       /\ UNCHANGED window
    \/ Restart /\ window' = [g \in Group |-> NoPicks]

ShareSpec == ShareInit /\ [][ShareNext]_shareVars

\* "Keys with higher Weight get proportionally more traffic" (pool/key.go,
\* PickAttempts): as long as the candidates stay the same, any TotalWeight
\* consecutive picks of the group start with each candidate exactly as often
\* as its weight says, whichever goroutines pick and in whatever order they
\* reach the cursor.
WeightedShare ==
    \A g \in Group :
        LET w == window[g]
        IN  Len(w.firsts) = TotalWeight(w.cand) =>
                \A k \in DOMAIN w.cand :
                    Cardinality({i \in DOMAIN w.firsts : w.firsts[i] = k})
                        = w.cand[k]
=============================================================================
