---------------------------- MODULE OneResponse ----------------------------
(***************************************************************************)
(* What the gateway promises a client about one request, whatever it tries *)
(* upstream to serve it: at most one response, which is either an error    *)
(* envelope or a relayed answer, never one after a piece of the other; and *)
(* no response at all only to a client that has left or, the gap that      *)
(* Failover's runs show, to one whose answer outlived the deadline.        *)
(***************************************************************************)
VARIABLE phase

Phases == {"waiting",    \* nothing was sent
           "relaying",   \* part of an upstream answer was sent
           "delivered",  \* a whole upstream answer was sent
           "broken",     \* the relayed answer stopped part way
           "refused",    \* an error envelope was sent
           "dropped"}    \* the request ended with nothing sent

Init == phase = "waiting"

Relay  == phase = "waiting" /\ phase' \in {"relaying", "delivered", "broken"}
Finish == phase = "relaying" /\ phase' \in {"delivered", "broken"}
Refuse == phase = "waiting" /\ phase' = "refused"
Drop   == phase = "waiting" /\ phase' = "dropped"

Next == Relay \/ Finish \/ Refuse \/ Drop

Spec == Init /\ [][Next]_phase
=============================================================================
