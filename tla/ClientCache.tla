---------------------------- MODULE ClientCache ----------------------------
(***************************************************************************)
(* upstream/client.go: HTTP clients, and so connection pools, shared by    *)
(* proxy. A client is looked up under the read lock and made under the     *)
(* write lock; between the two the caller holds neither.                   *)
(***************************************************************************)
EXTENDS Naturals, FiniteSets, Maps

CONSTANTS Callers,
          Key   \* normaliseProxyKey: spellings of a proxy URL and the key of each

VARIABLES clientCache,  \* key to client; a client is its number and the URL it dials
          made,         \* clients made so far
          waiting,      \* callers that missed under the read lock, with their URL
          holds         \* the client each caller got last, with its URL

vars == <<clientCache, made, waiting, holds>>

Init == clientCache = None /\ made = 0 /\ waiting = None /\ holds = None

\* The fast path, under the read lock.
Lookup(c, url) ==
    /\ c \notin DOMAIN waiting
    /\ IF Key[url] \in DOMAIN clientCache
       THEN holds' = Put(holds, c, [url |-> url, client |-> clientCache[Key[url]]]) /\ UNCHANGED waiting
       ELSE waiting' = Put(waiting, c, url) /\ UNCHANGED holds
    /\ UNCHANGED <<clientCache, made>>

\* Mutant: the slow path does not look again.
MakeAlways(c) ==
    LET url == waiting[c]
        client == [n |-> made + 1, dials |-> url]
    IN  /\ c \in DOMAIN waiting
        /\ clientCache' = Put(clientCache, Key[url], client) /\ made' = made + 1
        /\ holds' = Put(holds, c, [url |-> url, client |-> client])
        /\ waiting' = Drop(waiting, c)

\* The slow path, under the write lock: look again, then make the client.
Make(c) ==
    LET url == waiting[c]
        known == Key[url] \in DOMAIN clientCache
        client == IF known THEN clientCache[Key[url]] ELSE [n |-> made + 1, dials |-> url]
    IN  /\ c \in DOMAIN waiting
        /\ clientCache' = Put(clientCache, Key[url], client)
        /\ made' = IF known THEN made ELSE made + 1
        /\ holds' = Put(holds, c, [url |-> url, client |-> client])
        /\ waiting' = Drop(waiting, c)

Next == \E c \in Callers : Make(c) \/ \E url \in DOMAIN Key : Lookup(c, url)

Spec == Init /\ [][Next]_vars

\* Callers that use one proxy share one connection pool, however they spelled
\* its address and whoever came first, and nobody gets the pool of another
\* proxy ("cached by normalised proxy URL so transports are reused").
OneClientPerProxy ==
    /\ made <= Cardinality(Range(Key))
    /\ \A c, d \in DOMAIN holds :
          holds[c].client = holds[d].client <=> Key[holds[c].url] = Key[holds[d].url]
    /\ \A c \in DOMAIN holds : Key[holds[c].client.dials] = Key[holds[c].url]
=============================================================================
