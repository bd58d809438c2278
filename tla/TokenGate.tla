----------------------------- MODULE TokenGate -----------------------------
(***************************************************************************)
(* The three gates a client request passes before it is proxied            *)
(* (api/router.go, NewRouter): Auth, the per-minute rate limit and the     *)
(* total request cap, while the admin edits and deletes tokens.            *)
(*                                                                         *)
(* Auth loads the token row once; the later gates work on that snapshot,   *)
(* except that TryReserveRequest goes back to the row.                     *)
(***************************************************************************)
EXTENDS Integers, Sequences, FiniteSets

CONSTANTS
    Token,     \* ids of the tokens
    Handler,   \* request goroutines
    Rates,     \* values of rate_limit; 0 is unlimited
    Caps,      \* values of max_requests; 0 is unlimited
    Minute     \* ticks in the limiter's window of one minute

ASSUME GateAssumption ==
    /\ Rates \subseteq Nat /\ Caps \subseteq Nat
    /\ Minute \in Nat \ {0}

VARIABLES
    token,    \* the tokens table
    window,   \* rateLimiter.windows
    req,      \* the request each handler is serving
    recent,   \* history: ages of the rate-limited admissions of the last minute
    granted,  \* history: requests let through on a reservation, per token
    peak      \* history: the highest cap each token has had

vars == <<token, window, req, recent, granted, peak>>
history == <<recent, granted, peak>>

----------------------------------------------------------------------------

TokenRow == [state : {"unborn", "present", "gone"},
             enabled : BOOLEAN, expired : BOOLEAN,
             rate : Rates, max : Caps, used : Nat]

Exists(t) == token[t].state = "present"

\* No entry in the limiter's map.
NoWindow == [known |-> FALSE, limit |-> 0, ages |-> <<>>]

\* pc: idle; rate, cap: before that gate; reserving: TryReserveRequest has read
\* the row and its UPDATE is due; proxy: the request is with the proxy.
NoRequest == [pc |-> "idle", tok |-> CHOOSE t \in Token : TRUE,
              rate |-> 0, max |-> 0]

End(h) == req' = [req EXCEPT ![h] = NoRequest]
GoOn(h, pc) == req' = [req EXCEPT ![h].pc = pc]

\* FindToken, the enabled check and IsExpired.  A token that fails them is
\* answered 401 and nothing changes.
Auth(h, t) ==
    /\ req[h].pc = "idle"
    /\ Exists(t) /\ token[t].enabled /\ ~token[t].expired
    /\ req' = [req EXCEPT ![h] = [pc |-> "rate", tok |-> t,
                                  rate |-> token[t].rate, max |-> token[t].max]]
    /\ UNCHANGED <<token, window, history>>

----------------------------------------------------------------------------
(* rateLimiter.allow.  A window keeps the limit it was created with.        *)

Unlimited(h) ==
    /\ req[h].pc = "rate" /\ req[h].rate = 0
    /\ GoOn(h, "cap")
    /\ UNCHANGED <<token, window, history>>

\* The limiter's entry for a token, created on first use.
Entry(t, rate) ==
    IF window[t].known THEN window[t] ELSE [known |-> TRUE, limit |-> rate, ages |-> <<>>]

\* What is younger than age. Timestamps are taken and appended under the lock,
\* so the oldest is the first and the young ones are the last.
Younger(ages, age) ==
    LET k == CHOOSE n \in 0 .. Len(ages) : \A i \in 1 .. Len(ages) : ages[i] < age <=> i > n
    IN  SubSeq(ages, k + 1, Len(ages))

\* Mutant: timestamps are purged a tick early.
PurgedEarly(h) == [Entry(req[h].tok, req[h].rate) EXCEPT !.ages = Younger(@, Minute - 1)]

\* The entry of the request's token, with the expired timestamps purged.
Purged(h) == [Entry(req[h].tok, req[h].rate) EXCEPT !.ages = Younger(@, Minute)]

RateAdmit(h) ==
    LET t == req[h].tok
        w == Purged(h)
    IN  /\ req[h].pc = "rate" /\ req[h].rate > 0
        /\ Len(w.ages) < w.limit
        /\ window' = [window EXCEPT ![t] = [w EXCEPT !.ages = Append(@, 0)]]
        /\ recent' = [recent EXCEPT ![t] = Append(@, 0)]
        /\ GoOn(h, "cap")
        /\ UNCHANGED <<token, granted, peak>>

\* 429; the purge stays.
RateReject(h) ==
    LET w == Purged(h)
    IN  /\ req[h].pc = "rate" /\ req[h].rate > 0
        /\ Len(w.ages) >= w.limit
        /\ window' = [window EXCEPT ![req[h].tok] = w]
        /\ End(h)
        /\ UNCHANGED <<token, history>>

----------------------------------------------------------------------------
(* RequestLimitMiddleware and TryReserveRequest                            *)

\* max_requests of the snapshot, and then of the row, decides whether the
\* request is counted at all.
CapCheck(h) ==
    LET t == req[h].tok
    IN  /\ req[h].pc = "cap"
        /\ \/ req[h].max = 0 /\ GoOn(h, "proxy")
           \/ /\ req[h].max > 0 /\ Exists(t)
              /\ IF token[t].max = 0 THEN GoOn(h, "proxy")
                                     ELSE GoOn(h, "reserving")
           \/ req[h].max > 0 /\ ~Exists(t) /\ End(h)   \* 503
        /\ UNCHANGED <<token, window, history>>

\* Mutant: the cap itself still lets a request through.
ReservableAtCap(r) == r.state = "present" /\ r.enabled /\ r.used <= r.max

\* The WHERE clause of the reserving UPDATE.
Reservable(r) == r.state = "present" /\ r.enabled /\ r.used < r.max

Reserve(h) ==
    LET t == req[h].tok
    IN  /\ req[h].pc = "reserving"
        /\ Reservable(token[t])
        /\ token' = [token EXCEPT ![t].used = @ + 1]
        /\ granted' = [granted EXCEPT ![t] = @ + 1]
        /\ GoOn(h, "proxy")
        /\ UNCHANGED <<window, recent, peak>>

\* 403: no row matched.
Refuse(h) ==
    /\ req[h].pc = "reserving"
    /\ ~Reservable(token[req[h].tok])
    /\ End(h)
    /\ UNCHANGED <<token, window, history>>

\* 503: SQLite busy, at either statement of TryReserveRequest.
StoreError(h) ==
    /\ \/ req[h].pc = "cap" /\ req[h].max > 0
       \/ req[h].pc = "reserving"
    /\ End(h)
    /\ UNCHANGED <<token, window, history>>

\* Mutant: every request gives a reservation back when it ends.
DoneReleasing(h) ==
    /\ req[h].pc = "proxy"
    /\ token' = [token EXCEPT ![req[h].tok].used = @ - 1]
    /\ End(h)
    /\ UNCHANGED <<window, history>>

\* The proxied request ends, well or badly; the reservation stays.
Done(h) ==
    /\ req[h].pc = "proxy"
    /\ End(h)
    /\ UNCHANGED <<token, window, history>>

----------------------------------------------------------------------------
(* Admin handlers, the clock and the process                               *)

Higher(a, b) == IF a > b THEN a ELSE b

CreateToken(t) ==
    /\ token[t].state = "unborn"
    /\ \E r \in Rates, m \in Caps :
          /\ token' = [token EXCEPT ![t] =
                [state |-> "present", enabled |-> TRUE, expired |-> FALSE,
                 rate |-> r, max |-> m, used |-> 0]]
          /\ peak' = [peak EXCEPT ![t] = m]
    /\ UNCHANGED <<window, req, recent, granted>>

\* Mutant: an edit starts the count again.
UpdateTokenResetting(t) ==
    /\ Exists(t)
    /\ \E r \in Rates, m \in Caps, on, past \in BOOLEAN :
          /\ token' = [token EXCEPT ![t].rate = r, ![t].max = m, ![t].used = 0,
                                    ![t].enabled = on, ![t].expired = past]
          /\ peak' = [peak EXCEPT ![t] = Higher(@, m)]
    /\ UNCHANGED <<window, req, recent, granted>>

\* One UPDATE of the fields in the body; requests_used is not among them.
UpdateToken(t) ==
    /\ Exists(t)
    /\ \E r \in Rates, m \in Caps, on, past \in BOOLEAN :
          /\ token' = [token EXCEPT ![t].rate = r, ![t].max = m,
                                    ![t].enabled = on, ![t].expired = past]
          /\ peak' = [peak EXCEPT ![t] = Higher(@, m)]
    /\ UNCHANGED <<window, req, recent, granted>>

\* The limiter keeps its entry.
DeleteToken(t) ==
    /\ Exists(t)
    /\ token' = [token EXCEPT ![t].state = "gone"]
    /\ UNCHANGED <<window, req, history>>

Older(ages) == [i \in DOMAIN ages |-> IF ages[i] < Minute THEN ages[i] + 1
                                                          ELSE Minute]

Tick ==
    /\ \E t \in Token : window[t].ages # <<>>
    /\ window' = [t \in Token |-> [window[t] EXCEPT !.ages = Older(@)]]
    /\ recent' = [t \in Token |-> Younger(Older(recent[t]), Minute)]
    /\ UNCHANGED <<token, req, granted, peak>>

Expire(t) ==
    /\ Exists(t) /\ ~token[t].expired
    /\ token' = [token EXCEPT ![t].expired = TRUE]
    /\ UNCHANGED <<window, req, history>>

\* The limiter is in memory only: a new process starts with empty windows.
Restart ==
    /\ window' = [t \in Token |-> NoWindow]
    /\ req' = [h \in Handler |-> NoRequest]
    /\ recent' = [t \in Token |-> <<>>]
    /\ UNCHANGED <<token, granted, peak>>

NoToken(r, m) == [state |-> "unborn", enabled |-> FALSE, expired |-> FALSE,
                  rate |-> r, max |-> m, used |-> 0]

Init ==
    /\ \E r \in Rates, m \in Caps : token = [t \in Token |-> NoToken(r, m)]
    /\ window = [t \in Token |-> NoWindow]
    /\ req = [h \in Handler |-> NoRequest]
    /\ recent = [t \in Token |-> <<>>]
    /\ granted = [t \in Token |-> 0]
    /\ peak = [t \in Token |-> 0]

Serve(h) ==
    \/ \E t \in Token : Auth(h, t)
    \/ Unlimited(h) \/ RateAdmit(h) \/ RateReject(h)
    \/ CapCheck(h) \/ Reserve(h) \/ Refuse(h) \/ StoreError(h)
    \/ Done(h)

Administer(t) ==
    CreateToken(t) \/ UpdateToken(t) \/ DeleteToken(t) \/ Expire(t)

Next ==
    \/ \E h \in Handler : Serve(h)
    \/ \E t \in Token : Administer(t)
    \/ Tick
    \/ Restart

Spec == Init /\ [][Next]_vars

----------------------------------------------------------------------------
(* Properties *)

TypeOK ==
    /\ token \in [Token -> TokenRow]
    /\ window \in [Token -> [known : BOOLEAN, limit : Nat,
                            ages : Seq(0 .. Minute)]]
    /\ req \in [Handler -> [pc : {"idle", "rate", "cap", "reserving", "proxy"},
                            tok : Token, rate : Nat, max : Nat]]
    /\ recent \in [Token -> Seq(0 .. Minute)]
    /\ granted \in [Token -> Nat]
    /\ peak \in [Token -> Nat]

\* However many requests race for the last slots of a capped token, and
\* however the admin moves the cap meanwhile, no more requests are let
\* through on a reservation than the highest cap the token has had
\* (TryReserveRequest; proxy_test.go, TestP1_1_ConcurrentMaxRequests).
CapHeld == \A t \in Token : granted[t] <= peak[t]

\* The counter the admin sees is the number of requests let through on a
\* reservation: none is lost or counted twice by racing requests or edits.
UsedExact == \A t \in Token : token[t].used = granted[t]

\* As long as the process lives, a token never has more rate-limited
\* admissions within one minute than the limit its window was created with.
RateHeld == \A t \in Token : window[t].known => Len(recent[t]) <= window[t].limit

\* "Each token is allowed RateLimit requests per minute" (api/ratelimit.go):
\* a request admitted under limit r finds fewer than r admissions of its
\* token in the last minute.
RateAsConfigured ==
    [][\A h \in Handler :
          RateAdmit(h) => Len(recent[req[h].tok]) < req[h].rate]_vars
=============================================================================
