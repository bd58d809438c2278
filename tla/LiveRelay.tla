----------------------------- MODULE LiveRelay -----------------------------
(***************************************************************************)
(* api/stream.go proxySameProtocolSSELive with api/responses_sse_tracker:  *)
(* a stream passed on byte for byte, and the passive tracker that decides  *)
(* from the same bytes whether the key may be marked successful.           *)
(*                                                                         *)
(* The upstream's bytes are pieces <<j, p>>: part p of line j, part 0 the  *)
(* line break. A line has two parts, a long one more than the tracker      *)
(* holds (maxSSERead). io.Copy hands the tracker and the client chunks     *)
(* that are cut anywhere.                                                  *)
(***************************************************************************)
EXTENDS Naturals, Sequences, SequencesExt

CONSTANTS MaxLines,   \* bound: lines of a stream
          MaxPending  \* maxSSERead, in pieces: at least a line of two parts

VARIABLES inbound,    \* the client's protocol: "responses" is tracked, "other" not
          lines,      \* what the upstream sends, line by line
          size,       \* the pieces that arrive before the body ends or breaks
          pos,        \* the pieces read so far
          tracker,    \* responsesSSETracker
          fate        \* "reading" the first event, "copying", or how the key is marked

vars == <<inbound, lines, size, pos, tracker, fate>>

Types == {"created", "delta", "completed", "incomplete", "failed"}
NewTracker == [pending |-> <<>>, terminal |-> "none", parseErr |-> FALSE]

Parts(j) == IF lines[j].long THEN MaxPending + 1 ELSE 2
Bytes(j) == [p \in 1..(Parts(j) + 1) |-> <<j, IF p > Parts(j) THEN 0 ELSE p>>]
Stream ==
    LET sent[j \in 0..Len(lines)] == IF j = 0 THEN <<>> ELSE sent[j - 1] \o Bytes(j)
    IN  sent[Len(lines)]

-----------------------------------------------------------------------------
Init ==
    /\ inbound \in {"responses", "other"}
    /\ lines \in BoundedSeq([type : Types, long : BOOLEAN], MaxLines)
    /\ size \in {n \in 0..Len(Stream) : n > 0 => Stream[n][1] = Len(lines)}
    /\ pos = 0 /\ tracker = NewTracker /\ fate = "reading"

First(s, n) == SubSeq(s, 1, IF n < Len(s) THEN n ELSE Len(s))

\* A line parses if every part of it is there; other data is skipped.
Parses(line) == line # <<>> /\ line = Front(Bytes(line[1][1]))

processLine(t, line) ==
    LET type == IF Parses(line) THEN lines[line[1][1]].type ELSE ""
    IN  CASE type = "failed" -> [t EXCEPT !.terminal = "failed"]
          [] type \in {"completed", "incomplete"} /\ t.terminal # "failed" ->
                [t EXCEPT !.terminal = type]
          [] OTHER -> t

\* Mutant: a line cut by the end of a chunk is not kept.
feedForgetful(t, chunk) ==
    LET whole == {j \in DOMAIN lines : Bytes(j) = SelectSeq(chunk, LAMBDA x : x[1] = j)}
        read == SetToSortSeq(whole, <)
    IN  FoldLeft(LAMBDA u, j : processLine(u, Front(Bytes(j))), t, read)

\* Write: complete lines are processed, the rest is kept for the next chunk and
\* cut off when it is too long.
feed(t, chunk) ==
    LET take(u, piece) == IF piece[2] = 0 THEN [processLine(u, u.pending) EXCEPT !.pending = <<>>]
                          ELSE [u EXCEPT !.pending = Append(@, piece)]
        read[x \in 0..Len(chunk)] == IF x = 0 THEN t ELSE take(read[x - 1], chunk[x])
        rest == read[Len(chunk)]
    IN  [rest EXCEPT !.pending = First(@, MaxPending),
                     !.parseErr = @ \/ Len(rest.pending) > MaxPending]

\* Finalize, after feedTrailingLine.
Final(t) == processLine(t, t.pending)
Healthy(t) == ~t.parseErr /\ t.terminal \in {"completed", "incomplete"}

-----------------------------------------------------------------------------
\* readFirstContentSSEEvent, for a body of n pieces: how many of them it reads,
\* or 0 if it finds no content. Lifecycle events are read past, a line over the
\* cap or a failure before any content is refused, and the line it ends on may
\* lack its end.
FirstContent(n) ==
    LET whole == {j \in DOMAIN lines : \E x \in 1..n : Stream[x] = <<j, 0>>}
        begun == {j \in DOMAIN lines : \E x \in 1..n : Stream[x][1] = j}
        skipped(j) == inbound = "responses" /\ j \in whole /\ lines[j].type = "created"
        found == {j \in begun : ~skipped(j) /\ \A i \in 1..(j - 1) : skipped(i)}
        over == {j \in begun : lines[j].long}
        refused == {j \in whole : inbound = "responses"
                                  /\ lines[j].type \in {"failed", "incomplete"}}
        read == {x \in 1..n : \E j \in found \ refused :
                                 Stream[x][1] <= j /\ \A i \in over : j < i}
    IN  CHOOSE k \in {0} \cup read : \A x \in read : x <= k

\* The first event is found, committed and fed to the tracker, or the caller
\* may try another key; the client may be gone by then.
ReadFirst ==
    LET first == FirstContent(size)
    IN  /\ fate = "reading"
        /\ \/ first = 0 /\ fate' = "failover" /\ UNCHANGED <<pos, tracker>>
           \/ first # 0 /\ fate' = "none" /\ UNCHANGED <<pos, tracker>>
           \/ /\ first # 0 /\ fate' = "copying"
              /\ pos' = first
              /\ tracker' = IF inbound = "responses" THEN feed(tracker, SubSeq(Stream, 1, first))
                            ELSE tracker
        /\ UNCHANGED <<inbound, lines, size>>

\* One chunk of n pieces: the tracker sees it even if the client does not.
CopyChunk(n) ==
    LET chunk == SubSeq(Stream, pos + 1, pos + n)
    IN  /\ fate = "copying"
        /\ pos' = pos + n /\ pos' <= size
        /\ tracker' = IF inbound = "responses" THEN feed(tracker, chunk) ELSE tracker
        /\ \/ UNCHANGED fate
           \/ fate' = IF inbound = "responses" /\ Final(tracker').terminal = "failed"
                           THEN "failure" ELSE "none"
        /\ UNCHANGED <<inbound, lines, size>>

\* The body ends, wherever that is; copyErr is set if it broke.
BodyEnds(broken) ==
    LET t == Final(tracker)
    IN  /\ fate = "copying" /\ pos = size
        /\ fate' = CASE inbound = "responses" /\ t.terminal = "failed" -> "failure"
                     [] broken -> "none"
                     [] inbound = "responses" /\ ~Healthy(t) -> "failure"
                     [] OTHER -> "success"
        /\ tracker' = IF inbound = "responses" THEN [t EXCEPT !.pending = <<>>] ELSE tracker
        /\ UNCHANGED <<inbound, lines, size, pos>>

Next ==
    \/ ReadFirst
    \/ \E n \in 1..(size - pos) : CopyChunk(n)
    \/ \E broken \in BOOLEAN : BodyEnds(broken)

Spec == Init /\ [][Next]_vars

-----------------------------------------------------------------------------
\* The verdict on a key does not depend on where the chunks were cut: it is
\* what the complete lines the client received say. A line longer than the
\* tracker holds can cost a healthy key its success, never earn it one.
Received(type) == \E j \in DOMAIN lines :
    lines[j].type = type /\ \E x \in 1..pos : Stream[x] = <<j, Parts(j)>>
TerminalReceived == Received("completed") \/ Received("incomplete")
VerdictIgnoresCuts ==
    inbound = "responses" =>
        /\ fate = "success" => TerminalReceived /\ ~Received("failed")
        /\ fate = "failure" /\ (\A j \in DOMAIN lines : ~lines[j].long)
              => Received("failed") \/ ~TerminalReceived
=============================================================================
