---------------------------- MODULE ModelRoutes ----------------------------
(***************************************************************************)
(* The route of a model: what config/models.go, the store's rows and       *)
(* modelsync/sync.go compute with one, without the state they share.       *)
(*                                                                         *)
(* A field stands for those that every function treats alike: protocol for *)
(* name and real_model, pricing for context_len and tags, targets for      *)
(* upstream_groups, which a merge clears where it rebuilds targets.        *)
(***************************************************************************)
EXTENDS Naturals, Sequences, SequencesExt, FiniteSets, Maps

CONSTANTS Models,          \* model ids
          MessagesModels   \* those inferProtocol takes for Messages (minimax-*, qwen*)

Upstreams == {"go", "ollama"}

\* A list of upstreams as the synchronisation makes one: Go before Ollama.
GoFirst(ups) ==
    CASE ups = Upstreams -> <<"go", "ollama">>
      [] ups = {"go"} -> <<"go">>
      [] ups = {"ollama"} -> <<"ollama">>
      [] ups = {} -> <<>>

inferProtocol(m) == IF m \in MessagesModels THEN "messages" ELSE "chat"

-----------------------------------------------------------------------------
(***************************************************************************)
(* Rows and routes.                                                        *)
(***************************************************************************)
OrElse(value, default) == IF value = "" THEN default ELSE value

NewModelRouteRow(route) ==
    [route EXCEPT !.upstream = OrElse(@, "go"), !.protocol = OrElse(@, "chat"),
                  !.group = OrElse(@, "go")]

ModelRouteFromRow(row) == [row EXCEPT !.upstream = OrElse(@, "go"), !.group = OrElse(@, "go")]

\* The first occurrences, in order: the head, and the other upstream if it occurs.
deduplicateUpstreams(ups) == <<Head(ups)>> \o GoFirst(Range(ups) \ {Head(ups)})

\* A route without a list is served by its primary upstream.
applyLocalModelDefaults(route) ==
    LET r == [route EXCEPT !.upstream = OrElse(@, "go"), !.group = OrElse(@, "go")]
    IN  [r EXCEPT !.upstreams = IF @ = <<>> THEN <<r.upstream>> ELSE deduplicateUpstreams(@)]

\* What an admin's request must satisfy: known upstreams, at least one, and
\* every target for one of them.
ValidateAndNormalizeUpstreams(ups) ==
    IF ups = <<>> \/ ~(Range(ups) \subseteq Upstreams) THEN {} ELSE {deduplicateUpstreams(ups)}

\* config.ModelRoute's getters, which decide how an upstream is called.
TargetProtocol(route, u) ==
    IF u \in DOMAIN route.targets /\ route.targets[u].protocol # "" THEN route.targets[u].protocol
    ELSE route.protocol
ResolveUpstreamGroup(route, u) ==
    IF u \in DOMAIN route.targets /\ route.targets[u].group # "" THEN route.targets[u].group
    ELSE IF u = route.upstream /\ route.group # "" THEN route.group ELSE u

-----------------------------------------------------------------------------
(***************************************************************************)
(* Merging catalogs: catalog[u] is the set of models upstream u lists.     *)
(***************************************************************************)
mergeModels(catalog, m) == GoFirst({u \in Upstreams : m \in catalog[u]})
target(m, u) == [protocol |-> IF u = "go" THEN inferProtocol(m) ELSE "chat", group |-> u]

\* Mutant: every upstream is called the way the route is.
fallbackUniform(m, ups) ==
    LET group == IF Contains(ups, "go") THEN "go" ELSE Head(ups)
        default == [protocol |-> inferProtocol(m), group |-> group]
    IN  [upstream |-> Head(ups), upstreams |-> ups, protocol |-> default.protocol,
         group |-> group, targets |-> [u \in Range(ups) |-> [default EXCEPT !.group = u]],
         pricing |-> "none", status |-> "enabled", custom |-> {}]

\* The route of a model that nothing is stored of.
fallback(m, ups) ==
    LET group == IF Contains(ups, "go") THEN "go" ELSE Head(ups)
        default == [protocol |-> inferProtocol(m), group |-> group]
        needTargets == Len(ups) > 1 /\ \E u \in Range(ups) : target(m, u) # default
    IN  [upstream |-> Head(ups), upstreams |-> ups, protocol |-> default.protocol,
         group |-> group, targets |-> IF needTargets THEN [u \in Range(ups) |-> target(m, u)] ELSE <<>>,
         pricing |-> "none", status |-> "enabled", custom |-> {}]

\* Mutant: the merged list is taken as it is, whatever was not fetched.
buildMergedRouteTrusting(m, ups, row, fetched) ==
    LET fresh == fallback(m, ups)
        route == ModelRouteFromRow(row)
        auto == {"upstream", "group", "upstreams", "targets", "protocol"} \ route.custom
    IN  [f \in DOMAIN route |-> IF f \in auto THEN fresh[f] ELSE route[f]]

\* Mutant: targets are rebuilt although the admin set them.
buildMergedRouteTargets(m, ups, row, fetched) ==
    LET fresh == fallback(m, ups)
        route == ModelRouteFromRow(row)
        auto == {"targets"} \cup ({"upstream", "group", "upstreams", "protocol"} \ route.custom)
    IN  [f \in DOMAIN route |-> IF f \in auto THEN fresh[f] ELSE route[f]]

\* The row of a model that is listed by ups (not empty), with fetched the
\* upstreams whose catalog arrived. What the admin customized stays; the
\* primary upstream and its group stay too if its catalog did not arrive;
\* membership of an upstream follows its catalog only if that arrived.
buildMergedRoute(m, ups, row, fetched) ==
    LET fresh == fallback(m, ups)
        route == ModelRouteFromRow(row)
        primary == IF Head(ups) \in fetched THEN {"upstream", "group"} ELSE {}
        auto == (primary \cup {"upstreams", "targets", "protocol"}) \ route.custom
        member(u) == IF u \in fetched THEN Contains(ups, u) ELSE Contains(route.upstreams, u)
        merged == [fresh EXCEPT !.upstreams = GoFirst({u \in Upstreams : member(u)})]
    IN  [f \in DOMAIN route |-> IF f \in auto THEN merged[f] ELSE route[f]]

\* Metadata is attached to every route that a listed model matches.
ApplyOpenRouterMetadata(route, matched) ==
    IF matched /\ "pricing" \notin route.custom THEN [route EXCEPT !.pricing = "openrouter"] ELSE route

\* A list, in which no upstream is twice, without those in gone.
Without(ups, gone) == IF Range(ups) \cap gone = {} THEN ups ELSE GoFirst(Range(ups) \ gone)

\* A row that no catalog lists loses the upstreams whose catalog arrived, and is
\* disabled when none is left.
reconcile(row, fetched) ==
    LET route == ModelRouteFromRow(row)
        ups == IF "upstreams" \in route.custom THEN route.upstreams
               ELSE Without(route.upstreams, fetched)
    IN  [route EXCEPT !.upstreams = ups,
                      !.status = IF "status" \notin route.custom /\ ups = <<>> THEN "disabled" ELSE @]
=============================================================================
