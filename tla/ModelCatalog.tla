---------------------------- MODULE ModelCatalog ----------------------------
(***************************************************************************)
(* The model catalog: rows in SQLite, the registry requests are routed by  *)
(* (config.routes), the synchronisation with the upstreams' catalogs       *)
(* (modelsync/sync.go), the admin's handlers (admin/router.go) and a       *)
(* restart (main.go). Rows and registry are written one after the other,   *)
(* and nothing but catalogSyncMu keeps writers apart.                      *)
(***************************************************************************)
EXTENDS ModelRoutes

CONSTANTS Admins,
          Catalogs,               \* what the upstreams may list, a set of models for each
          Patches,                \* admin requests, as the fields they set
          MaxWork, MaxRestarts    \* bounds: requests and synchronisations, restarts

\* What the request bodies of the admin's handlers can set.
ASSUME PatchAssumption ==
    \A patch \in Patches :
        /\ DOMAIN patch \subseteq {"upstream", "upstreams", "protocol", "group", "targets", "pricing", "status"}
        /\ "upstreams" \in DOMAIN patch => patch.upstreams \in Seq(STRING)

VARIABLES rows,      \* persisted rows, by model id
          registry,  \* config.routes, by model id
          sync,      \* syncCatalog in progress, one at a time
          ops,       \* admin handlers in progress, by admin
          serving,   \* FALSE from a start until its first synchronisation ends
          work,      \* requests and synchronisations so far
          restarts,  \* restarts so far
          asked,     \* history: what admins' requests left set and nobody overlapped
          torn       \* history: models two writers worked on at once, until healed

vars == <<rows, registry, sync, ops, serving, work, restarts, asked, torn>>

NoSync == [pc |-> "idle", fetched |-> {}, catalog |-> [u \in Upstreams |-> {}],
           snapshot |-> None, todo |-> {}, met |-> {}]
Listed(catalog) == UNION {catalog[u] : u \in Upstreams}
Fresh(catalog) == [m \in Listed(catalog) |-> fallback(m, mergeModels(catalog, m))]
Runtime(rs) == [m \in DOMAIN rs |-> applyLocalModelDefaults(ModelRouteFromRow(rs[m]))]

\* What a request is left with after validation, if it passes.
Accepted(patch, route) ==
    LET sets(f) == f \in DOMAIN patch
        lists == IF sets("upstreams") THEN ValidateAndNormalizeUpstreams(patch.upstreams)
                 ELSE {route.upstreams}
    IN  {[f \in DOMAIN patch |-> IF f = "upstreams" THEN ups ELSE patch[f]] :
            ups \in {l \in lists : /\ sets("upstream") /\ sets("upstreams") => Contains(l, patch.upstream)
                                   /\ sets("targets") => DOMAIN patch.targets \subseteq Range(l)}}

\* A database that a synchronisation filled and an admin may have edited, and
\* the registry that left.
Init ==
    /\ \E catalog \in Catalogs :
          LET synced == Fresh(catalog)
          IN  \/ rows = synced /\ asked = [m \in Models |-> None]
              \/ \E m \in DOMAIN synced, patch \in Patches : \E p \in Accepted(patch, synced[m]) :
                    LET row == NewModelRouteRow([Over(p, synced[m]) EXCEPT !.custom = DOMAIN p])
                    IN  /\ rows = Put(synced, m, row)
                        /\ asked = [x \in Models |-> IF x = m THEN Restrict(row, DOMAIN p) ELSE None]
    /\ registry = Runtime(rows)
    /\ sync = NoSync /\ ops = None /\ serving = TRUE
    /\ work = 0 /\ restarts = 0
    /\ torn = {}

Busy == {ops[a].id : a \in DOMAIN ops}

-----------------------------------------------------------------------------
(***************************************************************************)
(* The synchronisation.                                                    *)
(***************************************************************************)
\* Mutant: what arrived is enough.
MayRebuildPartly(fetched, arrived) == Listed(arrived) # {}
\* A rebuild needs both catalogs and a model in them.
MayRebuild(fetched, arrived) == fetched = Upstreams /\ Listed(arrived) # {}

\* TryLock, the three fetches, mergeModels and LoadModelRoutes. The fetches
\* share nothing, and the rows are read after the last of them. Admins rebuild;
\* a start synchronises.
BeginSync(kind, fetched, catalog) ==
    LET arrived == [u \in Upstreams |-> IF u \in fetched THEN catalog[u] ELSE {}] IN
    /\ sync.pc = "idle" /\ work < MaxWork
    /\ kind = "rebuild" => serving /\ MayRebuild(fetched, arrived)
    /\ sync' = [pc |-> IF kind = "rebuild" THEN "rebuilding" ELSE "saving",
                fetched |-> fetched, catalog |-> arrived, snapshot |-> rows,
                todo |-> Listed(arrived) \cup DOMAIN rows, met |-> Busy]
    /\ work' = work + 1
    /\ ops' = [a \in DOMAIN ops |-> [ops[a] EXCEPT !.alone = FALSE]]
    /\ torn' = torn \cup Busy
    /\ asked' = [m \in Models |-> IF m \in Busy THEN None ELSE asked[m]]
    /\ UNCHANGED <<rows, registry, serving, restarts>>

\* The row a synchronisation writes for m, from the row it read. OpenRouter's
\* list matches the model or not, and may not have arrived.
Synced(m, matched) ==
    LET ups == mergeModels(sync.catalog, m)
        old == sync.snapshot[m]
        route == CASE ups = <<>> -> reconcile(old, sync.fetched)
                   [] ups # <<>> /\ m \in DOMAIN sync.snapshot ->
                         ApplyOpenRouterMetadata(buildMergedRoute(m, ups, old, sync.fetched), matched)
                   [] OTHER -> ApplyOpenRouterMetadata(fallback(m, ups), matched)
    IN  NewModelRouteRow(route)

\* rowChanged: a row no catalog lists is written only if it changed.
Unchanged(m) ==
    LET old == sync.snapshot[m]
    IN  mergeModels(sync.catalog, m) = <<>>
        /\ Synced(m, FALSE).status = old.status /\ Synced(m, FALSE).upstreams = old.upstreams

\* One row is saved: first the models of the Go catalog, then those of Ollama
\* alone, then the rows that no catalog lists.
SaveNext(m, matched) ==
    LET turn == IF sync.todo \cap sync.catalog["go"] # {} THEN sync.catalog["go"]
                ELSE IF sync.todo \cap sync.catalog["ollama"] # {} THEN sync.catalog["ollama"]
                ELSE Models
    IN  /\ sync.pc = "saving" /\ m \in sync.todo \cap turn
        /\ rows' = IF Unchanged(m) THEN rows ELSE Put(rows, m, Synced(m, matched))
        /\ sync' = [sync EXCEPT !.todo = @ \ {m}]
        /\ UNCHANGED <<registry, ops, serving, work, restarts, asked, torn>>

\* ReplaceModelRoutes: one transaction, without what admins customized.
ReplaceRows(found) ==
    LET routes == [m \in Listed(sync.catalog) |->
                     ApplyOpenRouterMetadata(Fresh(sync.catalog)[m], m \in found)]
    IN  /\ sync.pc = "rebuilding"
        /\ rows' = routes
        /\ sync' = [sync EXCEPT !.pc = "replacing", !.snapshot = routes, !.todo = {}]
        /\ asked' = [m \in Models |-> None]
        /\ UNCHANGED <<registry, ops, serving, work, restarts, torn>>

\* ReloadRuntimeFromStore reads the rows and then replaces the registry.
ReloadRows ==
    /\ sync.pc = "saving" /\ sync.todo = {}
    /\ sync' = [sync EXCEPT !.pc = "replacing", !.snapshot = rows]
    /\ UNCHANGED <<rows, registry, ops, serving, work, restarts, asked, torn>>
\* Mutant: routes are added to the registry, none is taken out.
ReplaceModelsMerging ==
    /\ sync.pc = "replacing"
    /\ registry' = Over(Runtime(sync.snapshot), registry)
    /\ sync' = NoSync /\ serving' = TRUE
    /\ torn' = torn \cap sync.met
    /\ UNCHANGED <<rows, ops, work, restarts, asked>>
ReplaceModels ==
    /\ sync.pc = "replacing"
    /\ registry' = Runtime(sync.snapshot)
    /\ sync' = NoSync /\ serving' = TRUE
    /\ torn' = torn \cap sync.met
    /\ UNCHANGED <<rows, ops, work, restarts, asked>>

\* The store fails: rows saved so far stay, the registry is not reloaded.
SyncFails ==
    /\ sync.pc \in {"saving", "rebuilding"}
    /\ sync' = NoSync /\ serving' = TRUE
    /\ torn' = IF rows = sync.snapshot /\ serving THEN torn ELSE Models
    /\ UNCHANGED <<rows, registry, ops, work, restarts, asked>>

-----------------------------------------------------------------------------
(***************************************************************************)
(* The admin's handlers.                                                   *)
(***************************************************************************)
Blank == [upstream |-> "go", upstreams |-> <<>>, protocol |-> "", group |-> "", targets |-> None,
          pricing |-> "none", status |-> "enabled", custom |-> {}]

\* A handler starts on m. If another writer works on m, nothing is promised to
\* either of them.
Start(a, m, op) ==
    LET alone == sync.pc = "idle" /\ m \notin Busy
    IN  /\ serving /\ a \notin DOMAIN ops /\ work < MaxWork
        /\ ops' = Put([b \in DOMAIN ops |-> [ops[b] EXCEPT !.alone = @ /\ ops[b].id # m]],
                     a, [op EXCEPT !.alone = alone])
        /\ work' = work + 1
        /\ torn' = IF alone THEN torn ELSE torn \cup {m}
        /\ asked' = IF alone THEN asked ELSE [asked EXCEPT ![m] = None]
        /\ sync' = IF sync.pc = "idle" THEN sync ELSE [sync EXCEPT !.met = @ \cup {m}]
Op(pc, m, route, patch, whole) ==
    [pc |-> pc, id |-> m, route |-> route, patch |-> patch, whole |-> whole, alone |-> TRUE]

\* updateModel and toggleModel read the row and change some fields.
Update(a, m, patch) ==
    /\ m \in DOMAIN rows
    /\ \E p \in Accepted(patch, rows[m]) :
          Start(a, m, Op("merge", m, Over(p, ModelRouteFromRow(rows[m])), p, FALSE))
    /\ UNCHANGED <<rows, registry, serving, restarts>>
Toggle(a, m) ==
    LET flipped(s) == IF s = "enabled" THEN "disabled" ELSE "enabled"
    IN  m \in DOMAIN rows /\ Update(a, m, [status |-> flipped(rows[m].status)])

\* upsertModel builds the route from the request alone; a protocol is required
\* and the group follows the primary upstream.
Upsert(a, m, patch) ==
    LET named == Over(patch, [Blank EXCEPT !.protocol = inferProtocol(m)])
        route == [named EXCEPT !.group = OrElse(@, named.upstream)]
    IN  /\ named.protocol # ""
        /\ \E p \in Accepted(patch, Blank) :
              LET full == Over(p, [protocol |-> route.protocol, group |-> route.group])
              IN  Start(a, m, Op("merge", m, Over(full, route), full, TRUE))
        /\ UNCHANGED <<rows, registry, serving, restarts>>

\* mergeModelCustomizedFields reads the row again.
MergeCustomized(a) ==
    LET op == ops[a]
        before == IF op.id \in DOMAIN rows THEN rows[op.id].custom ELSE {}
    IN  /\ a \in DOMAIN ops /\ op.pc = "merge"
        /\ ops' = [ops EXCEPT ![a].pc = "save",
                              ![a].route.custom = @ \cup before \cup DOMAIN op.patch]
        /\ UNCHANGED <<rows, registry, sync, serving, work, restarts, asked, torn>>

\* SaveModelRoute writes the whole row, or fails. What a POST does not name it
\* blanks, and fields edited before stay customized with the blank.
SaveEdit(a) ==
    LET op == ops[a]
        row == NewModelRouteRow(op.route)
        set == [f \in DOMAIN op.patch |-> row[f]]
    IN  /\ a \in DOMAIN ops /\ op.pc = "save"
        /\ \/ /\ rows' = Put(rows, op.id, row)
              /\ ops' = [ops EXCEPT ![a].pc = "register", ![a].route = row]
              /\ asked' = IF ~op.alone THEN asked
                          ELSE [asked EXCEPT ![op.id] =
                                    Over(set, IF op.whole THEN Restrict(row, DOMAIN @) ELSE @)]
           \/ ops' = Drop(ops, a) /\ UNCHANGED <<rows, asked>>
        /\ UNCHANGED <<registry, sync, serving, work, restarts, torn>>

RegisterModel(a) ==
    LET op == ops[a]
    IN  /\ a \in DOMAIN ops /\ op.pc = "register"
        /\ registry' = Put(registry, op.id, applyLocalModelDefaults(ModelRouteFromRow(op.route)))
        /\ ops' = Drop(ops, a)
        /\ UNCHANGED <<rows, sync, serving, work, restarts, asked, torn>>

\* deleteModel: the registry first, then the row; an error is not noticed.
Delete(a, m) ==
    /\ Start(a, m, Op("delete", m, Blank, None, TRUE))
    /\ registry' = Drop(registry, m)
    /\ UNCHANGED <<rows, serving, restarts>>
DeleteRow(a) ==
    LET m == ops[a].id
    IN  /\ a \in DOMAIN ops /\ ops[a].pc = "delete"
        /\ \/ /\ rows' = Drop(rows, m) /\ asked' = [asked EXCEPT ![m] = None]
              /\ UNCHANGED torn
           \/ torn' = torn \cup {m} /\ UNCHANGED <<rows, asked>>
        /\ ops' = Drop(ops, a)
        /\ UNCHANGED <<registry, sync, serving, work, restarts>>

\* The process ends anywhere and starts again: loadModelRoutes leaves out rows
\* of other key groups, and a synchronisation runs before requests are served.
Restart ==
    LET own == {m \in DOMAIN rows : rows[m].group \in {"go", "ollama"}}
    IN  /\ restarts < MaxRestarts
        /\ restarts' = restarts + 1
        /\ registry' = Runtime(Restrict(rows, own))
        /\ sync' = NoSync /\ ops' = None /\ serving' = FALSE
        /\ torn' = {}
        /\ UNCHANGED <<rows, work, asked>>

Next ==
    \/ \E kind \in {"sync", "rebuild"}, fetched \in SUBSET Upstreams,
          catalog \in Catalogs : BeginSync(kind, fetched, catalog)
    \/ \E m \in Models, matched \in BOOLEAN : SaveNext(m, matched)
    \/ \E found \in SUBSET Models : ReplaceRows(found)
    \/ ReloadRows \/ ReplaceModels \/ SyncFails
    \/ \E a \in Admins, m \in Models :
          Toggle(a, m) \/ Delete(a, m) \/ \E patch \in Patches : Update(a, m, patch) \/ Upsert(a, m, patch)
    \/ \E a \in DOMAIN ops : MergeCustomized(a) \/ SaveEdit(a) \/ RegisterModel(a) \/ DeleteRow(a)
    \/ Restart

Spec == Init /\ [][Next]_vars

-----------------------------------------------------------------------------
(***************************************************************************)
(* Properties.                                                             *)
(***************************************************************************)
\* What an admin set stays set through every synchronisation, PATCH of another
\* field, toggle, failure and restart, until a rebuild or a deletion (sync.go:92,
\* "Admin customized fields are preserved"). Not kept through a POST of the model,
\* which replaces the whole row (upsertModel): an earlier edit it does not name is
\* lost, and what stays set is the blank it left, which mergeModelCustomizedFields
\* still flags as customized. Nor when the edit overlapped another writer of the
\* row: every writer saves the whole row it read before.
EditsKept ==
    \A m \in Models : \A f \in DOMAIN asked[m] :
        m \in DOMAIN rows /\ f \in rows[m].custom /\ rows[m][f] = asked[m][f]

\* When no writer is at work, requests are routed by what is stored: whatever
\* the order of edits, synchronisations, failures and restarts before. Not kept
\* for a model two writers worked on at once (each writes rows and registry in
\* its own order), whose deletion failed, or after a synchronisation that
\* failed, until the next one has ended.
RoutesAgree ==
    serving /\ sync.pc = "idle" => \A m \in Models \ (torn \cup Busy) :
        /\ m \in DOMAIN registry <=> m \in DOMAIN rows
        /\ m \in DOMAIN rows => registry[m] = Runtime(rows)[m]

\* After a synchronisation each upstream serves a model exactly if its catalog
\* lists it, or did not arrive and it served the model before; and no model is
\* disabled unless every upstream it had was found not to list it (sync.go: "a
\* temporary fetch failure should not be treated as authoritative model
\* removal"). Not kept for a row without a list of upstreams, as the admin API
\* can create it: its primary upstream is forgotten, and it is disabled when
\* nothing was fetched at all.
FetchesDecide ==
    sync.pc = "saving" /\ sync.todo = {} => \A m \in DOMAIN rows \ sync.met :
        LET known == m \in DOMAIN sync.snapshot
            before == IF known THEN sync.snapshot[m].upstreams ELSE <<>>
            custom(f) == f \in rows[m].custom
            serves(u) == IF u \in sync.fetched THEN m \in sync.catalog[u] ELSE Contains(before, u)
        IN  (known => before # <<>>) =>
            /\ custom("upstreams") \/ \A u \in Upstreams : Contains(rows[m].upstreams, u) <=> serves(u)
            /\ rows[m].status = "disabled" =>
                  \/ known /\ sync.snapshot[m].status = "disabled"
                  \/ ~custom("status") /\ \A u \in Range(before) : ~serves(u)

\* An upstream is called the way its own catalog says, under every model it
\* serves: protocol and key group, though Go and Ollama differ in both. Not kept
\* while one catalog is missing (its upstream stays, its target goes), when the
\* admin set some of the fields involved, and for the protocol of a model that
\* Ollama alone serves: Ollama speaks Chat (sync.go:165), but the route is given
\* the protocol its name suggests.
RightTarget ==
    sync.pc = "replacing" /\ sync.fetched = Upstreams => \A m \in DOMAIN sync.snapshot \ sync.met :
        LET route == Runtime(sync.snapshot)[m]
        IN  route.status = "enabled" /\ route.custom \cap
                {"upstream", "upstreams", "protocol", "group", "targets", "status"} = {} =>
            \A u \in Range(route.upstreams) :
                /\ route.upstreams = <<"ollama">> \/ TargetProtocol(route, u) = target(m, u).protocol
                /\ ResolveUpstreamGroup(route, u) = u

Deleted == \E a \in DOMAIN ops : ops[a].pc = "delete" /\ rows' = Drop(rows, ops[a].id)
Rebuilt == /\ sync.fetched = Upstreams /\ DOMAIN rows' = Listed(sync.catalog) /\ DOMAIN rows' # {}
           /\ \A m \in DOMAIN rows', u \in Upstreams :
                 Contains(rows'[m].upstreams, u) <=> m \in sync.catalog[u]

\* Rows go only one by one, when an admin deletes them, or all at once for two
\* complete catalogs that offer something else (sync.go:99, "atomically replacing
\* every persisted model route").
RowsStay == [][DOMAIN rows \subseteq DOMAIN rows' \/ Deleted \/ Rebuilt]_rows
=============================================================================
