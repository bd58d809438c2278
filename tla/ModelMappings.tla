---------------------------- MODULE ModelMappings ----------------------------
(***************************************************************************)
(* Model name rewrites: rows in SQLite, the rules requests are rewritten   *)
(* by (config/model_mapping.go), the admin's handlers and a start, which   *)
(* overlays the rows with MODEL_MAPPINGS and MODEL_MAPPING_FILE.           *)
(***************************************************************************)
EXTENDS Naturals, Maps

CONSTANTS Sources, Targets,   \* names as requests and configuration give them, "" among them
          Configured,         \* what the variable or the file may hold
          Mappers,            \* admins
          MaxEdits            \* bound: admin requests

VARIABLES stored,    \* rows, source to target
          rules,     \* config.modelMappings
          overlay,   \* what the last start took from variable and file
          handlers,  \* admin handlers in progress
          edits,     \* requests so far
          fixed,     \* history: sources of the overlay no admin has touched since the start
          raced      \* history: sources two handlers worked on at once, or a failure hit

vars == <<stored, rules, overlay, handlers, edits, fixed, raced>>

normalize(m) == Restrict(m, {s \in DOMAIN m : s # "" /\ m[s] # ""})

\* loadModelMappings: the rows first, variable over rows, file over both. Rows
\* that cannot be read are left out, and so is what cannot be parsed or holds no
\* usable pair.
Start(rows, env, file) ==
    /\ overlay' = Over(normalize(file), normalize(env))
    /\ rules' = normalize(Over(overlay', rows))
    /\ fixed' = DOMAIN overlay'
    /\ handlers' = None

Init ==
    /\ stored = None /\ rules = None /\ overlay = None /\ handlers = None
    /\ edits = 0 /\ fixed = {} /\ raced = {}

Begin(a, source, handler) ==
    /\ a \notin DOMAIN handlers /\ edits < MaxEdits /\ source # ""
    /\ handlers' = Put(handlers, a, handler)
    /\ edits' = edits + 1
    /\ fixed' = fixed \ {source}
    /\ raced' = IF \E b \in DOMAIN handlers : handlers[b].source = source
                THEN raced \cup {source} ELSE raced

\* upsertModelMapping: the row, then the rule.
Upsert(a, source, goal) ==
    /\ goal # ""
    /\ Begin(a, source, [pc |-> "save", source |-> source, target |-> goal])
    /\ UNCHANGED <<stored, rules, overlay>>
SaveModelMapping(a) ==
    LET h == handlers[a]
    IN  /\ a \in DOMAIN handlers /\ h.pc = "save"
        /\ \/ stored' = Put(stored, h.source, h.target) /\ handlers' = [handlers EXCEPT ![a].pc = "register"]
              /\ UNCHANGED raced
           \/ handlers' = Drop(handlers, a) /\ raced' = raced \cup {h.source} /\ UNCHANGED stored
        /\ UNCHANGED <<rules, overlay, edits, fixed>>

RegisterModelMapping(a) ==
    LET h == handlers[a]
    IN  /\ a \in DOMAIN handlers /\ h.pc = "register"
        /\ rules' = Put(rules, h.source, h.target)
        /\ handlers' = Drop(handlers, a)
        /\ UNCHANGED <<stored, overlay, edits, fixed, raced>>

\* deleteModelMapping: the rule, then the row, whose error is not noticed.
Delete(a, source) ==
    /\ Begin(a, source, [pc |-> "delete", source |-> source, target |-> ""])
    /\ rules' = Drop(rules, source)
    /\ UNCHANGED <<stored, overlay>>
DeleteModelMapping(a) ==
    LET h == handlers[a]
    IN  /\ a \in DOMAIN handlers /\ h.pc = "delete"
        /\ \/ stored' = Drop(stored, h.source) /\ UNCHANGED raced
           \/ raced' = raced \cup {h.source} /\ UNCHANGED stored
        /\ handlers' = Drop(handlers, a)
        /\ UNCHANGED <<rules, overlay, edits, fixed>>

\* The process ends anywhere and starts, perhaps configured differently.
Restart ==
    \E env, file \in Configured, readable \in BOOLEAN :
        /\ Start(IF readable THEN stored ELSE None, env, file)
        /\ raced' = IF readable THEN {} ELSE Sources
        /\ UNCHANGED <<stored, edits>>

Next ==
    \/ \E a \in Mappers, source \in Sources :
          Delete(a, source) \/ \E goal \in Targets : Upsert(a, source, goal)
    \/ \E a \in Mappers : SaveModelMapping(a) \/ RegisterModelMapping(a) \/ DeleteModelMapping(a)
    \/ Restart

Spec == Init /\ [][Next]_vars

\* When no handler is at work on a name, requests for it are rewritten as the
\* row says, or as configuration said at the start if no admin has touched the
\* name since: the rule an admin saved or deleted last is the one in force.
\* Not kept when two handlers worked on the name at once, or a statement failed.
RulesAgree ==
    LET busy == {handlers[a].source : a \in DOMAIN handlers}
        meant == Over(Restrict(overlay, fixed), Restrict(stored, DOMAIN stored \ fixed))
    IN  \A s \in Sources \ (raced \cup busy) :
          /\ s \in DOMAIN rules <=> s \in DOMAIN meant
          /\ s \in DOMAIN rules => rules[s] = meant[s]
=============================================================================
