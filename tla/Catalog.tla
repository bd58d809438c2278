------------------------------ MODULE Catalog ------------------------------
(***************************************************************************)
(* What a request is looked up in before it is sent: the model catalog,    *)
(* the name mappings, and the cache of HTTP clients. The three have locks  *)
(* and rows of their own and share no state, so a behaviour follows one.   *)
(***************************************************************************)
EXTENDS ModelCatalog

CONSTANTS Sources, Targets, Configured, MaxEdits, Callers, Key

VARIABLES part,                                \* "models", "mappings" or "clients"
          stored, rules, overlay, handlers, edits, fixed, raced,
          clientCache, made, waiting, holds

mappingVars == <<stored, rules, overlay, handlers, edits, fixed, raced>>
clientVars == <<clientCache, made, waiting, holds>>

Mapping == INSTANCE ModelMappings WITH Mappers <- Admins
Clients == INSTANCE ClientCache

ModelsIdle == /\ rows = None /\ registry = None /\ sync = NoSync /\ ops = None /\ serving = TRUE
              /\ work = 0 /\ restarts = 0 /\ asked = [m \in Models |-> None] /\ torn = {}

CatalogInit ==
    \/ part = "models" /\ Init /\ Mapping!Init /\ Clients!Init
    \/ part = "mappings" /\ ModelsIdle /\ Mapping!Init /\ Clients!Init
    \/ part = "clients" /\ ModelsIdle /\ Mapping!Init /\ Clients!Init

CatalogNext ==
    /\ UNCHANGED part
    /\ \/ part = "models" /\ Next /\ UNCHANGED <<mappingVars, clientVars>>
       \/ part = "mappings" /\ Mapping!Next /\ UNCHANGED <<vars, clientVars>>
       \/ part = "clients" /\ Clients!Next /\ UNCHANGED <<vars, mappingVars>>

CatalogSpec == CatalogInit /\ [][CatalogNext]_<<vars, mappingVars, clientVars, part>>

\* What requests are looked up in is what is stored, models and mappings alike
\* (see RoutesAgree and, in ModelMappings, RulesAgree).
RegistryAgrees == RoutesAgree /\ Mapping!RulesAgree

\* Callers that use one proxy share one connection pool (see ClientCache).
OneClientPerProxy == Clients!OneClientPerProxy
=============================================================================
