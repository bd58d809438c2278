----------------------------- MODULE MCCatalog -----------------------------
EXTENDS Catalog, TLC

CONSTANTS qwen, glm   \* a model both upstreams may list, and one of Ollama's

SomeCatalogs ==
    {[go |-> {qwen}, ollama |-> {qwen}], [go |-> {qwen}, ollama |-> {glm}],
     [go |-> {}, ollama |-> {qwen, glm}], [go |-> {}, ollama |-> {}]}
SomePatches ==
    {[upstreams |-> <<"ollama", "go", "ollama">>, upstream |-> "ollama"],
     [targets |-> "ollama" :> [protocol |-> "responses", group |-> ""]],
     [group |-> "premium", protocol |-> ""], [pricing |-> "admin"]}
SomeConfigured == {None, "a" :> "x" @@ "b" :> ""}
\* Two spellings of one proxy, another proxy, and none.
Proxies == "" :> "none" @@ "http://p" :> "p" @@ "HTTP://p" :> "p" @@ "http://q" :> "q"
=============================================================================
