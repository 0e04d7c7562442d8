------------------------------ MODULE Readiness ------------------------------
(***************************************************************************)
(* What GET /api/ready says of the service (backend/api/probes.py): the    *)
(* deployment's authentication must be configured, the vector store must   *)
(* answer, both models must be at hand, and, unless an update goes on, the *)
(* manifest and the collection must agree on what there is.                *)
(***************************************************************************)
EXTENDS Naturals

Roles == {"admin", "editor", "viewer"}
Reads == {"ok", "index", "other"}   \* a trial read, or the error it raises
Model == {"loaded", "local", "cached", "absent"}
Tally == [documents : Nat, chunks : Nat]

Condition ==
    [reachable : BOOLEAN,
     production : BOOLEAN,     \* RAG_ENVIRONMENT is production
     hardened : BOOLEAN,       \* secure cookie, HTTPS, webhook, strong secret
     mode : {"dev", "single_user", "multi_user", "other"},
     authMode : {"legacy", "users"},
     secret : BOOLEAN,         \* the password or secret of the mode is set
     database : BOOLEAN,       \* the user database can be read and written
     users : SUBSET SUBSET (Roles \cup {"unknown"}),  \* roles of active accounts
     busy : BOOLEAN,           \* an upload batch or a destructive change goes on
     reads : Reads \X Reads,   \* the first read of the collection, and a second
     offline : BOOLEAN,        \* HF_HUB_OFFLINE
     embedding : Model,
     reranker : Model,
     countable : BOOLEAN,      \* manifest and collection can be counted
     initialized : BOOLEAN,    \* of the manifest
     listed : Tally,           \* in the manifest
     held : Tally]             \* in the collection
-----------------------------------------------------------------------------
\* production_security_error
Secure(c) ==
    c.production => c.mode = "multi_user" /\ c.authMode = "users" /\ c.hardened

\* UserStore.readiness: roles are known ones, and somebody active administers.
UsersReady(c) ==
    /\ c.database
    /\ \A roles \in c.users : roles \subseteq Roles
    /\ \E roles \in c.users : "admin" \in roles

\* auth_readiness
Configured(c) ==
    /\ Secure(c)
    /\ \/ c.mode = "dev" /\ c.authMode = "legacy"
       \/ c.mode = "single_user" /\ c.authMode = "legacy" /\ c.secret
       \/ c.mode = "multi_user" /\ c.authMode = "users" /\ c.secret /\ UsersReady(c)

\* get_vector_store_health: a busy store is not read; an index that is not up
\* yet is read once more.
StoreHealthy(c) ==
    \/ c.busy
    \/ c.reads[1] = "ok"
    \/ c.reads[1] = "index" /\ c.reads[2] = "ok"

\* get_hf_model_readiness: a model is here, or may be fetched.
ModelReady(c, model) == model # "absent" \/ ~c.offline

\* A store never written to holds nothing.
Consistent(c) ==
    c.held = IF c.initialized THEN c.listed ELSE [documents |-> 0, chunks |-> 0]

\* _readiness.  The counts may disagree while an update goes on.
Ready(c) ==
    /\ Configured(c)
    /\ StoreHealthy(c)
    /\ ModelReady(c, c.embedding) /\ ModelReady(c, c.reranker)
    /\ c.countable
    /\ c.busy \/ Consistent(c)

\* check_ready: an answer other than 200 with ready, or none, is critical.
ReadyCritical(c) == ~c.reachable \/ ~Ready(c)
=============================================================================
