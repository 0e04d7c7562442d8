-------------------------- MODULE DocumentMetadata --------------------------
(***************************************************************************)
(* The three copies of a document's metadata - the governance file, the    *)
(* manifest row and the metadata of its chunks - and who changes them:     *)
(* uploads and deletions of the service, the two sync commands that run    *)
(* beside it in processes of their own and take none of its locks, the     *)
(* one-time migration of records older than the manifest, and the          *)
(* approval workflow that produces a new governance file                   *)
(* (storage/kb_manifest.py, storage/document_governance*.py, storage/      *)
(* acl.py, storage/vector_store.py:74-151, scripts/sync_document_*.py).    *)
(*                                                                         *)
(* KnowledgeBase has the uploads and deletions step by step; here they are *)
(* as coarse as the vector lock allows.  The chunks of a revision carry    *)
(* one metadata and are updated by one call, so a record stands for them.  *)
(***************************************************************************)
EXTENDS Naturals, FiniteSets, Sequences

CONSTANTS Sources,      \* document names
          Families,     \* document families
          Acls,         \* access metadata an upload or the ACL file can give
          Readers,      \* principals
          Admins,       \* those with the admin role
          Granted,      \* the readers an access metadata admits
          AclConfig,    \* config/document_acl.json: source -> access metadata
          Configs,      \* the governance files an operator may write
          Approvers,    \* people who may approve an application
          Proposals,    \* the applications people may make
          LegacyStores, \* what the collection may hold before the manifest
          None,         \* no access metadata, no source, no application
          MaxRev        \* bound: revisions ever made

ASSUME MetadataConstants ==
    /\ IsFiniteSet(Sources)
    /\ Admins \subseteq Readers
    /\ Granted \subseteq Readers \X Acls
    /\ DOMAIN AclConfig \subseteq Sources
    /\ \A s \in DOMAIN AclConfig : AclConfig[s] \in Acls
    /\ \A c \in Configs : DOMAIN c.docs \subseteq Sources
    /\ None \notin Sources \cup Acls \cup Approvers
    /\ MaxRev \in Nat

VARIABLES
    store,        \* the collection: one record per stored revision
    active,       \* source_manifest: the active revision, 0 without a row
    meta,         \* source_metadata: the metadata row, NoMeta without one
    generation,   \* the manifest generation, modulo 2: a step moves it once at most
    initialized,  \* schema_initialized
    nextRev,      \* the next revision id
    job,          \* the service call that holds _VECTOR_LOCK
    sync,         \* the locals of the sync command under way
    config,       \* config/document_governance.json
    application,  \* the application under review
    candidate,    \* the candidate file the workflow has written
    deleted       \* history: sources that were deleted

manifest == <<active, meta, generation, initialized>>
workflow == <<application, candidate>>
vars == <<store, active, meta, generation, initialized, nextRev, job, sync,
          config, application, candidate, deleted>>
-----------------------------------------------------------------------------
(***************************************************************************)
(* Governance files.                                                       *)
(***************************************************************************)

Authorities == {"authoritative", "reference", "superseded", "unconfirmed", "draft"}
Statuses == {"active", "archived"}
Policies == {"unresolved", "authoritative", "all_active"}
Gov == [authority : Authorities, status : Statuses]

\* An entry of "documents".  `evidence`: version, effective date, scope and
\* the control package are complete; `replaces`: its replacement decision.
Entry == [family : Families, gov : Gov, supersedes : SUBSET Sources,
          replaces : BOOLEAN, evidence : BOOLEAN]
Config == [policy : Policies, docs : UNION {[S -> Entry] : S \in SUBSET Sources}]

\* _validate_authoritative_control
Controlled(c, s) ==
    LET e == c.docs[s]
    IN  /\ e.evidence
        /\ e.replaces <=> e.supersedes # {}
        /\ \A r \in e.supersedes :
              /\ r \in DOMAIN c.docs
              /\ c.docs[r].family = e.family
              /\ c.docs[r].gov = [authority |-> "superseded", status |-> "archived"]

Authoritative(c) == {s \in DOMAIN c.docs : c.docs[s].gov.authority = "authoritative"}

\* load_governance accepts the file; otherwise whoever reads it raises.
Valid(c) ==
    /\ \A s \in DOMAIN c.docs :
          /\ c.docs[s].gov.authority = "superseded" => c.docs[s].gov.status = "archived"
          /\ c.docs[s].gov.authority = "authoritative" => c.docs[s].gov.status = "active"
          /\ c.policy = "authoritative" =>
                c.docs[s].gov \notin [authority : {"unconfirmed", "reference"},
                                      status : {"active"}]
    /\ \A s \in Authoritative(c) :
          /\ Controlled(c, s)
          /\ \A r \in Authoritative(c) : c.docs[r].family = c.docs[s].family => r = s

\* metadata_for_source: without an entry a document is active and unconfirmed.
GovernanceOf(s) ==
    IF s \in DOMAIN config.docs THEN config.docs[s].gov
    ELSE [authority |-> "unconfirmed", status |-> "active"]

\* source_allowed_for_retrieval
Allowed(g, policy) ==
    /\ g.status = "active"
    /\ g.authority \notin {"draft", "superseded"}
    /\ \/ policy = "all_active"
       \/ policy = "authoritative" /\ g.authority = "authoritative"
-----------------------------------------------------------------------------
(***************************************************************************)
(* Metadata and what readers see of it.                                    *)
(***************************************************************************)

Meta == [gov : Gov, acl : Acls \cup {None}]
NoMeta == [gov |-> None, acl |-> None]
Record == [src : Sources, rev : 1..MaxRev, meta : Meta]

\* What is there before the manifest: records told apart by the number of their
\* revision.
ASSUME LegacyConstants ==
    \A L \in LegacyStores :
        /\ IsFiniteSet(L) /\ L \subseteq Record
        /\ \A k, l \in L : k.rev = l.rev => k = l
        /\ \A k \in L : k.rev <= Cardinality(L)

Active(s) == active[s] # 0
RecordsOf(r) == {k \in store : k.rev = r}
VersionsOf(s) == {k.rev : k \in {x \in store : x.src = s}}

\* A row, or the governance file where a source has none.
MetaOf(s) == IF meta[s] # NoMeta THEN meta[s] ELSE [gov |-> GovernanceOf(s), acl |-> None]

\* acl_metadata_complete
HasAcl(m) == m.acl # None

\* document_visible_to_user: incomplete access metadata admits administrators
\* only.
Admits(m, a) == a \in Admins \/ (HasAcl(m) /\ <<a, m.acl>> \in Granted)

\* list_documents, get_doc_count: nothing when the metadata of one source cannot
\* be told.
Listed(a) ==
    IF ~Valid(config) /\ \E s \in Sources : Active(s) /\ meta[s] = NoMeta THEN {}
    ELSE {s \in Sources : Active(s) /\ Admits(MetaOf(s), a)}

\* _active_revision_filter: nothing at all while the policy is unresolved or
\* the file invalid.
Retrievable(a) ==
    IF ~Valid(config) \/ config.policy = "unresolved" THEN {}
    ELSE {s \in Listed(a) : Allowed(MetaOf(s).gov, config.policy)}

Advanced == 1 - generation

\* Mutant: a metadata change leaves the generation alone.
SetMetadata_NoBump(s, m) ==
    /\ meta' = [meta EXCEPT ![s] = m]
    /\ UNCHANGED <<active, generation, initialized>>

\* set_source_metadata: the row is replaced whole, whether or not the source
\* still has an active revision.
SetMetadata(s, m) ==
    /\ meta' = [meta EXCEPT ![s] = m]
    /\ generation' = IF meta[s] = m THEN generation ELSE Advanced
    /\ UNCHANGED <<active, initialized>>

\* commit_source; the migration supplies no metadata.
CommitSource(s, r, m) ==
    /\ active' = [active EXCEPT ![s] = r]
    /\ meta' = IF m = NoMeta THEN meta ELSE [meta EXCEPT ![s] = m]
    /\ generation' = Advanced
    /\ initialized' = TRUE

\* delete_source and clear, for one source or for all.
DropSources(S) ==
    /\ active' = [s \in Sources |-> IF s \in S THEN 0 ELSE active[s]]
    /\ meta' = [s \in Sources |-> IF s \in S THEN NoMeta ELSE meta[s]]
    /\ generation' = IF \E s \in S : Active(s) THEN Advanced ELSE generation
    /\ initialized' = TRUE
-----------------------------------------------------------------------------
\* `staged` is the metadata an upload has read back with its chunks.
NoJob == [step |-> "none", src |-> None, rev |-> 0, staged |-> NoMeta, todo |-> {}]
Job == [step : {"none", "commit", "activate", "sweep", "discard", "migrate"},
        src : Sources \cup {None}, rev : 0..MaxRev, staged : Meta \cup {NoMeta},
        todo : SUBSET Sources]

\* One sync command at a time: `snap` names the revision of every listed source
\* still to be dealt with.
NothingLeft == [s \in Sources |-> 0]
NoSync == [command |-> "none", at |-> "idle", snap |-> NothingLeft, src |-> None,
           row |-> NoMeta, quiet |-> FALSE]
Sync == [command : {"none", "governance", "acl"}, at : {"idle", "next", "row"},
         snap : [Sources -> 0..MaxRev], src : Sources \cup {None},
         row : Meta \cup {NoMeta}, quiet : BOOLEAN]

\* The sync under way is not alone any more.
Disturbed == [sync EXCEPT !.quiet = FALSE]

Application == [stage : {"pending_hr", "pending_legal", "approved"},
                family : Families, target : Sources, replaced : SUBSET Sources,
                approvals : Seq([role : {"hr", "legal"}, actor : Approvers])]

TypeOK ==
    /\ store \subseteq Record
    /\ active \in [Sources -> 0..MaxRev]
    /\ meta \in [Sources -> Meta \cup {NoMeta}]
    /\ generation \in {0, 1}
    /\ initialized \in BOOLEAN
    /\ nextRev \in 1..(MaxRev + 1)
    /\ job \in Job
    /\ sync \in Sync
    /\ config \in Config
    /\ candidate \in Config \cup {None}
    /\ deleted \subseteq Sources

\* A store that is new, or older than the manifest.
Init ==
    /\ store \in LegacyStores
    /\ active = [s \in Sources |-> 0]
    /\ meta = [s \in Sources |-> NoMeta]
    /\ generation = 0
    /\ initialized = FALSE
    /\ nextRev = Cardinality(store) + 1
    /\ job = NoJob
    /\ sync = NoSync
    /\ config \in {c \in Configs : Valid(c)}
    /\ application = None
    /\ candidate = None
    /\ deleted = {}
-----------------------------------------------------------------------------
(***************************************************************************)
(* The service.  Every call first makes sure that the store is migrated.   *)
(***************************************************************************)

\* Mutant: a manifest without rows counts as one that was never set up.
Migrated_HasRows == \E s \in Sources : Active(s)

Migrated == initialized

Ready == Migrated /\ job = NoJob

\* _ensure_manifest_initialized: an empty store is marked at once, else the
\* sources are grouped and committed one by one.
BeginMigration ==
    /\ ~Migrated
    /\ job = NoJob
    /\ IF store = {}
       THEN initialized' = TRUE /\ UNCHANGED job
       ELSE /\ job' = [NoJob EXCEPT !.step = "migrate", !.todo = {k.src : k \in store}]
            /\ UNCHANGED initialized
    /\ UNCHANGED <<store, active, meta, generation, nextRev, sync, config, workflow,
                   deleted>>

\* A source with one version becomes active without a metadata row; one with
\* several is left as it is, invisible.  That the chunks are stamped with the
\* revision before the row is written tells nothing here.
MigrateSource(s) ==
    /\ job.step = "migrate"
    /\ s \in job.todo
    /\ job' = [job EXCEPT !.todo = @ \ {s}]
    /\ IF Cardinality(VersionsOf(s)) = 1
       THEN CommitSource(s, CHOOSE r \in VersionsOf(s) : TRUE, NoMeta)
       ELSE UNCHANGED manifest
    /\ sync' = Disturbed
    /\ UNCHANGED <<store, nextRev, config, workflow, deleted>>

\* mark_initialized at the end of the loop; or a write fails, and the call
\* that was migrating raises.
EndMigration ==
    /\ job.step = "migrate"
    /\ \/ job.todo = {} /\ initialized' = TRUE
       \/ job.todo # {} /\ UNCHANGED initialized
    /\ job' = NoJob
    /\ UNCHANGED <<store, active, meta, generation, nextRev, sync, config, workflow,
                   deleted>>

\* add_document_to_kb: chunks of a new revision with the governance of the file
\* and the access metadata of the upload, invisible until committed.
StageUpload(s, x) ==
    /\ Ready
    /\ Valid(config)
    /\ nextRev <= MaxRev
    /\ LET m == [gov |-> GovernanceOf(s), acl |-> x]
       IN  /\ store' = store \cup {[src |-> s, rev |-> nextRev, meta |-> m]}
           /\ job' = [NoJob EXCEPT !.step = "commit", !.src = s, !.rev = nextRev,
                                   !.staged = m]
    /\ nextRev' = nextRev + 1
    /\ sync' = Disturbed
    /\ UNCHANGED <<manifest, config, workflow, deleted>>

\* The row gets the metadata computed for the upload, as the staged chunks did.
CommitUpload ==
    /\ job.step = "commit"
    /\ CommitSource(job.src, job.rev, job.staged)
    /\ job' = [job EXCEPT !.step = "activate"]
    /\ sync' = Disturbed
    /\ UNCHANGED <<store, nextRev, config, workflow, deleted>>

\* To mark the chunks as active the upload writes the metadata it has read back
\* before the commit over them, whatever a sync has made of them since; or that
\* fails, and nobody is told.
ActivateChunks ==
    LET ours == RecordsOf(job.rev)
    IN  /\ job.step = "activate"
        /\ store' \in {store, (store \ ours) \cup {[k EXCEPT !.meta = job.staged] : k \in ours}}
        /\ job' = [job EXCEPT !.step = "sweep", !.staged = NoMeta]
        /\ sync' = Disturbed
        /\ UNCHANGED <<manifest, nextRev, config, workflow, deleted>>

\* The other revisions of the source are removed, or stay behind as garbage.
SweepOld ==
    /\ job.step = "sweep"
    /\ store' \in {store, {k \in store : k.src = job.src => k.rev = job.rev}}
    /\ job' = NoJob
    /\ sync' = Disturbed
    /\ UNCHANGED <<manifest, nextRev, config, workflow, deleted>>

\* delete_document_authorized and clear_all_documents: the rows first.
Delete(S) ==
    /\ Ready
    /\ DropSources(S)
    /\ deleted' = deleted \cup S
    /\ job' = [NoJob EXCEPT !.step = "discard", !.todo = S]
    /\ sync' = Disturbed
    /\ UNCHANGED <<store, nextRev, config, workflow>>

\* Then the chunks, as far as that goes.
Discard ==
    /\ job.step = "discard"
    /\ store' \in {store, {k \in store : k.src \notin job.todo}}
    /\ job' = NoJob
    /\ sync' = Disturbed
    /\ UNCHANGED <<manifest, nextRev, config, workflow, deleted>>

\* The service dies in the middle of a call and starts again; a sync command
\* lives on.
Restart ==
    /\ job # NoJob
    /\ job' = NoJob
    /\ UNCHANGED <<store, manifest, nextRev, sync, config, workflow, deleted>>
-----------------------------------------------------------------------------
(***************************************************************************)
(* sync_document_governance and sync_document_acl, with --apply.           *)
(***************************************************************************)

ListedBy(k) == IF k = "acl" THEN DOMAIN AclConfig ELSE DOMAIN config.docs

\* An upload has yet to write what it staged over the chunks it has committed.
Activating == job.step = "activate"

\* The manifest is read once; sources without a row in it are passed over.  The
\* sync is not alone if such an upload is under way.
StartSync(k) ==
    /\ sync.at = "idle"
    /\ k = "governance" => Valid(config)
    /\ sync' = [NoSync EXCEPT !.command = k, !.at = "next", !.quiet = ~Activating,
                !.snap = [s \in Sources |-> IF s \in ListedBy(k) THEN active[s] ELSE 0]]
    /\ UNCHANGED <<store, manifest, nextRev, job, config, workflow, deleted>>

\* What the command writes: the governance fields alone, or with the access
\* fields.  In the chunks they are merged over what is there.
RowOf(s) == [gov |-> GovernanceOf(s),
             acl |-> IF sync.command = "acl" THEN AclConfig[s] ELSE None]
Merged(m, s) == [gov |-> GovernanceOf(s),
                 acl |-> IF sync.command = "acl" THEN AclConfig[s] ELSE m.acl]

\* Mutant: chunks that need no change are taken for a row that needs none.
Pending_ChangedOnly(s) ==
    {k \in RecordsOf(sync.snap[s]) : k.meta # Merged(k.meta, s)}

\* The chunks to update are those of the revision the snapshot names.
Pending(s) == RecordsOf(sync.snap[s])

\* collection.get and collection.update; a source whose chunks are gone by now
\* is passed over.  The two calls are one step: chunks removed between them are
\* as good as removed after them, and a write of ActivateChunks between them is
\* overwritten whole, as if it had failed.
UpdateChunks(s) ==
    LET ours == Pending(s)
    IN  /\ sync.at = "next"
        /\ sync.snap[s] # 0
        /\ Valid(config)
        /\ store' = (store \ ours) \cup {[k EXCEPT !.meta = Merged(k.meta, s)] : k \in ours}
        /\ sync' = [sync EXCEPT !.snap[s] = 0,
                                !.at = IF ours = {} THEN "next" ELSE "row",
                                !.src = IF ours = {} THEN None ELSE s,
                                !.row = IF ours = {} THEN NoMeta ELSE RowOf(s)]
        /\ UNCHANGED <<manifest, nextRev, job, config, workflow, deleted>>

\* manifest.set_source_metadata, of the metadata computed before the update: the
\* governance file, or the manifest, may have changed since.
WriteRow ==
    /\ sync.at = "row"
    /\ SetMetadata(sync.src, sync.row)
    /\ sync' = [sync EXCEPT !.at = "next", !.src = None, !.row = NoMeta]
    /\ UNCHANGED <<store, nextRev, job, config, workflow, deleted>>

\* The command ends, fails, or is killed.
EndSync ==
    /\ sync.at # "idle"
    /\ sync' = NoSync
    /\ UNCHANGED <<store, manifest, nextRev, job, config, workflow, deleted>>
-----------------------------------------------------------------------------
(***************************************************************************)
(* The approval workflow, and the operator who writes the file.            *)
(***************************************************************************)

\* A proposal names a document, those it replaces, and their family.
CreateApplication(p) ==
    /\ application = None
    /\ p.replaced # {} /\ p.target \notin p.replaced
    /\ application' = [stage |-> "pending_hr", family |-> p.family, target |-> p.target,
                       replaced |-> p.replaced, approvals |-> <<>>]
    /\ UNCHANGED <<store, manifest, nextRev, job, sync, config, candidate, deleted>>

\* Mutant: the same person approves twice.
MayApprove_Anyone(role, actor) ==
    role = (CASE application.stage = "pending_hr" -> "hr"
              [] application.stage = "pending_legal" -> "legal"
              [] application.stage = "approved" -> "nobody")

\* Human resources first, then legal, and not the same person.
MayApprove(role, actor) ==
    /\ role = (CASE application.stage = "pending_hr" -> "hr"
                 [] application.stage = "pending_legal" -> "legal"
                 [] application.stage = "approved" -> "nobody")
    /\ \A i \in DOMAIN application.approvals : application.approvals[i].actor # actor

Approve(role, actor) ==
    /\ application # None
    /\ MayApprove(role, actor)
    /\ application' = [application EXCEPT
           !.approvals = Append(@, [role |-> role, actor |-> actor]),
           !.stage = IF role = "hr" THEN "pending_legal" ELSE "approved"]
    /\ UNCHANGED <<store, manifest, nextRev, job, sync, config, candidate, deleted>>

\* build_candidate_config over a base file that lists every document involved.
CandidateOf(base, a) ==
    [policy |-> "authoritative",
     docs |-> [s \in DOMAIN base.docs |->
         CASE s = a.target -> [family |-> a.family, supersedes |-> a.replaced,
                  gov |-> [authority |-> "authoritative", status |-> "active"],
                  replaces |-> TRUE, evidence |-> TRUE]
           [] s \in a.replaced -> [base.docs[s] EXCEPT !.gov =
                  [authority |-> "superseded", status |-> "archived"]]
           [] OTHER -> base.docs[s]]]

\* run_simulation writes the candidate only if load_governance accepts it.
BuildCandidate ==
    /\ application # None
    /\ application.stage = "approved"
    /\ Valid(config)
    /\ application.replaced \cup {application.target} \subseteq DOMAIN config.docs
    /\ Valid(CandidateOf(config, application))
    /\ candidate' = CandidateOf(config, application)
    /\ UNCHANGED <<store, manifest, nextRev, job, sync, config, application, deleted>>

\* The workflow never writes the production file: an operator puts the
\* candidate, or another file, valid or not, in its place.
EditConfig ==
    /\ config' \in Configs \cup ({candidate} \ {None})
    /\ sync' = Disturbed
    /\ UNCHANGED <<store, manifest, nextRev, job, workflow, deleted>>

Service == \/ BeginMigration \/ EndMigration \/ CommitUpload \/ ActivateChunks \/ SweepOld
           \/ Discard
           \/ \E s \in Sources : \/ MigrateSource(s) \/ Delete({s})
                                 \/ \E x \in Acls : StageUpload(s, x)
           \/ Delete(Sources) \/ Restart

SyncStep == \/ \E k \in {"governance", "acl"} : StartSync(k)
            \/ \E s \in Sources : UpdateChunks(s)
            \/ WriteRow \/ EndSync

Review == \/ \E p \in Proposals : CreateApplication(p)
          \/ \E role \in {"hr", "legal"}, p \in Approvers : Approve(role, p)
          \/ BuildCandidate \/ EditConfig

Next == Service \/ Review \/ SyncStep

Spec == Init /\ [][Next]_vars
-----------------------------------------------------------------------------
(***************************************************************************)
(* Properties.                                                             *)
(***************************************************************************)

\* Under one governance file, nothing a reader can list or retrieve changes
\* without the generation moving, whichever process makes the change and
\* whatever it last read: this is what answers cached under a generation rely
\* on (kb_manifest.py:174-213, 215-301, scripts/sync_document_acl.py:56).
Views == [a \in Readers |-> <<Listed(a), Retrievable(a)>>]

VisibilityMovesGeneration ==
    [][config' = config /\ generation' = generation =>
          UNCHANGED <<active, meta>> \/ Views' = Views]_vars

\* A sync that nothing interferes with heals: whatever earlier syncs, failures,
\* uploads and edits left behind, at its end row and chunks of every active
\* source the file lists carry the governance of the file, the ACL sync has made
\* row and chunks the same altogether, and no upload is left that will write
\* older metadata over the chunks it has committed.  An upload between its
\* commit and that write does interfere, also when the sync begins and ends in
\* between (sync_document_governance.py:34-52, sync_document_acl.py:40-57,
\* vector_store.py:532-543).
QuietSyncAgrees ==
    sync.at = "next" /\ sync.snap = NothingLeft /\ sync.quiet =>
        /\ ~Activating
        /\ \A s \in ListedBy(sync.command) : Active(s) =>
              /\ meta[s] = RowOf(s)
              /\ \A k \in RecordsOf(active[s]) :
                    /\ k.meta.gov = GovernanceOf(s)
                    /\ sync.command = "acl" => k.meta = meta[s]

\* What was deleted comes back by an upload only: neither chunks that could not
\* be removed, nor metadata rows a late sync wrote for it, nor a migration after
\* a restart reveal it (kb_manifest.py:333-334, vector_store.py:103-151).
NoResurrection ==
    [][\A s \in Sources : s \in deleted /\ ~Active(s) /\ Active(s)' =>
          job.step = "commit" /\ job.src = s]_vars

\* An authority decision is made by two people and leaves one answer: a
\* candidate exists only with the approvals of human resources and of legal by
\* different people, and under it no two documents of a family, and none that
\* it replaces, can be retrieved (document_governance_workflow.py:81-156,
\* document_governance.py:58-103).
RetrievableUnder(c) == {s \in DOMAIN c.docs : Allowed(c.docs[s].gov, c.policy)}

CandidateDecided ==
    candidate # None =>
        /\ \E p, q \in Approvers :
              /\ p # q
              /\ application.approvals = <<[role |-> "hr", actor |-> p],
                                           [role |-> "legal", actor |-> q]>>
        /\ application.replaced \cap RetrievableUnder(candidate) = {}
        /\ \A r, s \in RetrievableUnder(candidate) :
              candidate.docs[r].family = candidate.docs[s].family => r = s

=============================================================================
