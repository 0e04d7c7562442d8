----------------------------- MODULE AnswerCache -----------------------------
(***************************************************************************)
(* The answer cache (services/cache_service.py over storage/cache.py) as   *)
(* the answer streams of services/rag_service.py use it, in front of a     *)
(* knowledge base that changes at any moment.  L1 is a dictionary of the   *)
(* process, L2 a SQLite table; both are keyed by the query and by the      *)
(* manifest generation the answer was retrieved at.                        *)
(*                                                                         *)
(* The knowledge base is the abstract Corpus that KnowledgeBase is proved  *)
(* to implement.  The generation is read, and each cache level touched, in *)
(* steps of their own: everything else may happen in between.              *)
(*                                                                         *)
(* The order of entries by last access is left out: a full level drops any *)
(* entry but the new one.  The TTL is the flag expired, raised at any time.*)
(* The rewriting of queries, texts, citations and metrics are left out,    *)
(* and so are the multi-user deployments, where the cache is disabled.     *)
(***************************************************************************)
EXTENDS Naturals, FiniteSets

CONSTANTS Streams,       \* threads that answer questions
          Queries,       \* retrieval query, history and mode: what the key digests
          Sources, Contents, NoContent,
          None,
          MaxCacheSize,  \* entries a level holds
          MaxGen,        \* bound: changes of the knowledge base
          MaxRestarts    \* bound: restarts

ASSUME CacheConstants ==
    /\ None \notin [query : Queries, hits : SUBSET (Sources \X Contents)]
    /\ NoContent \notin Contents
    /\ MaxCacheSize \in Nat \ {0}
    /\ MaxGen \in Nat /\ MaxRestarts \in Nat

VARIABLES corpus, generation, since,    \* of Corpus
          answers,                      \* of Corpus: the decisions
          pc, asked, found,             \* of each stream: label, query, cached value
          l1, l2,                       \* the two levels
          leftover,                     \* keys whose recheck or undoing failed or died
          restarts

vars == <<corpus, generation, since, answers, pc, asked, found, l1, l2, leftover, restarts>>

Kb == INSTANCE Corpus WITH Readers <- Streams

kbVars == <<corpus, generation, since, answers>>

Keys == Queries \X (0..MaxGen)
\* A generated answer: the question and the passages it was written from.
Value == [query : Queries, hits : SUBSET (Sources \X Contents)]
\* A row of L2.  late: the generation had moved on when the row was written.
Row == [value : Value, expired : BOOLEAN, late : BOOLEAN]

Labels == {"idle", "decided", "lookup", "l1", "l2", "fill", "copy", "serve",
           "generate", "write", "setL1", "setL2", "recheck", "undo"}

Filled(level) == {k \in Keys : level[k] # None}

TypeOK ==
    /\ Kb!TypeOK /\ generation <= MaxGen
    /\ pc \in [Streams -> Labels]
    /\ asked \in [Streams -> Queries]
    /\ found \in [Streams -> Value \cup {None}]
    /\ l1 \in [Keys -> Value \cup {None}]
    /\ l2 \in [Keys -> Row \cup {None}]
    /\ Cardinality(Filled(l1)) <= MaxCacheSize
    /\ Cardinality(Filled(l2)) <= MaxCacheSize
    /\ leftover \subseteq Keys
    /\ restarts \in 0..MaxRestarts

Init ==
    /\ Kb!Init
    /\ pc = [s \in Streams |-> "idle"]
    /\ asked \in [Streams -> Queries]
    /\ found = [s \in Streams |-> None]
    /\ l1 = [k \in Keys |-> None]
    /\ l2 = [k \in Keys |-> None]
    /\ leftover = {}
    /\ restarts = 0
-----------------------------------------------------------------------------
\* Mutant of Key: make_key without the generation.
Key_NoGeneration(s) == <<asked[s], 0>>

\* make_key, from the generation of the decision.
Key(s) == <<asked[s], answers[s].gen>>

\* The manifest still has the generation the decision was made at.
Current(s) == answers[s].gen = generation

\* What the stream's answer is written from.
Written(s) == [query |-> asked[s], hits |-> answers[s].hits]

\* _trim_session_cache and the overflow query: what a level can become when
\* k is written.
Insertions(level, k, v) ==
    LET full == [level EXCEPT ![k] = v]
    IN IF Cardinality(Filled(full)) <= MaxCacheSize THEN {full}
       ELSE {[full EXCEPT ![victim] = None] : victim \in Filled(full) \ {k}}

\* The rows that came too late.
LateRows == {k \in Filled(l2) : l2[k].late}

Goto(s, label) == pc' = [pc EXCEPT ![s] = label]

\* The stream is over: its decision is dropped.
End(s) ==
    /\ Goto(s, "idle")
    /\ answers' = [answers EXCEPT ![s] = Kb!NoAnswer]
    /\ found' = [found EXCEPT ![s] = None]
    /\ UNCHANGED <<corpus, generation, since, asked>>

Proceed(s, label) == Goto(s, label) /\ UNCHANGED <<kbVars, asked, found>>
-----------------------------------------------------------------------------
\* The world: the knowledge base or the access to it changes, entries pass
\* their TTL.
Change ==
    /\ generation < MaxGen
    /\ \/ \E d \in Sources : Kb!Publish(d) \/ Kb!Withdraw(d)
       \/ Kb!WithdrawAll
       \/ Kb!Restamp
    /\ UNCHANGED <<pc, asked, found, l1, l2, leftover, restarts>>

Expire(k) ==
    /\ l2[k] # None /\ ~l2[k].expired
    /\ l2' = [l2 EXCEPT ![k].expired = TRUE]
    /\ UNCHANGED <<kbVars, pc, asked, found, l1, leftover, restarts>>

\* The process restarts: L1 and the streams are gone, L2 stays.
Restart ==
    /\ restarts < MaxRestarts
    /\ restarts' = restarts + 1
    /\ pc' = [s \in Streams |-> "idle"]
    /\ answers' = [s \in Streams |-> Kb!NoAnswer]
    /\ found' = [s \in Streams |-> None]
    /\ l1' = [k \in Keys |-> None]
    /\ leftover' = leftover \cup LateRows
    /\ UNCHANGED <<corpus, generation, since, asked, l2>>
-----------------------------------------------------------------------------
\* retrieve_only: the decision, stamped with the generation of its snapshot.
Search(s, q) ==
    /\ pc[s] = "idle"
    /\ Kb!Retrieve(s)
    /\ asked' = [asked EXCEPT ![s] = q]
    /\ Goto(s, "decided")
    /\ UNCHANGED <<found, l1, l2, leftover, restarts>>

\* No passages: a rejection.
Reject(s) ==
    /\ pc[s] = "decided" /\ answers[s].hits = {}
    /\ End(s)
    /\ UNCHANGED <<l1, l2, leftover, restarts>>

\* Before the cache is asked: "the knowledge base has just been updated".
TellOutdated(s) ==
    /\ pc[s] = "decided" /\ answers[s].hits # {}
    /\ ~Current(s)
    /\ End(s)
    /\ UNCHANGED <<l1, l2, leftover, restarts>>

AskCache(s) ==
    /\ pc[s] = "decided" /\ answers[s].hits # {}
    /\ Current(s)
    /\ Proceed(s, "lookup")
    /\ UNCHANGED <<l1, l2, leftover, restarts>>

\* CacheService.get: the check before L1.
CheckBeforeGet(s) ==
    /\ pc[s] = "lookup"
    /\ Proceed(s, IF Current(s) THEN "l1" ELSE "generate")
    /\ UNCHANGED <<l1, l2, leftover, restarts>>

HitL1(s) ==
    /\ pc[s] = "l1" /\ l1[Key(s)] # None
    /\ Current(s)
    /\ found' = [found EXCEPT ![s] = l1[Key(s)]]
    /\ Goto(s, "serve")
    /\ UNCHANGED <<kbVars, asked, l1, l2, leftover, restarts>>

\* An entry that is outdated by the time it is read is dropped.
DropL1(s) ==
    /\ pc[s] = "l1" /\ l1[Key(s)] # None
    /\ ~Current(s)
    /\ l1' = [l1 EXCEPT ![Key(s)] = None]
    /\ Proceed(s, "generate")
    /\ UNCHANGED <<l2, leftover, restarts>>

MissL1(s) ==
    /\ pc[s] = "l1" /\ l1[Key(s)] = None
    /\ Proceed(s, "l2")
    /\ UNCHANGED <<l1, l2, leftover, restarts>>

\* PersistentAnswerCache.get, one transaction; any SQLite error is a miss.
HitL2(s) ==
    /\ pc[s] = "l2"
    /\ l2[Key(s)] # None /\ ~l2[Key(s)].expired
    /\ found' = [found EXCEPT ![s] = l2[Key(s)].value]
    /\ Goto(s, "fill")
    /\ UNCHANGED <<kbVars, asked, l1, l2, leftover, restarts>>

MissL2(s) ==
    /\ pc[s] = "l2"
    /\ \/ UNCHANGED l2
       \/ l2[Key(s)] # None /\ l2[Key(s)].expired /\ l2' = [l2 EXCEPT ![Key(s)] = None]
    /\ Proceed(s, "generate")
    /\ UNCHANGED <<l1, leftover, restarts>>

\* The check after L2, then the copy into L1: the generation may have moved on.
RefuseL2(s) ==
    /\ pc[s] = "fill" /\ ~Current(s)
    /\ found' = [found EXCEPT ![s] = None]
    /\ Goto(s, "generate")
    /\ UNCHANGED <<kbVars, asked, l1, l2, leftover, restarts>>

AcceptL2(s) ==
    /\ pc[s] = "fill" /\ Current(s)
    /\ Proceed(s, "copy")
    /\ UNCHANGED <<l1, l2, leftover, restarts>>

FillL1(s) ==
    /\ pc[s] = "copy"
    /\ l1' \in Insertions(l1, Key(s), found[s])
    /\ Proceed(s, "serve")
    /\ UNCHANGED <<l2, leftover, restarts>>

\* The last check before a cached answer is yielded, and the yield.
ServeCached(s) ==
    /\ pc[s] = "serve" /\ Current(s)
    /\ End(s)
    /\ UNCHANGED <<l1, l2, leftover, restarts>>

WithholdCached(s) ==
    /\ pc[s] = "serve" /\ ~Current(s)
    /\ End(s)
    /\ UNCHANGED <<l1, l2, leftover, restarts>>

\* Any read of the generation before a write may raise: the stream breaks off,
\* or (in set) only the write is skipped.
ReadFails(s) ==
    /\ \/ pc[s] \in {"lookup", "fill", "serve", "write"}
       \/ pc[s] = "decided" /\ answers[s].hits # {}
       \/ pc[s] = "l1" /\ l1[Key(s)] # None
    /\ End(s)
    /\ UNCHANGED <<l1, l2, leftover, restarts>>
-----------------------------------------------------------------------------
\* The model streams an answer; an error, an empty answer or a client that
\* leaves ends the stream without one.
FailAnswer(s) ==
    /\ pc[s] = "generate"
    /\ End(s)
    /\ UNCHANGED <<l1, l2, leftover, restarts>>

FinishAnswer(s) ==
    /\ pc[s] = "generate"
    /\ Proceed(s, "write")
    /\ UNCHANGED <<l1, l2, leftover, restarts>>

\* The checks before a write: the stream's and CacheService.set's.
SkipWrite(s) ==
    /\ pc[s] = "write" /\ ~Current(s)
    /\ End(s)
    /\ UNCHANGED <<l1, l2, leftover, restarts>>

BeginWrite(s) ==
    /\ pc[s] = "write" /\ Current(s)
    /\ Proceed(s, "setL1")
    /\ UNCHANGED <<l1, l2, leftover, restarts>>

StoreL1(s) ==
    /\ pc[s] = "setL1"
    /\ l1' \in Insertions(l1, Key(s), Written(s))
    /\ Proceed(s, "setL2")
    /\ UNCHANGED <<l2, leftover, restarts>>

\* PersistentAnswerCache.set: expired rows go, the row is written, overflow goes.
StoreL2(s) ==
    /\ pc[s] = "setL2"
    /\ LET live == [k \in Keys |-> IF l2[k] # None /\ l2[k].expired THEN None ELSE l2[k]]
           row == [value |-> Written(s), expired |-> FALSE, late |-> ~Current(s)]
       IN l2' \in Insertions(live, Key(s), row)
    /\ Proceed(s, "recheck")
    /\ UNCHANGED <<l1, leftover, restarts>>

\* L2 cannot be written: L1 forgets the answer too.
StoreL2Fails(s) ==
    /\ pc[s] = "setL2"
    /\ l1' = [l1 EXCEPT ![Key(s)] = None]
    /\ End(s)
    /\ UNCHANGED <<l2, leftover, restarts>>

\* The check after the write.
KeepWrite(s) ==
    /\ pc[s] = "recheck" /\ Current(s)
    /\ End(s)
    /\ UNCHANGED <<l1, l2, leftover, restarts>>

\* The read of the check after the write raises, out of set: what was written
\* stays in both levels, in time or not, and the answer is delivered all the
\* same.
RecheckFails(s) ==
    /\ pc[s] = "recheck"
    /\ leftover' = leftover \cup (LateRows \cap {Key(s)})
    /\ End(s)
    /\ UNCHANGED <<l1, l2, restarts>>

\* Mutant of UndoL1: L2 is not cleaned.
UndoL1_Only(s) ==
    /\ pc[s] = "recheck" /\ ~Current(s)
    /\ l1' = [l1 EXCEPT ![Key(s)] = None]
    /\ End(s)
    /\ UNCHANGED <<l2, leftover, restarts>>

UndoL1(s) ==
    /\ pc[s] = "recheck" /\ ~Current(s)
    /\ l1' = [l1 EXCEPT ![Key(s)] = None]
    /\ Proceed(s, "undo")
    /\ UNCHANGED <<l2, leftover, restarts>>

UndoL2(s) ==
    /\ pc[s] = "undo"
    /\ l2' = [l2 EXCEPT ![Key(s)] = None]
    /\ End(s)
    /\ UNCHANGED <<l1, leftover, restarts>>

UndoL2Fails(s) ==
    /\ pc[s] = "undo"
    /\ leftover' = leftover \cup {Key(s)}
    /\ End(s)
    /\ UNCHANGED <<l1, l2, restarts>>
-----------------------------------------------------------------------------
Look(s) ==
    \/ \E q \in Queries : Search(s, q)
    \/ Reject(s) \/ TellOutdated(s) \/ AskCache(s) \/ CheckBeforeGet(s)
    \/ HitL1(s) \/ DropL1(s) \/ MissL1(s)
    \/ HitL2(s) \/ MissL2(s) \/ RefuseL2(s) \/ AcceptL2(s) \/ FillL1(s)
    \/ ServeCached(s) \/ WithholdCached(s) \/ ReadFails(s)

Store(s) ==
    \/ FailAnswer(s) \/ FinishAnswer(s)
    \/ SkipWrite(s) \/ BeginWrite(s)
    \/ StoreL1(s) \/ StoreL2(s) \/ StoreL2Fails(s)
    \/ KeepWrite(s) \/ RecheckFails(s) \/ UndoL1(s) \/ UndoL2(s) \/ UndoL2Fails(s)

Next ==
    \/ \E s \in Streams : Look(s) \/ Store(s)
    \/ Change
    \/ \E k \in Keys : Expire(k)
    \/ Restart

Spec == Init /\ [][Next]_vars
-----------------------------------------------------------------------------
\* A cached answer that is delivered answers the question asked, and every
\* passage it was written from is what the knowledge base holds at that
\* moment, whatever was uploaded, deleted or cached before
\* (docs/architecture.md: old answers do not come back).
NoStaleAnswer ==
    [][\A s \in Streams : ServeCached(s) =>
          /\ found[s].query = asked[s]
          /\ found[s].hits \subseteq Kb!Visible]_vars

\* An answer that reached L2 after its generation had ended is on its way out
\* again, unless the generation could not be read after the write, the deletion
\* failed or the process died first (set deletes it in case a generation should
\* ever come back).
LateWritesUndone ==
    \A k \in Keys : l2[k] # None /\ l2[k].late =>
        \/ k \in leftover
        \/ \E s \in Streams : pc[s] \in {"recheck", "undo"} /\ Key(s) = k
=============================================================================
