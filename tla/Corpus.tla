------------------------------- MODULE Corpus -------------------------------
(***************************************************************************)
(* What the knowledge base promises to everyone outside vector_store.py:   *)
(* a dictionary from sources to one complete version of their content,     *)
(* stamped with a generation.  Uploads, deletions and clears change it in  *)
(* one indivisible step that also advances the generation, and a search    *)
(* sees one such dictionary, never a mixture of two.                       *)
(*                                                                         *)
(* Chunks, locks, batches, the keyword index, failures and restarts are    *)
(* all absent: they are what KnowledgeBase has to hide.                    *)
(***************************************************************************)
EXTENDS Naturals

CONSTANTS Readers,    \* the callers of search
          Sources,    \* document names
          Contents,   \* what a document can say
          NoContent   \* no content: the source is not in the knowledge base

VARIABLES corpus,      \* corpus[s]: the content every reader sees for s
          generation,  \* the stamp of the current corpus
          since,       \* the first stamp of the current corpus
          answers      \* answers[r]: the last search result r still holds

corpusVars == <<corpus, generation, since, answers>>

\* A search result: the passages served and the generation they are stamped with.
Passages == Sources \X Contents
Answer == [gen : Nat, hits : SUBSET Passages]
NoAnswer == [gen |-> 0, hits |-> {}]

\* The passages the corpus holds right now.
Visible == {p \in Passages : corpus[p[1]] = p[2]}

TypeOK ==
    /\ corpus \in [Sources -> Contents \cup {NoContent}]
    /\ generation \in Nat
    /\ since \in Nat
    /\ answers \in [Readers -> Answer]

Init ==
    /\ corpus = [s \in Sources |-> NoContent]
    /\ generation = 0
    /\ since = 0
    /\ answers = [r \in Readers |-> NoAnswer]

NewStamp == generation' = generation + 1 /\ since' = generation'

\* A new version of s replaces the old one everywhere at once.
Publish(s) ==
    /\ \E c \in Contents : corpus' = [corpus EXCEPT ![s] = c]
    /\ NewStamp
    /\ UNCHANGED answers

Withdraw(s) ==
    /\ corpus[s] # NoContent
    /\ corpus' = [corpus EXCEPT ![s] = NoContent]
    /\ NewStamp
    /\ UNCHANGED answers

WithdrawAll ==
    /\ \E s \in Sources : corpus[s] # NoContent
    /\ corpus' = [s \in Sources |-> NoContent]
    /\ NewStamp
    /\ UNCHANGED answers

\* The stamp may move by itself, as when access to a document changes.
Restamp ==
    /\ generation' = generation + 1
    /\ UNCHANGED <<corpus, since, answers>>

\* A search returns passages of the corpus, with a stamp under which the corpus
\* has been just that.
Retrieve(r) ==
    /\ \E hits \in SUBSET Visible, gen \in since..generation :
          answers' = [answers EXCEPT ![r] = [gen |-> gen, hits |-> hits]]
    /\ UNCHANGED <<corpus, generation, since>>

\* Readers drop their results; a restart drops everyone's.
Forget ==
    /\ \E R \in SUBSET Readers :
          answers' = [r \in Readers |-> IF r \in R THEN NoAnswer ELSE answers[r]]
    /\ UNCHANGED <<corpus, generation, since>>

Next ==
    \/ \E s \in Sources : Publish(s) \/ Withdraw(s)
    \/ WithdrawAll \/ Restamp
    \/ \E r \in Readers : Retrieve(r)
    \/ Forget

Spec == Init /\ [][Next]_corpusVars
=============================================================================
