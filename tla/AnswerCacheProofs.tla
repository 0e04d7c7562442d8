-------------------------- MODULE AnswerCacheProofs --------------------------
(***************************************************************************)
(* NoStaleAnswer and LateWritesUndone for any number of streams, queries,  *)
(* documents, entries, changes and restarts.                               *)
(*                                                                         *)
(* The inductive invariant says of every value, wherever it is (in a       *)
(* level, in a stream's hand or still being written), that it answers the  *)
(* query of its key, that its key's generation has been reached, and that  *)
(* as long as this generation lasts its passages are visible (Fresh).  A   *)
(* change of the knowledge base, or of who may read it, moves the          *)
(* generation past every key in use, so Fresh survives it with nothing to  *)
(* show; every other step leaves the corpus alone.                         *)
(***************************************************************************)
EXTENDS AnswerCache, TLAPS

\* The part of TypeOK the argument needs: all but the capacity.
Typed ==
    /\ Kb!TypeOK
    /\ generation <= MaxGen
    /\ pc \in [Streams -> Labels]
    /\ asked \in [Streams -> Queries]
    /\ found \in [Streams -> Value \cup {None}]
    /\ l1 \in [Keys -> Value \cup {None}]
    /\ l2 \in [Keys -> Row \cup {None}]

Fresh(v, k) ==
    /\ v \in Value
    /\ v.query = k[1]
    /\ k[2] <= generation
    /\ k[2] = generation => v.hits \subseteq Kb!Visible

Decided == \A s \in Streams : Fresh(Written(s), Key(s))
InL1 == \A k \in Keys : l1[k] # None => Fresh(l1[k], k)
InL2 == \A k \in Keys : l2[k] # None => Fresh(l2[k].value, k) /\ (l2[k].late => k[2] < generation)
InHand == \A s \in Streams : pc[s] \in {"fill", "copy", "serve"} => Fresh(found[s], Key(s))

IInv == Typed /\ Decided /\ InL1 /\ InL2 /\ InHand /\ LateWritesUndone

-----------------------------------------------------------------------------
\* What a level can hold after a write: the new value under its key, and
\* under any other key what it held or nothing.
LEMMA InsertionsHold ==
    ASSUME NEW level, DOMAIN level = Keys, NEW k \in Keys, NEW v,
           NEW new \in Insertions(level, k, v)
    PROVE  /\ new = [j \in Keys |-> new[j]]
           /\ new[k] = v
           /\ \A j \in Keys : j # k => new[j] \in {level[j], None}
<1> DEFINE full == [level EXCEPT ![k] = v]
<1>1. CASE new = full
    BY <1>1
<1>2. CASE \E victim \in Filled(full) \ {k} : new = [full EXCEPT ![victim] = None]
    <2>1. PICK victim \in Filled(full) \ {k} : new = [full EXCEPT ![victim] = None]
        BY <1>2
    <2>2. victim \in Keys /\ victim # k
        BY <2>1 DEF Filled
    <2> QED BY <2>1, <2>2
<1> QED BY <1>1, <1>2 DEF Insertions

\* Nothing of a decision, a value or a row is None.
LEMMA Records ==
    ASSUME Typed, Decided, NEW s \in Streams
    PROVE  /\ Key(s) \in Keys
           /\ Written(s) \in Value
           /\ answers[s].gen \in Nat /\ generation \in Nat
           /\ None \notin Value
<1>1. answers[s] \in Kb!Answer /\ asked[s] \in Queries
    BY DEF Typed, Kb!TypeOK
<1>2. answers[s].gen \in Nat /\ generation \in Nat /\ MaxGen \in Nat
    BY <1>1, CacheConstants DEF Typed, Kb!TypeOK, Kb!Answer
<1>3. answers[s].gen <= generation
    BY DEF Decided, Fresh, Key
<1>4. answers[s].gen \in 0..MaxGen
    BY <1>2, <1>3 DEF Typed
<1>5. Key(s) \in Keys
    BY <1>1, <1>4 DEF Key, Keys
<1> QED BY <1>2, <1>5, CacheConstants DEF Decided, Fresh, Value

\* A step that leaves the corpus and its generation alone leaves Fresh alone.
LEMMA FreshKept ==
    ASSUME UNCHANGED <<corpus, generation>>, NEW v, NEW k, Fresh(v, k)
    PROVE  Fresh(v, k)'
<1>1. Kb!Visible' = Kb!Visible
    BY DEF Kb!Visible
<1> QED BY <1>1 DEF Fresh

\* A change moves the generation past every key that is in use.
LEMMA FreshPassed ==
    ASSUME Typed, generation' = generation + 1, NEW v, NEW k \in Keys, Fresh(v, k)
    PROVE  Fresh(v, k)' /\ k[2] < generation'
<1>1. k[2] \in Nat /\ generation \in Nat
    BY DEF Keys, Typed, Kb!TypeOK
<1> QED BY <1>1 DEF Fresh

-----------------------------------------------------------------------------
\* Init establishes the invariant: nothing is stored, nothing is retrieved.
LEMMA Initially == Init => IInv
<1> SUFFICES ASSUME Init PROVE IInv
    OBVIOUS
<1> USE DEF Init, Kb!Init
<1>1. Typed
    BY CacheConstants DEF Typed, Labels, Kb!TypeOK, Kb!NoAnswer, Kb!Answer
<1>2. Decided
    <2> SUFFICES ASSUME NEW s \in Streams PROVE Fresh(Written(s), Key(s))
        BY DEF Decided
    <2>1. answers[s] = [gen |-> 0, hits |-> {}] /\ asked[s] \in Queries
        BY DEF Kb!NoAnswer
    <2> QED BY <2>1 DEF Fresh, Written, Key, Value
<1>3. InL1 /\ InL2 /\ InHand /\ LateWritesUndone
    BY DEF InL1, InL2, InHand, LateWritesUndone
<1> QED BY <1>1, <1>2, <1>3 DEF IInv

-----------------------------------------------------------------------------
\* The world: a change of the corpus ends the generation of every key in use.
LEMMA ChangeSafe == IInv /\ Change => IInv'
<1> SUFFICES ASSUME IInv, Change PROVE IInv'
    OBVIOUS
<1>1. /\ generation' = generation + 1 /\ generation' <= MaxGen /\ since' \in Nat
      /\ corpus' \in [Sources -> Contents \cup {NoContent}]
      /\ UNCHANGED <<answers, pc, asked, found, l1, l2, leftover, restarts>>
    <2>1. Typed /\ generation \in Nat /\ MaxGen \in Nat
        BY CacheConstants DEF IInv, Typed, Kb!TypeOK
    <2>2. CASE \E d \in Sources : Kb!Publish(d)
        BY <2>1, <2>2 DEF Change, Kb!Publish, Kb!NewStamp, Typed, Kb!TypeOK
    <2>3. CASE \E d \in Sources : Kb!Withdraw(d)
        BY <2>1, <2>3 DEF Change, Kb!Withdraw, Kb!NewStamp, Typed, Kb!TypeOK
    <2>4. CASE Kb!WithdrawAll
        BY <2>1, <2>4 DEF Change, Kb!WithdrawAll, Kb!NewStamp, Typed, Kb!TypeOK
    <2>5. CASE Kb!Restamp
        BY <2>1, <2>5 DEF Change, Kb!Restamp, Typed, Kb!TypeOK
    <2> QED BY <2>2, <2>3, <2>4, <2>5 DEF Change
<1>2. Typed'
    BY <1>1 DEF IInv, Typed, Kb!TypeOK
<1>3. \A v, k : k \in Keys /\ Fresh(v, k) => Fresh(v, k)' /\ k[2] < generation'
    BY <1>1, FreshPassed DEF IInv
<1>4. \A s \in Streams : Key(s)' = Key(s) /\ Written(s)' = Written(s) /\ Key(s) \in Keys
    BY <1>1, Records DEF Key, Written, IInv
<1>5. Decided'
    BY <1>3, <1>4 DEF Decided, IInv
<1>6. InL1'
    BY <1>1, <1>3 DEF InL1, IInv
<1>7. InL2'
    BY <1>1, <1>3 DEF InL2, IInv
<1>8. InHand'
    BY <1>1, <1>3, <1>4 DEF InHand, IInv
<1>9. LateWritesUndone'
    BY <1>1, <1>4 DEF LateWritesUndone, IInv
<1> QED BY <1>2, <1>5, <1>6, <1>7, <1>8, <1>9 DEF IInv

LEMMA ExpireSafe == ASSUME IInv, NEW j \in Keys, Expire(j) PROVE IInv'
<1>1. /\ l2[j] \in Row
      /\ l2' = [l2 EXCEPT ![j] = [l2[j] EXCEPT !.expired = TRUE]]
      /\ UNCHANGED <<corpus, generation, since, answers, pc, asked, found, l1, leftover>>
    BY DEF Expire, kbVars, IInv, Typed
<1>2. l2' \in [Keys -> Row \cup {None}]
    BY <1>1 DEF IInv, Typed, Row
<1>3. \A k \in Keys : l2'[k] # None =>
          l2[k] # None /\ l2'[k].value = l2[k].value /\ l2'[k].late = l2[k].late
    BY <1>1 DEF IInv, Typed, Row, Expire
<1>4. Typed'
    BY <1>1, <1>2 DEF IInv, Typed, Kb!TypeOK
<1>5. \A v, k : Fresh(v, k) => Fresh(v, k)'
    BY <1>1, FreshKept
<1>6. \A s \in Streams : Key(s)' = Key(s) /\ Written(s)' = Written(s)
    BY <1>1 DEF Key, Written
<1>7. Decided' /\ InL1' /\ InHand'
    BY <1>1, <1>5, <1>6 DEF IInv, Decided, InL1, InHand
<1>8. InL2'
    BY <1>1, <1>3, <1>5 DEF IInv, InL2
<1>9. LateWritesUndone'
    BY <1>1, <1>3, <1>6 DEF IInv, LateWritesUndone
<1> QED BY <1>4, <1>7, <1>8, <1>9 DEF IInv

\* A restart loses what was in hand and leaves the late rows over.
LEMMA RestartSafe == IInv /\ Restart => IInv'
<1> SUFFICES ASSUME IInv, Restart PROVE IInv'
    OBVIOUS
<1> USE DEF Restart
<1>1. Typed'
    BY CacheConstants DEF IInv, Typed, Labels, Kb!TypeOK, Kb!NoAnswer, Kb!Answer
<1>2. \A v, k : Fresh(v, k) => Fresh(v, k)'
    BY FreshKept
<1>3. Decided'
    <2> SUFFICES ASSUME NEW s \in Streams PROVE Fresh(Written(s), Key(s))'
        BY DEF Decided
    <2>1. answers'[s] = [gen |-> 0, hits |-> {}] /\ asked'[s] \in Queries /\ generation' \in Nat
        BY <1>1 DEF Kb!NoAnswer, Typed, Kb!TypeOK
    <2> QED BY <2>1 DEF Fresh, Written, Key, Value
<1>4. InL1' /\ InHand'
    BY DEF InL1, InHand
<1>5. InL2'
    BY <1>2 DEF IInv, InL2
<1>6. LateWritesUndone'
    BY DEF LateWritesUndone, LateRows, Filled
<1> QED BY <1>1, <1>3, <1>4, <1>5, <1>6 DEF IInv

-----------------------------------------------------------------------------
\* The steps of a stream leave the corpus alone, and its decision and question
\* too, until they end it.
LEMMA DecisionsKept ==
    ASSUME IInv, NEW s \in Streams, NEW label \in Labels,
           \/ End(s)
           \/ Goto(s, label) /\ UNCHANGED <<kbVars, asked>>
    PROVE  /\ UNCHANGED <<corpus, generation, since, asked>>
           /\ Decided'
           /\ Kb!TypeOK' /\ pc' \in [Streams -> Labels]
           /\ \A t \in Streams : t # s => pc'[t] = pc[t] /\ Key(t)' = Key(t)
           /\ \A v, k : Fresh(v, k) => Fresh(v, k)'
<1>1. UNCHANGED <<corpus, generation, since, asked>>
    BY DEF End, kbVars
<1>2. \A v, k : Fresh(v, k) => Fresh(v, k)'
    BY <1>1, FreshKept
<1>3. CASE End(s)
    <2>1. Kb!TypeOK' /\ pc' \in [Streams -> Labels]
        BY <1>3 DEF End, Goto, Labels, IInv, Typed, Kb!TypeOK, Kb!NoAnswer, Kb!Answer
    <2>2. \A t \in Streams : t # s => pc'[t] = pc[t] /\ answers'[t] = answers[t]
        BY <1>3 DEF End, Goto, IInv, Typed, Kb!TypeOK
    <2>3. Fresh(Written(s), Key(s))'
        <3>1. answers'[s] = [gen |-> 0, hits |-> {}] /\ asked'[s] \in Queries /\ generation' \in Nat
            BY <1>3, <2>1 DEF End, IInv, Typed, Kb!TypeOK, Kb!NoAnswer
        <3> QED BY <3>1 DEF Fresh, Written, Key, Value
    <2>4. \A t \in Streams : t # s => Key(t)' = Key(t) /\ Written(t)' = Written(t)
        BY <1>1, <2>2 DEF Key, Written
    <2>5. Decided'
        BY <1>2, <2>3, <2>4 DEF IInv, Decided
    <2> QED BY <1>1, <1>2, <2>1, <2>2, <2>4, <2>5
<1>4. CASE Goto(s, label) /\ UNCHANGED <<kbVars, asked>>
    <2>1. UNCHANGED answers
        BY <1>4 DEF kbVars
    <2>2. \A t \in Streams : Key(t)' = Key(t) /\ Written(t)' = Written(t)
        BY <1>1, <2>1 DEF Key, Written
    <2>3. Decided'
        BY <1>2, <2>2 DEF IInv, Decided
    <2> QED BY <1>1, <1>2, <1>4, <2>1, <2>2, <2>3 DEF Goto, IInv, Typed, Kb!TypeOK
<1> QED BY <1>3, <1>4

\* Which steps of a stream leave which level alone, and what the others put
\* there: nothing, or a value that is Fresh under the stream's own key.
LEMMA StreamSafe ==
    ASSUME IInv, NEW s \in Streams, NEW label \in Labels,
           \/ End(s)
           \/ Goto(s, label) /\ UNCHANGED <<kbVars, asked>>,
           found' \in [Streams -> Value \cup {None}],
           \A t \in Streams : t # s => found'[t] = found[t],
           pc'[s] \in {"fill", "copy", "serve"} => Fresh(found'[s], Key(s)) /\ UNCHANGED answers,
           l1' \in [Keys -> Value \cup {None}],
           \A k \in Keys : l1'[k] # None => l1'[k] = l1[k] \/ Fresh(l1'[k], k),
           l2' \in [Keys -> Row \cup {None}],
           \A k \in Keys : l2'[k] # None =>
               \/ l2'[k] = l2[k]
               \/ Fresh(l2'[k].value, k) /\ (l2'[k].late => k[2] < generation),
           LateWritesUndone'
    PROVE  IInv'
<1>1. /\ UNCHANGED <<corpus, generation, since, asked>>
      /\ Decided'
      /\ Kb!TypeOK' /\ pc' \in [Streams -> Labels]
      /\ \A t \in Streams : t # s => pc'[t] = pc[t] /\ Key(t)' = Key(t)
      /\ \A v, k : Fresh(v, k) => Fresh(v, k)'
    BY DecisionsKept
<1>2. Typed'
    BY <1>1 DEF IInv, Typed, Kb!TypeOK
<1>3. InL1'
    BY <1>1 DEF IInv, InL1
<1>4. InL2'
    BY <1>1 DEF IInv, InL2
<1>5. InHand'
    <2> SUFFICES ASSUME NEW t \in Streams, pc'[t] \in {"fill", "copy", "serve"}
                 PROVE  Fresh(found[t], Key(t))'
        BY DEF InHand
    <2>1. CASE t = s
        BY <1>1, <2>1 DEF Key
    <2>2. CASE t # s
        BY <1>1, <2>2 DEF IInv, InHand
    <2> QED BY <2>1, <2>2
<1> QED BY <1>1, <1>2, <1>3, <1>4, <1>5 DEF IInv

\* A stream that is not undoing a write takes no late row with it.
LEMMA LateKept ==
    ASSUME IInv, NEW s \in Streams, NEW label \in Labels,
           \/ End(s)
           \/ Goto(s, label) /\ UNCHANGED <<kbVars, asked>>,
           pc[s] \notin {"recheck", "undo"},
           leftover \subseteq leftover',
           \A k \in Keys : l2'[k] # None /\ l2'[k].late => l2[k] # None /\ l2[k].late
    PROVE  LateWritesUndone'
<1>1. \A t \in Streams : t # s => pc'[t] = pc[t] /\ Key(t)' = Key(t)
    BY DecisionsKept
<1>2. SUFFICES ASSUME NEW k \in Keys, l2'[k] # None, l2'[k].late
               PROVE  \/ k \in leftover'
                      \/ \E t \in Streams : pc'[t] \in {"recheck", "undo"} /\ Key(t)' = k
    BY DEF LateWritesUndone
<1>3. \/ k \in leftover
      \/ \E t \in Streams : pc[t] \in {"recheck", "undo"} /\ Key(t) = k
    BY <1>2 DEF IInv, LateWritesUndone
<1> QED BY <1>1, <1>3

\* The search: a new decision, of passages visible now.
LEMMA SearchSafe == ASSUME IInv, NEW s \in Streams, NEW q \in Queries, Search(s, q) PROVE IInv'
<1>1. PICK hits \in SUBSET Kb!Visible, gen \in since..generation :
          answers' = [answers EXCEPT ![s] = [gen |-> gen, hits |-> hits]]
    BY DEF Search, Kb!Retrieve
<1>0. gen \in Nat /\ gen <= generation
    BY DEF IInv, Typed, Kb!TypeOK
<1>2. /\ UNCHANGED <<corpus, generation, since, found, l1, l2, leftover>>
      /\ pc[s] = "idle" /\ pc' = [pc EXCEPT ![s] = "decided"]
      /\ asked' = [asked EXCEPT ![s] = q]
    BY DEF Search, Kb!Retrieve, Goto
<1>3. hits \subseteq Sources \X Contents
    BY DEF Kb!Visible, Kb!Passages
<1>4. Typed'
    BY <1>0, <1>1, <1>2, <1>3 DEF IInv, Typed, Labels, Kb!TypeOK, Kb!Answer, Kb!Passages
<1>5. \A v, k : Fresh(v, k) => Fresh(v, k)'
    BY <1>2, FreshKept
<1>6. \A t \in Streams : t # s =>
          pc'[t] = pc[t] /\ Key(t)' = Key(t) /\ Written(t)' = Written(t)
    BY <1>1, <1>2 DEF Key, Written, IInv, Typed, Kb!TypeOK
<1>7. Fresh(Written(s), Key(s))'
    <2>1. answers'[s] = [gen |-> gen, hits |-> hits] /\ asked'[s] = q
        BY <1>1, <1>2 DEF IInv, Typed, Kb!TypeOK
    <2>2. generation \in Nat /\ Kb!Visible' = Kb!Visible
        BY <1>2 DEF IInv, Typed, Kb!TypeOK, Kb!Visible
    <2> QED BY <1>0, <1>2, <1>3, <2>1, <2>2 DEF Fresh, Written, Key, Value
<1>8. Decided'
    BY <1>5, <1>6, <1>7 DEF IInv, Decided
<1>9. InL1' /\ InL2'
    BY <1>2, <1>5 DEF IInv, InL1, InL2
<1>10. pc'[s] = "decided"
    BY <1>2 DEF IInv, Typed
<1>11. InHand'
    BY <1>2, <1>5, <1>6, <1>10 DEF IInv, InHand
<1>12. LateWritesUndone'
    BY <1>2, <1>6 DEF IInv, LateWritesUndone
<1> QED BY <1>4, <1>8, <1>9, <1>11, <1>12 DEF IInv

\* Asking the cache: L1 and L2 hand out what is Fresh under the key asked
\* for, and a hit of L2 is copied into L1 under the same key.
LEMMA LookSafe == ASSUME IInv, NEW s \in Streams, Look(s) PROVE IInv'
<1>1. /\ Key(s) \in Keys /\ None \notin Value
      /\ found \in [Streams -> Value \cup {None}] /\ l1 \in [Keys -> Value \cup {None}]
      /\ l2 \in [Keys -> Row \cup {None}] /\ pc \in [Streams -> Labels]
    BY Records DEF IInv, Typed
<1>2. CASE \E q \in Queries : Search(s, q)
    BY <1>2, SearchSafe
<1>3. CASE Reject(s) \/ TellOutdated(s) \/ ServeCached(s) \/ WithholdCached(s) \/ ReadFails(s)
    <2>1. /\ End(s) /\ UNCHANGED <<l1, l2, leftover>>
          /\ pc[s] \notin {"recheck", "undo"} /\ "idle" \in Labels
        BY <1>3 DEF Reject, TellOutdated, ServeCached, WithholdCached, ReadFails, Labels
    <2>2. LateWritesUndone'
        BY <2>1, LateKept
    <2>3. /\ found' \in [Streams -> Value \cup {None}] /\ pc'[s] = "idle"
          /\ \A t \in Streams : t # s => found'[t] = found[t]
        BY <1>1, <2>1 DEF End, Goto
    <2> QED BY <1>1, <2>1, <2>2, <2>3, StreamSafe
<1>4. CASE AskCache(s) \/ CheckBeforeGet(s) \/ MissL1(s)
    <2>1. PICK label \in {"lookup", "l1", "l2", "generate"} :
              /\ Goto(s, label) /\ UNCHANGED <<kbVars, asked, found, l1, l2, leftover>>
              /\ pc[s] \notin {"recheck", "undo"}
        BY <1>4 DEF AskCache, CheckBeforeGet, MissL1, Proceed
    <2>2. label \in Labels /\ pc'[s] = label
        BY <1>1, <2>1 DEF Labels, Goto
    <2>3. LateWritesUndone'
        BY <2>1, <2>2, LateKept
    <2> QED BY <1>1, <2>1, <2>2, <2>3, StreamSafe
<1>5. CASE HitL1(s)
    <2>1. Fresh(l1[Key(s)], Key(s)) /\ l1[Key(s)] \in Value
        BY <1>1, <1>5 DEF HitL1, IInv, InL1, Fresh
    <2>2. /\ Goto(s, "serve") /\ UNCHANGED <<kbVars, asked, l1, l2, leftover>>
          /\ found' = [found EXCEPT ![s] = l1[Key(s)]]
          /\ pc[s] \notin {"recheck", "undo"} /\ "serve" \in Labels
        BY <1>5 DEF HitL1, Labels
    <2>3. LateWritesUndone'
        BY <2>2, LateKept
    <2>4. /\ found' \in [Streams -> Value \cup {None}] /\ Fresh(found'[s], Key(s))
          /\ \A t \in Streams : t # s => found'[t] = found[t]
        BY <1>1, <2>1, <2>2
    <2> QED BY <1>1, <2>2, <2>3, <2>4, StreamSafe DEF kbVars
<1>6. CASE DropL1(s)
    <2>1. /\ Goto(s, "generate") /\ UNCHANGED <<kbVars, asked, found, l2, leftover>>
          /\ l1' = [l1 EXCEPT ![Key(s)] = None]
          /\ pc[s] \notin {"recheck", "undo"} /\ "generate" \in Labels
        BY <1>6 DEF DropL1, Proceed, Labels
    <2>2. LateWritesUndone'
        BY <2>1, LateKept
    <2>3. /\ l1' \in [Keys -> Value \cup {None}] /\ pc'[s] = "generate"
          /\ \A k \in Keys : l1'[k] # None => l1'[k] = l1[k]
        BY <1>1, <2>1 DEF Goto
    <2> QED BY <1>1, <2>1, <2>2, <2>3, StreamSafe
<1>7. CASE HitL2(s)
    <2>1. Fresh(l2[Key(s)].value, Key(s)) /\ l2[Key(s)].value \in Value
        BY <1>1, <1>7 DEF HitL2, IInv, InL2, Fresh
    <2>2. /\ Goto(s, "fill") /\ UNCHANGED <<kbVars, asked, l1, l2, leftover>>
          /\ found' = [found EXCEPT ![s] = l2[Key(s)].value]
          /\ pc[s] \notin {"recheck", "undo"} /\ "fill" \in Labels
        BY <1>7 DEF HitL2, Labels
    <2>3. LateWritesUndone'
        BY <2>2, LateKept
    <2>4. /\ found' \in [Streams -> Value \cup {None}] /\ Fresh(found'[s], Key(s))
          /\ \A t \in Streams : t # s => found'[t] = found[t]
        BY <1>1, <2>1, <2>2
    <2> QED BY <1>1, <2>2, <2>3, <2>4, StreamSafe DEF kbVars
<1>8. CASE MissL2(s)
    <2>1. /\ Goto(s, "generate") /\ UNCHANGED <<kbVars, asked, found, l1, leftover>>
          /\ UNCHANGED l2 \/ l2' = [l2 EXCEPT ![Key(s)] = None]
          /\ pc[s] \notin {"recheck", "undo"} /\ "generate" \in Labels
        BY <1>8 DEF MissL2, Proceed, Labels
    <2>2. /\ l2' \in [Keys -> Row \cup {None}] /\ pc'[s] = "generate"
          /\ \A k \in Keys : l2'[k] # None => l2'[k] = l2[k]
        BY <1>1, <2>1 DEF Goto
    <2>3. LateWritesUndone'
        BY <2>1, <2>2, LateKept
    <2> QED BY <1>1, <2>1, <2>2, <2>3, StreamSafe
<1>9. CASE RefuseL2(s)
    <2>1. /\ Goto(s, "generate") /\ UNCHANGED <<kbVars, asked, l1, l2, leftover>>
          /\ found' = [found EXCEPT ![s] = None]
          /\ pc[s] \notin {"recheck", "undo"} /\ "generate" \in Labels
        BY <1>9 DEF RefuseL2, Labels
    <2>2. /\ found' \in [Streams -> Value \cup {None}] /\ pc'[s] = "generate"
          /\ \A t \in Streams : t # s => found'[t] = found[t]
        BY <1>1, <2>1 DEF Goto
    <2>3. LateWritesUndone'
        BY <2>1, LateKept
    <2> QED BY <1>1, <2>1, <2>2, <2>3, StreamSafe
<1>10. CASE FillL1(s)
    <2>1. Fresh(found[s], Key(s)) /\ found[s] \in Value
        BY <1>10 DEF FillL1, IInv, InHand, Fresh
    <2>2. /\ Goto(s, "serve") /\ UNCHANGED <<kbVars, asked, found, l2, leftover>>
          /\ l1' \in Insertions(l1, Key(s), found[s])
          /\ pc[s] \notin {"recheck", "undo"} /\ "serve" \in Labels
        BY <1>10 DEF FillL1, Proceed, Labels
    <2>3. /\ l1' \in [Keys -> Value \cup {None}]
          /\ \A k \in Keys : l1'[k] # None => l1'[k] = l1[k] \/ Fresh(l1'[k], k)
        <3>1. /\ l1' = [k \in Keys |-> l1'[k]]
              /\ l1'[Key(s)] = found[s]
              /\ \A k \in Keys : k # Key(s) => l1'[k] \in {l1[k], None}
            BY <1>1, <2>2, InsertionsHold
        <3>2. \A k \in Keys : l1'[k] \in Value \cup {None}
            BY <1>1, <2>1, <3>1
        <3> QED BY <2>1, <3>1, <3>2
    <2>4. LateWritesUndone'
        BY <2>2, LateKept
    <2>5. /\ Fresh(found'[s], Key(s)) /\ UNCHANGED answers
          /\ \A t \in Streams : t # s => found'[t] = found[t]
        BY <2>1, <2>2 DEF kbVars
    <2>6. /\ found' \in [Streams -> Value \cup {None}]
          /\ l2' \in [Keys -> Row \cup {None}] /\ \A k \in Keys : l2'[k] = l2[k]
        BY <1>1, <2>2
    <2> QED BY <2>2, <2>3, <2>4, <2>5, <2>6, StreamSafe
<1>11. CASE AcceptL2(s)
    <2>1. /\ Goto(s, "copy") /\ UNCHANGED <<kbVars, asked, found, l1, l2, leftover>>
          /\ pc[s] \notin {"recheck", "undo"} /\ "copy" \in Labels
        BY <1>11 DEF AcceptL2, Proceed, Labels
    <2>2. LateWritesUndone'
        BY <2>1, LateKept
    <2>3. Fresh(found'[s], Key(s)) /\ UNCHANGED answers
        BY <1>11, <2>1 DEF AcceptL2, IInv, InHand, kbVars
    <2> QED BY <1>1, <2>1, <2>2, <2>3, StreamSafe
<1> QED BY <1>2, <1>3, <1>4, <1>5, <1>6, <1>7, <1>8, <1>9, <1>10, <1>11 DEF Look

\* Writing: what is stored is the answer just written, Fresh under the
\* stream's key, and marked late exactly if the generation has moved on.
LEMMA StoreSafe == ASSUME IInv, NEW s \in Streams, Store(s) PROVE IInv'
<1>1. /\ Key(s) \in Keys /\ None \notin Value /\ generation \in Nat /\ answers[s].gen \in Nat
      /\ found \in [Streams -> Value \cup {None}] /\ l1 \in [Keys -> Value \cup {None}]
      /\ l2 \in [Keys -> Row \cup {None}] /\ pc \in [Streams -> Labels]
      /\ Fresh(Written(s), Key(s)) /\ Written(s) \in Value
      /\ Key(s)[2] = answers[s].gen
    BY Records DEF IInv, Typed, Decided, Key
<1>2. CASE FailAnswer(s) \/ SkipWrite(s)
    <2>1. /\ End(s) /\ UNCHANGED <<l1, l2, leftover>>
          /\ pc[s] \notin {"recheck", "undo"} /\ "idle" \in Labels
        BY <1>2 DEF FailAnswer, SkipWrite, Labels
    <2>2. LateWritesUndone'
        BY <2>1, LateKept
    <2>3. /\ found' \in [Streams -> Value \cup {None}] /\ pc'[s] = "idle"
          /\ \A t \in Streams : t # s => found'[t] = found[t]
        BY <1>1, <2>1 DEF End, Goto
    <2> QED BY <1>1, <2>1, <2>2, <2>3, StreamSafe
<1>3. CASE FinishAnswer(s) \/ BeginWrite(s)
    <2>1. PICK label \in {"write", "setL1"} :
              /\ Goto(s, label) /\ UNCHANGED <<kbVars, asked, found, l1, l2, leftover>>
              /\ pc[s] \notin {"recheck", "undo"}
        BY <1>3 DEF FinishAnswer, BeginWrite, Proceed
    <2>2. label \in Labels /\ pc'[s] = label
        BY <1>1, <2>1 DEF Labels, Goto
    <2>3. LateWritesUndone'
        BY <2>1, <2>2, LateKept
    <2> QED BY <1>1, <2>1, <2>2, <2>3, StreamSafe
<1>4. CASE StoreL1(s)
    <2>1. /\ Goto(s, "setL2") /\ UNCHANGED <<kbVars, asked, found, l2, leftover>>
          /\ l1' \in Insertions(l1, Key(s), Written(s))
          /\ pc[s] \notin {"recheck", "undo"} /\ "setL2" \in Labels
        BY <1>4 DEF StoreL1, Proceed, Labels
    <2>2. /\ l1' = [k \in Keys |-> l1'[k]]
          /\ l1'[Key(s)] = Written(s)
          /\ \A k \in Keys : k # Key(s) => l1'[k] \in {l1[k], None}
        BY <1>1, <2>1, InsertionsHold
    <2>3. \A k \in Keys : l1'[k] \in Value \cup {None}
        BY <1>1, <2>2
    <2>4. /\ l1' \in [Keys -> Value \cup {None}] /\ pc'[s] = "setL2"
          /\ \A k \in Keys : l1'[k] # None => l1'[k] = l1[k] \/ Fresh(l1'[k], k)
        BY <1>1, <2>1, <2>2, <2>3 DEF Goto
    <2>5. LateWritesUndone'
        BY <2>1, LateKept
    <2> QED BY <1>1, <2>1, <2>4, <2>5, StreamSafe
<1>5. CASE StoreL2(s)
    <2> DEFINE live == [k \in Keys |-> IF l2[k] # None /\ l2[k].expired THEN None ELSE l2[k]]
               row == [value |-> Written(s), expired |-> FALSE, late |-> ~Current(s)]
    <2>1. /\ Goto(s, "recheck") /\ UNCHANGED <<kbVars, asked, found, l1, leftover>>
          /\ l2' \in Insertions(live, Key(s), row) /\ "recheck" \in Labels
        BY <1>5 DEF StoreL2, Proceed, Labels
    <2>2. /\ l2' = [k \in Keys |-> l2'[k]]
          /\ l2'[Key(s)] = row
          /\ \A k \in Keys : k # Key(s) => l2'[k] \in {live[k], None}
        BY <1>1, <2>1, InsertionsHold
    <2>3. row \in Row /\ (row.late => Key(s)[2] < generation)
        <3>1. answers[s].gen <= generation
            BY <1>1 DEF Fresh
        <3>2. (~Current(s)) \in BOOLEAN
            BY DEF Current
        <3>3. row \in Row
            BY <1>1, <3>2, Zenon DEF Row
        <3>4. row.late = ~Current(s)
            OBVIOUS
        <3>5. ~Current(s) => Key(s)[2] < generation
            BY <1>1, <3>1 DEF Current
        <3> QED BY <3>3, <3>4, <3>5
    <2>4. \A k \in Keys : k # Key(s) => l2'[k] \in {l2[k], None}
        BY <2>2
    <2>5. \A k \in Keys : l2'[k] \in Row \cup {None}
        BY <1>1, <2>2, <2>3, <2>4
    <2>6. /\ l2' \in [Keys -> Row \cup {None}] /\ pc'[s] = "recheck"
          /\ \A k \in Keys : l2'[k] # None =>
                 \/ l2'[k] = l2[k]
                 \/ Fresh(l2'[k].value, k) /\ (l2'[k].late => k[2] < generation)
        BY <1>1, <2>1, <2>2, <2>3, <2>4, <2>5 DEF Goto
    <2>7. LateWritesUndone'
        <3>1. SUFFICES ASSUME NEW k \in Keys, l2'[k] # None, l2'[k].late
                       PROVE  \/ k \in leftover'
                              \/ \E t \in Streams : pc'[t] \in {"recheck", "undo"} /\ Key(t)' = k
            BY DEF LateWritesUndone
        <3>2. CASE k = Key(s)
            BY <2>1, <2>6, <3>2 DEF Key, kbVars
        <3>3. CASE k # Key(s)
            <4>1. l2[k] # None /\ l2[k].late
                BY <2>4, <3>1, <3>3
            <4>2. \/ k \in leftover
                  \/ \E t \in Streams : pc[t] \in {"recheck", "undo"} /\ Key(t) = k
                BY <4>1 DEF IInv, LateWritesUndone
            <4> QED BY <2>1, <3>3, <4>2 DEF Key, kbVars, Goto
        <3> QED BY <3>2, <3>3
    <2> QED BY <1>1, <2>1, <2>6, <2>7, StreamSafe
<1>6. CASE StoreL2Fails(s)
    <2>1. /\ End(s) /\ UNCHANGED <<l2, leftover>>
          /\ l1' = [l1 EXCEPT ![Key(s)] = None]
          /\ pc[s] \notin {"recheck", "undo"} /\ "idle" \in Labels
        BY <1>6 DEF StoreL2Fails, Labels
    <2>2. LateWritesUndone'
        BY <2>1, LateKept
    <2>3. /\ found' \in [Streams -> Value \cup {None}] /\ pc'[s] = "idle"
          /\ \A t \in Streams : t # s => found'[t] = found[t]
          /\ l1' \in [Keys -> Value \cup {None}]
          /\ \A k \in Keys : l1'[k] # None => l1'[k] = l1[k]
        BY <1>1, <2>1 DEF End, Goto
    <2> QED BY <1>1, <2>1, <2>2, <2>3, StreamSafe
\* A row is not late while its generation lasts.
<1>7. CASE KeepWrite(s)
    <2>1. /\ End(s) /\ UNCHANGED <<l1, l2, leftover>> /\ Current(s) /\ "idle" \in Labels
        BY <1>7 DEF KeepWrite, Labels
    <2>2. l2[Key(s)] # None => ~l2[Key(s)].late
        <3>1. ~(Key(s)[2] < generation)
            BY <1>1, <2>1 DEF Current
        <3>2. l2[Key(s)] # None => l2[Key(s)] \in Row
            BY <1>1
        <3> QED BY <1>1, <3>1, <3>2 DEF IInv, InL2, Row
    <2>3. \A t \in Streams : t # s => pc'[t] = pc[t] /\ Key(t)' = Key(t)
        BY <2>1, DecisionsKept
    <2>4. LateWritesUndone'
        BY <2>1, <2>2, <2>3 DEF IInv, LateWritesUndone
    <2>5. /\ found' \in [Streams -> Value \cup {None}] /\ pc'[s] = "idle"
          /\ \A t \in Streams : t # s => found'[t] = found[t]
        BY <1>1, <2>1 DEF End, Goto
    <2> QED BY <1>1, <2>1, <2>4, <2>5, StreamSafe
<1>8. CASE UndoL1(s)
    <2>1. /\ Goto(s, "undo") /\ UNCHANGED <<kbVars, asked, found, l2, leftover>>
          /\ l1' = [l1 EXCEPT ![Key(s)] = None] /\ "undo" \in Labels
        BY <1>8 DEF UndoL1, Proceed, Labels
    <2>2. /\ l1' \in [Keys -> Value \cup {None}] /\ pc'[s] = "undo"
          /\ \A k \in Keys : l1'[k] # None => l1'[k] = l1[k]
        BY <1>1, <2>1 DEF Goto
    <2>3. \A t \in Streams : (t # s => pc'[t] = pc[t]) /\ Key(t)' = Key(t)
        BY <2>1 DEF Goto, Key, kbVars, IInv, Typed
    <2>4. LateWritesUndone'
        BY <2>1, <2>2, <2>3 DEF IInv, LateWritesUndone
    <2> QED BY <1>1, <2>1, <2>2, <2>4, StreamSafe
<1>9. CASE UndoL2(s) \/ UndoL2Fails(s)
    <2>1. /\ End(s) /\ UNCHANGED l1 /\ "idle" \in Labels
          /\ \/ l2' = [l2 EXCEPT ![Key(s)] = None] /\ UNCHANGED leftover
             \/ leftover' = leftover \cup {Key(s)} /\ UNCHANGED l2
        BY <1>9 DEF UndoL2, UndoL2Fails, Labels
    <2>2. /\ l2' \in [Keys -> Row \cup {None}]
          /\ \A k \in Keys : l2'[k] # None => l2'[k] = l2[k] /\ (k # Key(s) \/ k \in leftover')
          /\ leftover \subseteq leftover'
        BY <1>1, <2>1
    <2>3. \A t \in Streams : t # s => pc'[t] = pc[t] /\ Key(t)' = Key(t)
        BY <2>1, DecisionsKept
    <2>4. LateWritesUndone'
        BY <2>2, <2>3 DEF IInv, LateWritesUndone
    <2>5. /\ found' \in [Streams -> Value \cup {None}] /\ pc'[s] = "idle"
          /\ \A t \in Streams : t # s => found'[t] = found[t]
        BY <1>1, <2>1 DEF End, Goto
    <2> QED BY <1>1, <2>1, <2>2, <2>4, <2>5, StreamSafe
\* A late row that the check could not judge is left over.
<1>10. CASE RecheckFails(s)
    <2>1. /\ End(s) /\ UNCHANGED <<l1, l2>> /\ "idle" \in Labels
          /\ leftover' = leftover \cup (LateRows \cap {Key(s)})
        BY <1>10 DEF RecheckFails, Labels
    <2>2. \A t \in Streams : t # s => pc'[t] = pc[t] /\ Key(t)' = Key(t)
        BY <2>1, DecisionsKept
    <2>3. LateWritesUndone'
        BY <2>1, <2>2 DEF IInv, LateWritesUndone, LateRows, Filled
    <2>4. /\ found' \in [Streams -> Value \cup {None}] /\ pc'[s] = "idle"
          /\ \A t \in Streams : t # s => found'[t] = found[t]
        BY <1>1, <2>1 DEF End, Goto
    <2> QED BY <1>1, <2>1, <2>3, <2>4, StreamSafe
<1> QED BY <1>2, <1>3, <1>4, <1>5, <1>6, <1>7, <1>8, <1>9, <1>10 DEF Store

-----------------------------------------------------------------------------
LEMMA Invariance == Spec => []IInv
<1>1. IInv /\ [Next]_vars => IInv'
    <2> SUFFICES ASSUME IInv, [Next]_vars PROVE IInv'
        OBVIOUS
    <2>1. CASE UNCHANGED vars
        <3>1. \A v, k : Fresh(v, k) => Fresh(v, k)'
            BY <2>1, FreshKept DEF vars
        <3>2. \A s \in Streams : Key(s)' = Key(s) /\ Written(s)' = Written(s)
            BY <2>1 DEF vars, Key, Written
        <3>3. Typed'
            BY <2>1 DEF vars, IInv, Typed, Kb!TypeOK
        <3>4. Decided' /\ InL1' /\ InL2' /\ InHand' /\ LateWritesUndone'
            BY <2>1, <3>1, <3>2 DEF vars, IInv, Decided, InL1, InL2, InHand, LateWritesUndone
        <3> QED BY <3>3, <3>4 DEF IInv
    <2>2. CASE \E s \in Streams : Look(s) \/ Store(s)
        BY <2>2, LookSafe, StoreSafe
    <2>3. CASE Change
        BY <2>3, ChangeSafe
    <2>4. CASE \E k \in Keys : Expire(k)
        BY <2>4, ExpireSafe
    <2>5. CASE Restart
        BY <2>5, RestartSafe
    <2> QED BY <2>1, <2>2, <2>3, <2>4, <2>5 DEF Next
<1> QED BY <1>1, Initially, PTL DEF Spec

\* A cached answer is delivered only to the question it answers, and while
\* every passage it was written from is what the knowledge base holds: no
\* upload, deletion, write or restart lets an old answer of L1 or L2 through.
THEOREM Currency == Spec => NoStaleAnswer
<1>1. IInv => \A s \in Streams : ServeCached(s) =>
          /\ found[s].query = asked[s]
          /\ found[s].hits \subseteq Kb!Visible
    BY DEF IInv, InHand, ServeCached, Fresh, Key, Current
<1> QED BY <1>1, Invariance, PTL DEF NoStaleAnswer

\* Rows of L2 that were written after their generation had ended are being
\* undone, or their last check or their undoing failed or died.
THEOREM Undoing == Spec => []LateWritesUndone
BY Invariance, PTL DEF IInv

=============================================================================
