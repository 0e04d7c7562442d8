------------------------- MODULE QualityStoreProofs -------------------------
(***************************************************************************)
(* Theorems about QualityStore, for any number of runs, messages and       *)
(* principals, any limit, window and retention.                            *)
(***************************************************************************)
EXTENDS QualityStore, TLAPS, FiniteSetTheorems

USE QualityConstants

\* Outcome by outcome, what chat.py finalises a run with.
LEMMA OutcomeKinds ==
  ASSUME NEW o \in Outcomes
  PROVE  /\ o[1] \in {"done", "error", "interrupted"}
         /\ o[2] \in BOOLEAN
         /\ o[2] = TRUE => o[1] = "done"
<1>1. CASE o = <<"done", TRUE>>
  BY <1>1
<1>2. CASE o = <<"done", FALSE>>
  BY <1>2
<1>3. CASE o = <<"error", FALSE>>
  BY <1>3
<1>4. CASE o = <<"interrupted", FALSE>>
  BY <1>4
<1>5. QED
  BY <1>1, <1>2, <1>3, <1>4 DEF Outcomes

LEMMA TypeInit == Init => TypeOK
BY DEF Init, TypeOK

LEMMA TypeNext == TypeOK /\ [Next]_storeVars => TypeOK'
<1> SUFFICES ASSUME TypeOK, [Next]_storeVars PROVE TypeOK'
  OBVIOUS
<1> USE DEF TypeOK
<1>1. ASSUME NEW r \in Runs, NEW m \in Messages, NEW p \in Principals,
             ReserveRun(r, m, p)
      PROVE  TypeOK'
  BY <1>1 DEF ReserveRun, RunRow
<1>2. ASSUME NEW r \in Runs, NEW o \in Outcomes, FinalizeRun(r, o[1], o[2])
      PROVE  TypeOK'
  <2>1. runs[r] \in RunRow
    BY <1>2 DEF FinalizeRun, Finalizable, Stored
  <2>2. runs' = [runs EXCEPT ![r] = [runs[r] EXCEPT !.terminal = o[1],
                                                     !.eligible = o[2]]]
    BY <1>2 DEF FinalizeRun
  <2>3. [runs[r] EXCEPT !.terminal = o[1], !.eligible = o[2]] \in RunRow
    BY <2>1, OutcomeKinds DEF RunRow
  <2>4. QED
    BY <1>2, <2>2, <2>3 DEF FinalizeRun
<1>3. ASSUME NEW r \in Runs, NEW p \in Principals, NEW v \in Verdicts,
             SubmitFeedback(r, p, v)
      PROVE  TypeOK'
  BY <1>3 DEF SubmitFeedback, FeedbackRow
<1>4. ASSUME NEW r \in Runs, NEW d \in {"accepted", "rejected"}, ReviewFeedback(r, d)
      PROVE  TypeOK'
  <2>1. feedback[r] \in FeedbackRow
    BY <1>4 DEF ReviewFeedback, Judged
  <2>2. feedback' = [feedback EXCEPT ![r] = [feedback[r] EXCEPT !.review = d]]
    BY <1>4 DEF ReviewFeedback
  <2>3. [feedback[r] EXCEPT !.review = d] \in FeedbackRow
    BY <2>1 DEF FeedbackRow
  <2>4. QED
    BY <1>4, <2>2, <2>3 DEF ReviewFeedback
<1>5. CASE PurgeExpired
  BY <1>5 DEF PurgeExpired
<1>6. CASE Tick
  BY <1>6 DEF Tick
<1>7. CASE UNCHANGED storeVars
  BY <1>7 DEF storeVars
<1>8. QED
  BY <1>1, <1>2, <1>3, <1>4, <1>5, <1>6, <1>7 DEF Next

\* The quality store is well typed: rows of the two tables, run ids drawn,
\* times within the bound.
THEOREM TypeCorrect == Spec => []TypeOK
<1>1. QED
  BY TypeInit, TypeNext, PTL DEF Spec
-----------------------------------------------------------------------------
(***************************************************************************)
(* Feedback stands on completed answers.                                   *)
(***************************************************************************)

\* A run offers feedback only when it is done.
EligibleIsDone ==
    \A r \in Runs : Stored(r) /\ runs[r].eligible = TRUE => runs[r].terminal = "done"

\* Rows belong to run ids that were drawn.
StoredIsIssued == \A r \in Runs : Stored(r) => r \in issued

Backed == TypeOK /\ StoredIsIssued /\ EligibleIsDone /\ FeedbackBacked

LEMMA BackedInit == Init => Backed
BY TypeInit DEF Init, Backed, StoredIsIssued, EligibleIsDone, FeedbackBacked, Stored, Judged

LEMMA BackedReserve ==
  ASSUME Backed, NEW r \in Runs, NEW m \in Messages, NEW p \in Principals,
         ReserveRun(r, m, p)
  PROVE  StoredIsIssued' /\ EligibleIsDone' /\ FeedbackBacked'
<1> USE DEF Backed, TypeOK, Stored, Judged
<1>1. feedback[r] = None /\ feedback' = feedback
  BY DEF ReserveRun, StoredIsIssued, FeedbackBacked
<1>2. \A q \in Runs : q # r => runs'[q] = runs[q]
  BY DEF ReserveRun
<1>3. runs'[r].eligible = FALSE
  BY DEF ReserveRun
<1>4. StoredIsIssued'
  BY <1>2 DEF StoredIsIssued, ReserveRun
<1>5. EligibleIsDone'
  BY <1>2, <1>3 DEF EligibleIsDone
<1>6. FeedbackBacked'
  BY <1>1, <1>2 DEF FeedbackBacked
<1>7. QED
  BY <1>4, <1>5, <1>6

\* A run that is finalised has no feedback yet: it was running.
LEMMA BackedFinalize ==
  ASSUME Backed, NEW r \in Runs, NEW o \in Outcomes, FinalizeRun(r, o[1], o[2])
  PROVE  StoredIsIssued' /\ EligibleIsDone' /\ FeedbackBacked'
<1> USE DEF Backed, TypeOK, Stored, Judged
<1>1. Stored(r) /\ runs[r].terminal = "running" /\ runs[r] \in RunRow
  BY DEF FinalizeRun, Finalizable
<1>2. feedback[r] = None /\ UNCHANGED <<feedback, issued>>
  BY <1>1 DEF FinalizeRun, FeedbackBacked
<1>3. \A q \in Runs : q # r => runs'[q] = runs[q]
  BY DEF FinalizeRun
<1>4. runs'[r].terminal = o[1] /\ runs'[r].eligible = o[2]
  BY <1>1 DEF FinalizeRun, RunRow
<1>5. StoredIsIssued'
  BY <1>1, <1>2, <1>3 DEF StoredIsIssued
<1>6. EligibleIsDone'
  BY <1>3, <1>4, OutcomeKinds DEF EligibleIsDone
<1>7. FeedbackBacked'
  BY <1>2, <1>3 DEF FeedbackBacked
<1>8. QED
  BY <1>5, <1>6, <1>7

LEMMA BackedSubmit ==
  ASSUME Backed, NEW r \in Runs, NEW p \in Principals, NEW v \in Verdicts,
         SubmitFeedback(r, p, v)
  PROVE  FeedbackBacked'
<1> USE DEF Backed, TypeOK, Stored, Judged
<1>1. Stored(r) /\ runs[r].eligible /\ runs[r].principal = p /\ runs' = runs
  BY DEF SubmitFeedback, MayJudge
<1>2. runs[r].terminal = "done"
  BY <1>1 DEF EligibleIsDone
<1>3. feedback'[r].principal = p
  BY DEF SubmitFeedback
<1>4. \A q \in Runs : q # r => feedback'[q] = feedback[q]
  BY DEF SubmitFeedback
<1>5. QED
  BY <1>1, <1>2, <1>3, <1>4 DEF FeedbackBacked

LEMMA BackedReview ==
  ASSUME Backed, NEW r \in Runs, NEW d \in {"accepted", "rejected"},
         ReviewFeedback(r, d)
  PROVE  FeedbackBacked'
<1> USE DEF Backed, TypeOK, Stored, Judged
<1>1. Judged(r) /\ feedback[r] \in FeedbackRow /\ runs' = runs
  BY DEF ReviewFeedback
<1>2. feedback'[r].principal = feedback[r].principal
  BY <1>1 DEF ReviewFeedback, FeedbackRow
<1>3. \A q \in Runs : q # r => feedback'[q] = feedback[q]
  BY DEF ReviewFeedback
<1>4. QED
  BY <1>1, <1>2, <1>3 DEF FeedbackBacked

LEMMA BackedPurge ==
  ASSUME Backed, PurgeExpired
  PROVE  StoredIsIssued' /\ EligibleIsDone' /\ FeedbackBacked'
<1> USE DEF Backed, TypeOK, Stored, Judged
<1>1. \A r \in Runs : runs'[r] \in {runs[r], None} /\ feedback'[r] \in {feedback[r], None}
  BY DEF PurgeExpired
<1>2. \A r \in Runs : Judged(r)' => runs'[r] = runs[r]
  BY DEF PurgeExpired, Deletable
<1>3. issued' = issued
  BY DEF PurgeExpired
<1>4. StoredIsIssued' /\ EligibleIsDone'
  BY <1>1, <1>3 DEF StoredIsIssued, EligibleIsDone
<1>5. FeedbackBacked'
  BY <1>1, <1>2 DEF FeedbackBacked
<1>6. QED
  BY <1>4, <1>5

LEMMA BackedNext == Backed /\ [Next]_storeVars => Backed'
<1> SUFFICES ASSUME Backed, [Next]_storeVars PROVE Backed'
  OBVIOUS
<1>1. TypeOK'
  BY TypeNext DEF Backed
<1>2. ASSUME NEW r \in Runs, NEW m \in Messages, NEW p \in Principals,
             ReserveRun(r, m, p)
      PROVE  Backed'
  BY <1>1, <1>2, BackedReserve DEF Backed
<1>3. ASSUME NEW r \in Runs, NEW o \in Outcomes, FinalizeRun(r, o[1], o[2])
      PROVE  Backed'
  BY <1>1, <1>3, BackedFinalize DEF Backed
<1>4. ASSUME UNCHANGED <<runs, issued>>, FeedbackBacked'
      PROVE  Backed'
  BY <1>1, <1>4 DEF Backed, StoredIsIssued, EligibleIsDone, Stored
<1>5. ASSUME NEW r \in Runs, NEW p \in Principals, NEW v \in Verdicts,
             SubmitFeedback(r, p, v)
      PROVE  Backed'
  BY <1>4, <1>5, BackedSubmit DEF SubmitFeedback
<1>6. ASSUME NEW r \in Runs, NEW d \in {"accepted", "rejected"}, ReviewFeedback(r, d)
      PROVE  Backed'
  BY <1>4, <1>6, BackedReview DEF ReviewFeedback
<1>7. CASE PurgeExpired
  BY <1>1, <1>7, BackedPurge DEF Backed
<1>8. CASE Tick \/ UNCHANGED storeVars
  BY <1>4, <1>8 DEF Tick, storeVars, Backed, FeedbackBacked, Stored, Judged
<1>9. QED
  BY <1>2, <1>3, <1>5, <1>6, <1>7, <1>8 DEF Next

\* Whatever is finalised, judged, reviewed and purged, feedback stands on a
\* completed answer of its judge that is still there (quality_service.py:
\* 275-291, 396-401).
THEOREM Backing == Spec => []FeedbackBacked
<1>1. Backed => FeedbackBacked
  BY DEF Backed
<1>2. QED
  BY <1>1, BackedInit, BackedNext, PTL DEF Spec
-----------------------------------------------------------------------------
(***************************************************************************)
(* Verdicts, reviews and outcomes are final.                               *)
(***************************************************************************)

\* The row of r that judges it does not change, except by its one review.
JudgementStands(r) ==
    Judged(r) /\ feedback'[r] # None =>
        /\ feedback'[r].verdict = feedback[r].verdict
        /\ feedback'[r].principal = feedback[r].principal
        /\ feedback[r].review # "pending" => feedback'[r] = feedback[r]

OutcomeStands(r) ==
    Stored(r) /\ runs'[r] # None /\ runs[r].terminal # "running" => runs'[r] = runs[r]

LEMMA StandsReserve ==
  ASSUME Backed, NEW r \in Runs, NEW m \in Messages, NEW p \in Principals,
         ReserveRun(r, m, p), NEW q \in Runs
  PROVE  JudgementStands(q) /\ OutcomeStands(q)
<1> USE DEF Backed, TypeOK, Stored, Judged
<1>1. runs[r] = None /\ feedback' = feedback
  BY DEF ReserveRun, StoredIsIssued
<1>2. q # r => runs'[q] = runs[q]
  BY DEF ReserveRun
<1>3. QED
  BY <1>1, <1>2 DEF JudgementStands, OutcomeStands

LEMMA StandsFinalize ==
  ASSUME Backed, NEW r \in Runs, NEW o \in Outcomes, FinalizeRun(r, o[1], o[2]),
         NEW q \in Runs
  PROVE  JudgementStands(q) /\ OutcomeStands(q)
<1>1. runs[r].terminal = "running" /\ feedback' = feedback
  BY DEF FinalizeRun, Finalizable
<1>2. q # r => runs'[q] = runs[q]
  BY DEF FinalizeRun, Backed, TypeOK
<1>3. QED
  BY <1>1, <1>2 DEF JudgementStands, OutcomeStands

LEMMA StandsFeedback ==
  ASSUME Backed, NEW r \in Runs, NEW q \in Runs, runs' = runs,
         \/ \E p \in Principals, v \in Verdicts : SubmitFeedback(r, p, v)
         \/ \E d \in {"accepted", "rejected"} : ReviewFeedback(r, d)
  PROVE  JudgementStands(q) /\ OutcomeStands(q)
<1> USE DEF Backed, TypeOK
<1>1. OutcomeStands(q)
  BY DEF OutcomeStands
<1>2. ASSUME NEW p \in Principals, NEW v \in Verdicts, SubmitFeedback(r, p, v)
      PROVE  JudgementStands(q)
  <2>1. ~Judged(r) /\ (q # r => feedback'[q] = feedback[q])
    BY <1>2 DEF SubmitFeedback, FirstVerdict
  <2>2. QED
    BY <2>1 DEF JudgementStands
<1>3. ASSUME NEW d \in {"accepted", "rejected"}, ReviewFeedback(r, d)
      PROVE  JudgementStands(q)
  <2>1. feedback[r] \in FeedbackRow /\ feedback[r].review = "pending"
    BY <1>3 DEF ReviewFeedback, Judged
  <2>2. q # r => feedback'[q] = feedback[q]
    BY <1>3 DEF ReviewFeedback
  <2>3. /\ feedback'[r].verdict = feedback[r].verdict
        /\ feedback'[r].principal = feedback[r].principal
    BY <1>3, <2>1 DEF ReviewFeedback, FeedbackRow
  <2>4. QED
    BY <2>1, <2>2, <2>3 DEF JudgementStands
<1>4. QED
  BY <1>1, <1>2, <1>3

\* Until the purge takes its row, a verdict is never rewritten, a finished
\* review never reopened, an outcome never changed (ops-contract.md:35).
THEOREM Finality == Spec => VerdictsStand
<1> DEFINE A == \A r \in Runs :
                    /\ Judged(r) /\ feedback'[r] # None =>
                          /\ feedback'[r].verdict = feedback[r].verdict
                          /\ feedback'[r].principal = feedback[r].principal
                          /\ feedback[r].review # "pending" => feedback'[r] = feedback[r]
                    /\ Stored(r) /\ runs'[r] # None /\ runs[r].terminal # "running" =>
                          runs'[r] = runs[r]
<1>1. Backed /\ [Next]_storeVars => [A]_storeVars
  <2> SUFFICES ASSUME Backed, Next, NEW q \in Runs
               PROVE  JudgementStands(q) /\ OutcomeStands(q)
    BY DEF JudgementStands, OutcomeStands
  <2>1. ASSUME NEW r \in Runs, NEW m \in Messages, NEW p \in Principals,
               ReserveRun(r, m, p)
        PROVE  JudgementStands(q) /\ OutcomeStands(q)
    BY <2>1, StandsReserve
  <2>2. ASSUME NEW r \in Runs, NEW o \in Outcomes, FinalizeRun(r, o[1], o[2])
        PROVE  JudgementStands(q) /\ OutcomeStands(q)
    BY <2>2, StandsFinalize
  <2>3. ASSUME NEW r \in Runs, NEW p \in Principals, NEW v \in Verdicts,
               SubmitFeedback(r, p, v)
        PROVE  JudgementStands(q) /\ OutcomeStands(q)
    <3>1. runs' = runs
      BY <2>3 DEF SubmitFeedback
    <3>2. QED
      BY <2>3, <3>1, StandsFeedback
  <2>4. ASSUME NEW r \in Runs, NEW d \in {"accepted", "rejected"}, ReviewFeedback(r, d)
        PROVE  JudgementStands(q) /\ OutcomeStands(q)
    <3>1. runs' = runs
      BY <2>4 DEF ReviewFeedback
    <3>2. QED
      BY <2>4, <3>1, StandsFeedback
  <2>5. CASE PurgeExpired
    <3>1. runs'[q] \in {runs[q], None} /\ feedback'[q] \in {feedback[q], None}
      BY <2>5 DEF PurgeExpired, Backed, TypeOK
    <3>2. QED
      BY <3>1 DEF JudgementStands, OutcomeStands
  <2>6. CASE Tick
    BY <2>6 DEF Tick, JudgementStands, OutcomeStands
  <2>7. QED
    BY <2>1, <2>2, <2>3, <2>4, <2>5, <2>6 DEF Next
<1>2. QED
  BY <1>1, BackedInit, BackedNext, PTL DEF Spec, VerdictsStand
-----------------------------------------------------------------------------
(***************************************************************************)
(* The hourly limit.                                                       *)
(***************************************************************************)

\* What p judged in the window that begins at t.
Within(p, t) == {r \in Runs : Judged(r) /\ feedback[r].principal = p
                              /\ feedback[r].created \in t..(t + Window)}

\* Feedback is not from the future: what is left of a window that reaches to
\* now is what SubmitFeedback counts.
NotFromFuture == \A r \in Runs : Judged(r) => feedback[r].created <= now

Limited == Backed /\ NotFromFuture /\ RateLimited

LEMMA WithinFinite ==
  ASSUME NEW p, NEW t
  PROVE  IsFiniteSet(Within(p, t)) /\ Cardinality(Within(p, t)) \in Nat
BY FS_Subset, FS_CardinalityType DEF Within

LEMMA LimitedInit == Init => Limited
<1> SUFFICES ASSUME Init PROVE Limited
  OBVIOUS
<1>1. \A r \in Runs : ~Judged(r)
  BY DEF Init, Judged
<1>2. \A p, t : Within(p, t) = {}
  BY <1>1 DEF Within
<1>3. RateLimited
  <2> SUFFICES ASSUME NEW p \in Principals, NEW t \in 0..MaxTime
               PROVE  Cardinality(Within(p, t)) <= Limit
    BY DEF RateLimited, Within
  <2>1. Cardinality(Within(p, t)) = 0
    BY <1>2, FS_EmptySet
  <2>2. QED
    BY <2>1
<1>4. QED
  BY <1>1, <1>3, BackedInit DEF Limited, NotFromFuture

\* A step that judges nothing new cannot fill a window.
LEMMA WindowsShrink ==
  ASSUME Backed, RateLimited,
         \A r \in Runs : Judged(r)' =>
             /\ Judged(r)
             /\ feedback'[r].principal = feedback[r].principal
             /\ feedback'[r].created = feedback[r].created
  PROVE  RateLimited'
<1> SUFFICES ASSUME NEW p \in Principals, NEW t \in 0..MaxTime
             PROVE  Cardinality(Within(p, t)') <= Limit
  BY DEF RateLimited, Within, Judged
<1>1. Within(p, t)' \subseteq Within(p, t)
  BY DEF Within, Judged
<1>2. /\ Cardinality(Within(p, t)') <= Cardinality(Within(p, t))
      /\ Cardinality(Within(p, t)') \in Nat
  BY <1>1, WithinFinite, FS_Subset, FS_CardinalityType
<1>3. Cardinality(Within(p, t)) <= Limit
  BY DEF RateLimited, Within
<1>4. QED
  BY <1>2, <1>3, WithinFinite

LEMMA LimitedSubmit ==
  ASSUME Limited, NEW r \in Runs, NEW p \in Principals, NEW v \in Verdicts,
         SubmitFeedback(r, p, v)
  PROVE  RateLimited'
<1> USE DEF Limited, Backed, TypeOK
<1>1. \A q \in Runs : q # r => feedback'[q] = feedback[q]
  BY DEF SubmitFeedback
<1>2. feedback'[r].principal = p /\ feedback'[r].created = now
  BY DEF SubmitFeedback
<1>3. Cardinality(Recent(p)) < Limit
  BY DEF SubmitFeedback
<1> SUFFICES ASSUME NEW o \in Principals, NEW t \in 0..MaxTime
             PROVE  Cardinality(Within(o, t)') <= Limit
  BY DEF RateLimited, Within, Judged
<1>4. Cardinality(Within(o, t)) <= Limit
  BY DEF RateLimited, Within
<1>5. CASE o = p /\ now \in t..(t + Window)
  <2>1. Within(o, t)' \subseteq Recent(p) \cup {r}
    <3> SUFFICES ASSUME NEW q \in Runs, q \in Within(o, t)', q # r PROVE q \in Recent(p)
      BY DEF Within
    <3>1. Judged(q) /\ feedback[q].principal = p /\ feedback[q].created \in t..(t + Window)
      BY <1>1, <1>5 DEF Within, Judged
    <3>2. feedback[q].created \in Nat
      BY <3>1 DEF Judged, FeedbackRow
    <3>3. feedback[q].created >= now - Window
      BY <1>5, <3>1, <3>2
    <3>4. QED
      BY <3>1, <3>3 DEF Recent
  <2>2. IsFiniteSet(Recent(p)) /\ Cardinality(Recent(p)) \in Nat
    BY FS_Subset, FS_CardinalityType DEF Recent
  <2>3. /\ IsFiniteSet(Recent(p) \cup {r})
        /\ Cardinality(Recent(p) \cup {r}) <= Cardinality(Recent(p)) + 1
    <3>1. /\ IsFiniteSet(Recent(p) \cup {r})
          /\ \/ Cardinality(Recent(p) \cup {r}) = Cardinality(Recent(p))
             \/ Cardinality(Recent(p) \cup {r}) = Cardinality(Recent(p)) + 1
      BY <2>2, FS_AddElement, Zenon
    <3>2. QED
      BY <2>2, <3>1
  <2>4. /\ IsFiniteSet(Within(o, t)')
        /\ Cardinality(Within(o, t)') <= Cardinality(Recent(p) \cup {r})
    BY <2>1, <2>3, FS_Subset
  <2>5. /\ Cardinality(Within(o, t)') \in Nat
        /\ Cardinality(Recent(p) \cup {r}) \in Nat
    BY <2>3, <2>4, FS_CardinalityType
  <2>6. QED
    BY <1>3, <2>2, <2>3, <2>4, <2>5
<1>6. CASE ~(o = p /\ now \in t..(t + Window))
  <2>1. Within(o, t)' \subseteq Within(o, t)
    BY <1>1, <1>2, <1>6 DEF Within, Judged
  <2>2. /\ Cardinality(Within(o, t)') <= Cardinality(Within(o, t))
        /\ Cardinality(Within(o, t)') \in Nat
    BY <2>1, WithinFinite, FS_Subset, FS_CardinalityType
  <2>3. QED
    BY <1>4, <2>2, WithinFinite
<1>7. QED
  BY <1>5, <1>6

LEMMA LimitedNext == Limited /\ [Next]_storeVars => Limited'
<1> SUFFICES ASSUME Limited, [Next]_storeVars PROVE Limited'
  OBVIOUS
<1>1. Backed' /\ Backed /\ RateLimited /\ NotFromFuture
  BY BackedNext DEF Limited
<1>2. ASSUME now' \in {now, now + 1},
             \A r \in Runs : Judged(r)' =>
                 /\ Judged(r)
                 /\ feedback'[r].principal = feedback[r].principal
                 /\ feedback'[r].created = feedback[r].created
      PROVE  Limited'
  <2>1. NotFromFuture'
    <3> SUFFICES ASSUME NEW r \in Runs, Judged(r)' PROVE feedback'[r].created <= now'
      BY DEF NotFromFuture
    <3>1. feedback[r].created <= now /\ feedback'[r].created = feedback[r].created
      BY <1>1, <1>2 DEF NotFromFuture
    <3>2. feedback[r].created \in Nat /\ now \in Nat
      BY <1>1, <1>2 DEF Backed, TypeOK, FeedbackRow, Judged
    <3>3. QED
      BY <1>2, <3>1, <3>2
  <2>2. QED
    BY <1>1, <1>2, <2>1, WindowsShrink DEF Limited
<1>3. ASSUME UNCHANGED <<feedback, now>> PROVE Limited'
  BY <1>2, <1>3 DEF Judged
<1>4. ASSUME NEW r \in Runs, NEW p \in Principals, NEW v \in Verdicts,
             SubmitFeedback(r, p, v)
      PROVE  Limited'
  <2>1. NotFromFuture'
    BY <1>1, <1>4 DEF SubmitFeedback, NotFromFuture, Judged, Backed, TypeOK
  <2>2. QED
    BY <1>1, <1>4, <2>1, LimitedSubmit DEF Limited
<1>5. ASSUME NEW r \in Runs, NEW d \in {"accepted", "rejected"}, ReviewFeedback(r, d)
      PROVE  Limited'
  <2>1. feedback[r] \in FeedbackRow /\ Judged(r)
    BY <1>1, <1>5 DEF ReviewFeedback, Judged, Backed, TypeOK
  <2>2. /\ feedback'[r].principal = feedback[r].principal
        /\ feedback'[r].created = feedback[r].created
    BY <1>1, <1>5, <2>1 DEF ReviewFeedback, FeedbackRow, Backed, TypeOK
  <2>3. \A q \in Runs : q # r => feedback'[q] = feedback[q]
    BY <1>1, <1>5 DEF ReviewFeedback, Backed, TypeOK
  <2>4. now' = now
    BY <1>5 DEF ReviewFeedback
  <2>5. QED
    BY <1>2, <2>1, <2>2, <2>3, <2>4 DEF Judged
<1>6. CASE PurgeExpired
  <2>1. now' = now /\ \A q \in Runs : feedback'[q] \in {feedback[q], None}
    BY <1>1, <1>6 DEF PurgeExpired, Backed, TypeOK
  <2>2. QED
    BY <1>2, <2>1 DEF Judged
<1>7. CASE Tick
  BY <1>2, <1>7 DEF Tick, Judged
<1>8. QED
  BY <1>3, <1>4, <1>5, <1>6, <1>7 DEF Next, ReserveRun, FinalizeRun, storeVars

\* Wherever an hour begins, it holds no more than the limit of one principal's
\* feedback (quality_service.py:292-297).
THEOREM Limiting == Spec => []RateLimited
<1>1. Limited => RateLimited
  BY DEF Limited
<1>2. QED
  BY <1>1, LimitedInit, LimitedNext, PTL DEF Spec
=============================================================================
