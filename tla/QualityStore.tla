---------------------------- MODULE QualityStore ----------------------------
(***************************************************************************)
(* The quality store (services/quality_service.py): one row per answered   *)
(* question (run), at most one verdict of its reader (feedback), an        *)
(* administrator's review of it, and the daily purge.  Every method is one *)
(* SQLite transaction under the store's lock, so one step here; foreign    *)
(* keys are enforced.  A method that raises or updates no row changes      *)
(* nothing and is not a step.  Questions and answers are left out.         *)
(***************************************************************************)
EXTENDS Integers, FiniteSets

CONSTANTS Runs,        \* run ids: one per request, never reused
          Messages,    \* X-Message-Id values, chosen by the clients
          Principals,
          Limit,       \* feedback_limit_per_hour
          Window,      \* the hour of the rate limit, in ticks
          Retention,   \* retention_days, in ticks
          None,
          MaxTime      \* bound: ticks of the clock

ASSUME QualityConstants ==
    /\ IsFiniteSet(Runs)
    /\ Limit \in Nat \ {0}
    /\ Window \in Nat
    /\ Retention \in Nat /\ Retention > Window
    /\ MaxTime \in Nat

VARIABLES runs,      \* runs[r]: the row of r, or None
          feedback,  \* feedback[r]: the feedback row on run r, or None
          issued,    \* run ids drawn so far
          now        \* the clock

storeVars == <<runs, feedback, issued, now>>

Verdicts == {"up", "down"}
Outcomes == {<<"done", TRUE>>, <<"done", FALSE>>, <<"error", FALSE>>,
             <<"interrupted", FALSE>>}

RunRow == [message: Messages, principal: Principals, created: 0..MaxTime,
           terminal: {"running", "done", "error", "interrupted"},
           eligible: BOOLEAN]
FeedbackRow == [principal: Principals, verdict: Verdicts, created: 0..MaxTime,
                review: {"pending", "accepted", "rejected"}]

TypeOK ==
    /\ runs \in [Runs -> RunRow \cup {None}]
    /\ feedback \in [Runs -> FeedbackRow \cup {None}]
    /\ issued \subseteq Runs
    /\ now \in 0..MaxTime

Init ==
    /\ runs = [r \in Runs |-> None]
    /\ feedback = [r \in Runs |-> None]
    /\ issued = {}
    /\ now = 0

Stored(r) == runs[r] # None
Judged(r) == feedback[r] # None
-----------------------------------------------------------------------------
\* reserve_run: message_id is UNIQUE, a second use raises DuplicateRunError.
Unused(m) == \A r \in Runs : Stored(r) => runs[r].message # m

ReserveRun(r, m, p) ==
    /\ r \notin issued
    /\ Unused(m)
    /\ issued' = issued \cup {r}
    /\ runs' = [runs EXCEPT ![r] =
                   [message |-> m, principal |-> p, created |-> now,
                    terminal |-> "running", eligible |-> FALSE]]
    /\ UNCHANGED <<feedback, now>>

\* finalize_run updates the row WHERE terminal='running'.
Finalizable(r) == Stored(r) /\ runs[r].terminal = "running"

FinalizeRun(r, terminal, eligible) ==
    /\ Finalizable(r)
    /\ runs' = [runs EXCEPT ![r].terminal = terminal, ![r].eligible = eligible]
    /\ UNCHANGED <<feedback, issued, now>>

\* Mutant: anyone may judge an answer.
MayJudge_Anyone(r, p) == Stored(r) /\ runs[r].eligible

MayJudge(r, p) == Stored(r) /\ runs[r].eligible /\ runs[r].principal = p

\* Mutant: the hour is half open at the wrong end.
Recent_HalfOpen(p) == {r \in Runs : Judged(r) /\ feedback[r].principal = p
                                    /\ feedback[r].created > now - Window}

Recent(p) == {r \in Runs : Judged(r) /\ feedback[r].principal = p
                           /\ feedback[r].created >= now - Window}

\* Mutant: a later verdict replaces the earlier one.
FirstVerdict_Latest(r) == TRUE

\* The same verdict again is acknowledged, the opposite one is a conflict.
FirstVerdict(r) == ~Judged(r)

SubmitFeedback(r, p, v) ==
    /\ MayJudge(r, p)
    /\ FirstVerdict(r)
    /\ Cardinality(Recent(p)) < Limit
    /\ feedback' = [feedback EXCEPT ![r] =
                       [principal |-> p, verdict |-> v, created |-> now,
                        review |-> "pending"]]
    /\ UNCHANGED <<runs, issued, now>>

ReviewFeedback(r, decision) ==
    /\ Judged(r)
    /\ feedback[r].review = "pending"
    /\ feedback' = [feedback EXCEPT ![r].review = decision]
    /\ UNCHANGED <<runs, issued, now>>
-----------------------------------------------------------------------------
\* purge_expired deletes old feedback, then old runs.
ExpiredFeedback == {r \in Runs : Judged(r) /\ feedback[r].created < now - Retention}
ExpiredRuns == {r \in Runs : Stored(r) /\ runs[r].created < now - Retention}

\* Mutant: foreign keys are not enforced.
Deletable_NoForeignKey == TRUE

\* A run that keeps a feedback row cannot be deleted (foreign key).
Deletable == \A r \in ExpiredRuns : Judged(r) => r \in ExpiredFeedback

PurgeExpired ==
    /\ IF Deletable
       THEN /\ feedback' = [r \in Runs |->
                               IF r \in ExpiredFeedback THEN None ELSE feedback[r]]
            /\ runs' = [r \in Runs |-> IF r \in ExpiredRuns THEN None ELSE runs[r]]
       ELSE UNCHANGED <<runs, feedback>>   \* IntegrityError: rolled back
    /\ UNCHANGED <<issued, now>>

Tick == now < MaxTime /\ now' = now + 1 /\ UNCHANGED <<runs, feedback, issued>>

Next ==
    \/ \E r \in Runs :
          \/ \E m \in Messages, p \in Principals : ReserveRun(r, m, p)
          \/ \E o \in Outcomes : FinalizeRun(r, o[1], o[2])
          \/ \E p \in Principals, v \in Verdicts : SubmitFeedback(r, p, v)
          \/ \E d \in {"accepted", "rejected"} : ReviewFeedback(r, d)
    \/ PurgeExpired
    \/ Tick

Spec == Init /\ [][Next]_storeVars
-----------------------------------------------------------------------------
\* Every feedback row stands on an answer that was completed, offered for
\* feedback and given to the very principal who judged it, and which is still
\* there: after any mixture of finalisations, verdicts and purges
\* (quality_service.py:275-291, 396-401).
FeedbackBacked ==
    \A r \in Runs : Judged(r) =>
        /\ Stored(r)
        /\ runs[r].terminal = "done" /\ runs[r].eligible
        /\ runs[r].principal = feedback[r].principal

\* No hour holds more than the limit of one principal's feedback, wherever the
\* hour begins and whatever was purged meanwhile (quality_service.py:292-297).
RateLimited ==
    \A p \in Principals, t \in 0..MaxTime :
        Cardinality({r \in Runs : Judged(r) /\ feedback[r].principal = p
                                  /\ feedback[r].created \in t..(t + Window)}) <= Limit

\* A verdict is given once and reviewed once: until the purge takes the row,
\* its verdict and its judge never change, nor does a review that is done; and
\* a run that ended keeps its outcome (ops-contract.md:35).
VerdictsStand ==
    [][\A r \in Runs :
          /\ Judged(r) /\ feedback'[r] # None =>
                /\ feedback'[r].verdict = feedback[r].verdict
                /\ feedback'[r].principal = feedback[r].principal
                /\ feedback[r].review # "pending" => feedback'[r] = feedback[r]
          /\ Stored(r) /\ runs'[r] # None /\ runs[r].terminal # "running" =>
                runs'[r] = runs[r]]_storeVars

=============================================================================
