----------------------------- MODULE HealthCheck -----------------------------
(***************************************************************************)
(* The external health check (scripts/health_check.py): a process the task *)
(* scheduler starts again and again.  A run looks at the service and its   *)
(* files, compares what it finds with the alert state the previous run     *)
(* saved, appends alerts and recoveries to the ledger (alerts.log), saves  *)
(* the new state and at last tells the webhook.  A run can die anywhere,   *)
(* and the service goes on meanwhile.                                      *)
(*                                                                         *)
(* An incident is named by the time it was first seen, which with the name *)
(* of the check makes its alert_id.  Of the ledger the model keeps the     *)
(* last event of every check.                                              *)
(***************************************************************************)
EXTENDS Naturals, FiniteSets, Sequences, Readiness

CONSTANTS Services,       \* the conditions the service can be in
          Served,         \* the kinds of request in the access log
          Calls,          \* request ids in the error log
          None,           \* no entry, no request id
          Window,         \* DEFAULT_WINDOW_MINUTES, in ticks
          Cooldown,       \* COOLDOWN_SECONDS, in ticks
          BackupMaxAge,   \* HEALTH_BACKUP_MAX_AGE_DAYS, in ticks
          MinRequests,    \* HEALTH_ERROR_MIN_REQUESTS
          ErrorPercent,   \* HEALTH_ERROR_RATE_THRESHOLD, in percent
          MinFailures,    \* HEALTH_AUTH_FAILURE_MIN
          MinSlow,        \* HEALTH_SLOW_MIN_COUNT
          MaxClock,       \* bound: ticks of the clock
          MaxEvents,      \* bound: changes of the world
          MaxFaults       \* bound: runs that die or cannot read the state

Kinds == [route : {"/metrics", "request", "sse"},
          outcome : {"ok", "error", "interrupted"},
          long : BOOLEAN,        \* total_ms reaches the threshold
          slowModel : BOOLEAN]   \* llm_ms reaches the threshold

ASSUME HealthConstants ==
    /\ Services \subseteq Condition
    /\ Served \subseteq Kinds
    /\ None \notin Calls
    /\ None \notin [first : Nat, last : Nat] \cup [event : {"alert", "recovery"}, id : Nat, at : Nat]
    /\ {Window, Cooldown, BackupMaxAge, ErrorPercent} \subseteq Nat
    /\ {MinRequests, MinFailures, MinSlow} \subseteq Nat \ {0}
    /\ {MaxClock, MaxEvents, MaxFaults} \subseteq Nat

VARIABLES
    clock,      \* the wall clock
    service,    \* the condition of the service
    disk,       \* "enough" free space, or too little, or it cannot be told
    backups,    \* when the backups whose directory exists were last verified
    access,     \* the access logs
    errors,     \* the model-authentication entries of the error logs
    saved,      \* alerts_state.json: the open incident of every check
    ledger,     \* alerts.log: the last event of every check
    run,        \* the run under way, or the last one
    torn,       \* history: checks whose incident a fault has taken from saved
    events,     \* changes of the world so far
    faults      \* faults so far

world == <<service, disk, backups, access, errors, events>>
healthVars == <<clock, service, disk, backups, access, errors, saved, ledger, run, torn,
               events, faults>>
-----------------------------------------------------------------------------
Checks == {"ready", "backup", "disk", "error_rate", "model_auth", "slow_requests"}
Ticks == 0..MaxClock
Incident == [first : Ticks, last : Ticks]
Event == [event : {"alert", "recovery"}, id : Ticks, at : Ticks]

NoRun == [phase |-> "idle", at |-> 0, critical |-> {}, prior |-> [c \in Checks |-> None],
          next |-> [c \in Checks |-> None], todo |-> {}]

HealthTypeOK ==
    /\ clock \in Ticks
    /\ service \in Services
    /\ disk \in {"enough", "failing"}
    /\ backups \subseteq Ticks
    /\ access \in Seq([at : Ticks, kind : Served])
    /\ errors \subseteq [at : Ticks, call : Calls \cup {None}]
    /\ saved \in [Checks -> Incident \cup {None}]
    /\ ledger \in [Checks -> Event \cup {None}]
    /\ run \in [phase : {"idle", "alerts", "recoveries", "save", "send", "died"},
                at : Ticks, critical : SUBSET Checks, todo : SUBSET Checks,
                prior : [Checks -> Incident \cup {None}],
                next : [Checks -> Incident \cup {None}]]
    /\ torn \subseteq Checks
    /\ events \in 0..MaxEvents
    /\ faults \in 0..MaxFaults

\* _read_alert_state takes over the incidents of the former schema, which has
\* one time for all of them.
Legacy(active) == [c \in Checks |-> IF c \in active THEN [first |-> 0, last |-> 0] ELSE None]

HealthInit ==
    /\ clock = 0
    /\ service \in {c \in Services : ~ReadyCritical(c)}
    /\ disk = "enough"
    /\ backups = {0}
    /\ access = <<>>
    /\ errors = {}
    /\ \E active \in {{}, {"ready"}} :
          /\ saved = Legacy(active)
          /\ ledger = [c \in Checks |->
                          IF c \in active THEN [event |-> "alert", id |-> 0, at |-> 0]
                          ELSE None]
    /\ run = NoRun
    /\ torn = {}
    /\ events = 0
    /\ faults = 0
-----------------------------------------------------------------------------
(***************************************************************************)
(* What the checks find.                                                   *)
(***************************************************************************)
Recent(at) == at + Window >= clock

\* Scrapes and interrupted requests are nobody's failure.
Counts(r) ==
    Recent(r.at) /\ r.kind.route # "/metrics" /\ r.kind.outcome # "interrupted"

Requests == {i \in DOMAIN access : Counts(access[i])}
Failed == {i \in Requests : access[i].kind.outcome = "error"}

ErrorRateCritical ==
    /\ Cardinality(Requests) >= MinRequests
    /\ Failed # {}
    /\ 100 * Cardinality(Failed) >= ErrorPercent * Cardinality(Requests)

\* Mutant: the lifetime of a stream is its latency.
IsSlow_ByLifetime(kind) == kind.slowModel \/ kind.long

\* A stream is slow by its model stage only: it lasts as long as its client.
IsSlow(kind) == kind.slowModel \/ (kind.route = "request" /\ kind.long)

SlowCritical == Cardinality({i \in Requests : IsSlow(access[i].kind)}) >= MinSlow

\* One call logs its failure several times; entries without a request id are
\* told apart by their time.
AuthCritical ==
    LET recent == {e \in errors : Recent(e.at)}
        calls == {e.call : e \in recent} \ {None}
        older == {e.at : e \in {x \in recent : x.call = None}}
    IN  Cardinality(calls) + Cardinality(older) >= MinFailures

BackupCritical == \A at \in backups : clock > at + BackupMaxAge

Critical ==
    {c \in Checks : \/ c = "ready" /\ ReadyCritical(service)
                    \/ c = "backup" /\ BackupCritical
                    \/ c = "disk" /\ disk # "enough"
                    \/ c = "error_rate" /\ ErrorRateCritical
                    \/ c = "model_auth" /\ AuthCritical
                    \/ c = "slow_requests" /\ SlowCritical}
-----------------------------------------------------------------------------
(***************************************************************************)
(* A run.                                                                  *)
(***************************************************************************)

\* The scheduler starts no second run beside a running one.  The checks are
\* made, and the state is read; a state that cannot be read counts as empty.
StartRun ==
    /\ run.phase \in {"idle", "died"}
    /\ run.at < clock
    /\ \E prior \in {saved, [c \in Checks |-> None]} :
          /\ run' = [NoRun EXCEPT !.phase = "alerts", !.at = clock, !.prior = prior,
                                  !.critical = Critical, !.todo = Critical]
          /\ torn' = torn \cup {c \in Checks : prior[c] # saved[c]}
          /\ faults' = IF prior = saved THEN faults ELSE faults + 1
    /\ faults' <= MaxFaults
    /\ UNCHANGED <<clock, world, saved, ledger>>

\* Mutant: each alert starts an incident of its own.
IncidentOf_Fresh(c) == [first |-> run.at, last |-> run.at]

\* The incident a critical check belongs to: the open one, or a new one.
IncidentOf(c) ==
    IF run.prior[c] = None THEN [first |-> run.at, last |-> run.at] ELSE run.prior[c]

\* Mutant: the cooldown is that of any check.
ShouldNotify_AnyCheck(c) ==
    \A d \in Checks : run.prior[d] # None => run.at >= run.prior[d].last + Cooldown

ShouldNotify(c) ==
    run.prior[c] = None \/ run.at >= run.prior[c].last + Cooldown

\* One critical check: its alert is appended unless it is too early for another.
RaiseAlert(c) ==
    /\ run.phase = "alerts"
    /\ c \in run.todo
    /\ IF ShouldNotify(c)
       THEN /\ ledger' = [ledger EXCEPT ![c] =
                             [event |-> "alert", id |-> IncidentOf(c).first, at |-> run.at]]
            /\ run' = [run EXCEPT !.todo = @ \ {c},
                                  !.next[c] = [IncidentOf(c) EXCEPT !.last = run.at]]
       ELSE /\ run' = [run EXCEPT !.todo = @ \ {c}, !.next[c] = IncidentOf(c)]
            /\ UNCHANGED ledger
    /\ UNCHANGED <<clock, world, saved, torn, faults>>

Recovered == {c \in Checks \ run.critical : run.prior[c] # None}

AlertsDone ==
    /\ run.phase = "alerts" /\ run.todo = {}
    /\ run' = [run EXCEPT !.phase = "recoveries", !.todo = Recovered]
    /\ UNCHANGED <<clock, world, saved, ledger, torn, faults>>

RecordRecovery(c) ==
    /\ run.phase = "recoveries"
    /\ c \in run.todo
    /\ ledger' = [ledger EXCEPT ![c] =
                     [event |-> "recovery", id |-> run.prior[c].first, at |-> run.at]]
    /\ run' = [run EXCEPT !.todo = @ \ {c}]
    /\ UNCHANGED <<clock, world, saved, torn, faults>>

Appended == {c \in Checks : ledger[c] # None /\ ledger[c].at = run.at}

\* The state file is replaced as a whole.  What was torn and has an event of
\* this run agrees again.
SaveState ==
    /\ run.phase = "recoveries" /\ run.todo = {}
    /\ saved' = run.next
    /\ torn' = torn \ Appended
    /\ run' = [run EXCEPT !.phase = IF Appended = {} THEN "idle" ELSE "send"]
    /\ UNCHANGED <<clock, world, ledger, faults>>

\* The webhook is told, twice at most, and whether it heard or not the run ends.
SendWebhook ==
    /\ run.phase = "send"
    /\ run' = [run EXCEPT !.phase = "idle"]
    /\ UNCHANGED <<clock, world, saved, ledger, torn, faults>>

\* The run is killed, or writing the ledger or the state fails.
Die ==
    /\ run.phase \notin {"idle", "died"}
    /\ faults < MaxFaults
    /\ faults' = faults + 1
    /\ torn' = IF run.phase = "send" THEN torn ELSE torn \cup Appended
    /\ run' = [run EXCEPT !.phase = "died", !.todo = {}]
    /\ UNCHANGED <<clock, world, saved, ledger>>
-----------------------------------------------------------------------------
(***************************************************************************)
(* The world goes on.                                                      *)
(***************************************************************************)
Happens == events < MaxEvents /\ events' = events + 1
Elsewhere == <<clock, saved, ledger, run, torn, faults>>

Serve(kind) ==
    /\ Happens
    /\ access' = Append(access, [at |-> clock, kind |-> kind])
    /\ UNCHANGED <<Elsewhere, service, disk, backups, errors>>

LogAuthFailure(call) ==
    /\ Happens
    /\ errors' = errors \cup {[at |-> clock, call |-> call]}
    /\ UNCHANGED <<Elsewhere, service, disk, backups, access>>

ServiceChanges ==
    /\ Happens
    /\ service' \in Services \ {service}
    /\ UNCHANGED <<Elsewhere, disk, backups, access, errors>>

DiskChanges ==
    /\ Happens
    /\ disk' \in {"enough", "failing"} \ {disk}
    /\ UNCHANGED <<Elsewhere, service, backups, access, errors>>

\* A backup is verified, or the retention removes one.
BackupsChange ==
    /\ Happens
    /\ backups' \in {backups \cup {clock}} \cup {backups \ {at} : at \in backups}
    /\ UNCHANGED <<Elsewhere, service, disk, access, errors>>

ClockTicks ==
    /\ clock < MaxClock
    /\ clock' = clock + 1
    /\ UNCHANGED <<world, saved, ledger, run, torn, faults>>

HealthNext ==
    \/ StartRun \/ AlertsDone \/ SaveState \/ SendWebhook \/ Die
    \/ \E c \in Checks : RaiseAlert(c) \/ RecordRecovery(c)
    \/ \E kind \in Served : Serve(kind)
    \/ \E call \in Calls \cup {None} : LogAuthFailure(call)
    \/ ServiceChanges \/ DiskChanges \/ BackupsChange \/ ClockTicks

HealthSpec == HealthInit /\ [][HealthNext]_healthVars
-----------------------------------------------------------------------------
(***************************************************************************)
(* Properties.                                                             *)
(***************************************************************************)
IsOpen(c) == ledger[c] # None /\ ledger[c].event = "alert"

\* Between runs the ledger and the saved state tell the same story: an incident
\* is open in one exactly when it is in the other, under the same id, and after
\* a run that ended it is open exactly when the run found the check critical.
\* Only a fault between the ledger and the state can part them, and only for
\* the checks it had written about (health_check.py:556-606).
LedgerMatchesState ==
    run.phase = "idle" =>
        \A c \in Checks \ torn :
            /\ IsOpen(c) <=> saved[c] # None
            /\ IsOpen(c) => saved[c].first = ledger[c].id
            /\ run.at > 0 => (IsOpen(c) <=> c \in run.critical)

\* The story of one check: alerts of one incident come at least a cooldown
\* apart, a recovery closes the incident the last alert is about, and no other
\* incident begins before that, whatever the other checks do
\* (health_check.py:563-606; docs/ops-contract.md:80).
Continues(old, new) ==
    IF new.event = "recovery" THEN old # None /\ old.event = "alert" /\ old.id = new.id
    ELSE IF old = None \/ old.event = "recovery" THEN new.id = new.at
    ELSE old.id = new.id /\ new.at >= old.at + Cooldown

LedgerStory ==
    [][\A c \in Checks \ torn :
          ledger'[c] # ledger[c] => Continues(ledger[c], ledger'[c])]_healthVars

\* No alarm without cause, and no cause without an alarm: when a run has ended,
\* the slow-request incident is open if the window held MinSlow completed
\* requests that were slow by themselves, and only then.  Streams held open by
\* their clients, interrupted requests and scrapes weigh nothing.  Requests that
\* end while the run is under way may count or not (health_check.py:241-335).
SlowIn(from, to) ==
    Cardinality({i \in DOMAIN access :
        LET r == access[i]
        IN  /\ r.at \in from..to
            /\ \/ r.kind.route = "request" /\ (r.kind.long \/ r.kind.slowModel)
               \/ r.kind.route = "sse" /\ r.kind.slowModel
            /\ r.kind.outcome \in {"ok", "error"}})

SlowAlarmsEarned ==
    run.phase = "idle" /\ run.at > 0 /\ "slow_requests" \notin torn =>
        LET from == IF run.at > Window THEN run.at - Window ELSE 0
        IN  /\ SlowIn(from, run.at - 1) >= MinSlow => IsOpen("slow_requests")
            /\ IsOpen("slow_requests") => SlowIn(from, run.at) >= MinSlow
=============================================================================
