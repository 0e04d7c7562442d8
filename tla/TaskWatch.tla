------------------------------ MODULE TaskWatch ------------------------------
(***************************************************************************)
(* A browser tab that watches its uploads (frontend/src/store/knowledge.ts *)
(* and the parts of App, Sidebar and the stores it hangs on), on top of    *)
(* the task table the server keeps.  A watch is one call of watchTasks: it *)
(* polls its tasks independently, and when all of them are over it forgets *)
(* their ids in sessionStorage.  A 401 ends the watch but not its other    *)
(* polls; a reload ends everything but sessionStorage.                     *)
(*                                                                         *)
(* Of the table the tab sees less than there is: futures are not looked    *)
(* at, which lets a poll trim more than the server's does.                 *)
(***************************************************************************)
EXTENDS Naturals, FiniteSets

CONSTANTS Tasks, Verdicts, KeepLast,   \* as in TaskTable
          Principals,     \* who may sign in
          Admins,         \* those of them who see every task
          Nobody,         \* no valid cookie
          FailureLimit,   \* POLL_FAILURE_LIMIT
          MaxWatches      \* bound: calls of watchTasks going on at once

ASSUME WatchConstants ==
    /\ IsFiniteSet(Tasks) /\ KeepLast \in Nat
    /\ Verdicts \cap {"new", "gone", "pending", "processing"} = {}
    /\ Admins \subseteq Principals
    /\ Nobody \notin Principals
    /\ FailureLimit \in Nat
    /\ MaxWatches \in Nat \ {0}

VARIABLES
    status,      \* the task table
    owner,       \* principal_id of a task, Nobody before its upload
    user,        \* whom the tab's HttpOnly cookie authenticates
    page,        \* "loading": restoring; "login"; "kb": the Sidebar is there
    stored,      \* activeUploadTaskIds in sessionStorage
    uploading,   \* uploading of the knowledge store
    watch,       \* watch[w]: its phase, and where the poll of each task stands
    owed         \* history: the tasks whose ids the tab has received, without those
                 \* it gave up on or asked for as a stranger

cookie == <<user, page>>
tab == <<stored, uploading, watch>>
tabVars == <<status, owner, user, page, stored, uploading, watch, owed>>

INSTANCE TaskTable WITH tracked <- {}
-----------------------------------------------------------------------------
Watches == 1..MaxWatches
Answers == {"none", "401", "404", "failed", "running", "over"}
Poll == [at : {"off", "post", "ask", "reply", "ended"}, fails : 0..FailureLimit,
         answer : Answers]

NoPoll == [at |-> "off", fails |-> 0, answer |-> "none"]
Asking(n) == [at |-> "ask", fails |-> n, answer |-> "none"]
NoWatch == [phase |-> "free", polls |-> [t \in Tasks |-> NoPoll]]
Watching(ids) ==
    [phase |-> "live", polls |-> [t \in Tasks |-> IF t \in ids THEN Asking(0) ELSE NoPoll]]

TabTypeOK ==
    /\ status \in [Tasks -> Statuses]
    /\ owner \in [Tasks -> Principals \cup {Nobody}]
    /\ user \in Principals \cup {Nobody}
    /\ page \in {"loading", "login", "kb"}
    /\ stored \subseteq Tasks
    /\ uploading \in BOOLEAN
    /\ watch \in [Watches -> [phase : {"free", "live", "refresh", "left"},
                              polls : [Tasks -> Poll]]]
    /\ owed \subseteq Tasks

TabInit ==
    /\ TableInit
    /\ owner = [t \in Tasks |-> Nobody]
    /\ user = Nobody
    /\ page = "loading"
    /\ stored = {}
    /\ uploading = FALSE
    /\ watch = [w \in Watches |-> NoWatch]
    /\ owed = {}

IsFree(w) == watch[w].phase = "free" /\ \A v \in 1..(w - 1) : watch[v].phase # "free"
TasksOf(w) == {t \in Tasks : watch[w].polls[t].at # "off"}

\* resumeUploadTasks, when the Sidebar appears.
Resume ==
    IF stored = {} THEN UNCHANGED <<uploading, watch>>
    ELSE \E w \in Watches : /\ IsFree(w)
                            /\ uploading' = TRUE
                            /\ watch' = [watch EXCEPT ![w] = Watching(stored)]
-----------------------------------------------------------------------------
(***************************************************************************)
(* The session.                                                            *)
(***************************************************************************)

\* Login: the cookie is set and the Sidebar appears.
SignIn(p) ==
    /\ page = "login"
    /\ user' = p
    /\ page' = "kb"
    /\ Resume
    /\ UNCHANGED <<status, owner, stored, owed>>

\* logout: the page is left whether or not the server could revoke the cookie.
SignOut ==
    /\ page = "kb"
    /\ user' \in {user, Nobody}
    /\ page' = "login"
    /\ UNCHANGED <<status, owner, tab, owed>>

\* The token in the cookie runs out.
Expire ==
    /\ user # Nobody
    /\ user' = Nobody
    /\ UNCHANGED <<status, owner, page, tab, owed>>

\* The page is loaded afresh: all but sessionStorage is gone.
Reload ==
    /\ page' = "loading"
    /\ watch' = [w \in Watches |-> NoWatch]
    /\ uploading' = FALSE
    /\ UNCHANGED <<status, owner, user, stored, owed>>

\* restoreSession: the server says whom the cookie authenticates, or nothing.
Restore ==
    /\ page = "loading"
    /\ \/ user # Nobody /\ page' = "kb" /\ Resume
       \/ page' = "login" /\ UNCHANGED <<uploading, watch>>
    /\ UNCHANGED <<status, owner, user, stored, owed>>
-----------------------------------------------------------------------------
(***************************************************************************)
(* uploadFiles.                                                            *)
(***************************************************************************)

\* The upload zone takes files while nothing is uploading.
ZoneOpen == page = "kb" /\ ~uploading

\* POST /upload: the server authenticates the cookie and registers the task t, or
\* refuses.
BeginUpload(w, t) ==
    /\ ZoneOpen
    /\ IsFree(w)
    /\ status[t] = "new"
    /\ \E answer \in {"running", "failed"} :
          /\ \/ /\ answer = "running"
                /\ user # Nobody
                /\ Register(t)
                /\ owner' = [owner EXCEPT ![t] = user]
             \/ /\ answer = "failed"
                /\ UNCHANGED <<status, owner>>
          /\ watch' = [watch EXCEPT ![w] =
                [phase |-> "live",
                 polls |-> [NoWatch.polls EXCEPT ![t] =
                              [at |-> "post", fails |-> 0, answer |-> answer]]]]
    /\ uploading' = TRUE
    /\ UNCHANGED <<cookie, stored, owed>>

\* The response names the task, which may be over and trimmed by now: its id is
\* remembered and its poll begins.
UploadAccepted(w, t) ==
    /\ watch[w].polls[t].at = "post"
    /\ watch[w].polls[t].answer = "running"
    /\ stored' = stored \cup {t}
    /\ owed' = owed \cup {t}
    /\ watch' = [watch EXCEPT ![w] = Watching({t})]
    /\ UNCHANGED <<status, owner, cookie, uploading>>

\* The response is an error, a 401 among them, or none arrives.
UploadFailed(w, t) ==
    /\ watch[w].polls[t].at = "post"
    /\ watch' = [watch EXCEPT ![w] = NoWatch]
    /\ uploading' = FALSE
    /\ page' = IF user = Nobody THEN "login" ELSE page
    /\ UNCHANGED <<status, owner, user, stored, owed>>
-----------------------------------------------------------------------------
(***************************************************************************)
(* pollTask and watchTasks.                                                *)
(***************************************************************************)

MaySee(t) == status[t] \notin {"new", "gone"} /\ (user = owner[t] \/ user \in Admins)

\* GET /tasks/{t} reaches the server and is answered; the history of finished
\* tasks is trimmed before the answer, for strangers too.  Or it fails.
Ask(w, t) ==
    /\ watch[w].polls[t].at = "ask"
    /\ \E answer \in Answers :
          /\ watch' = [watch EXCEPT ![w].polls[t] =
                                      [@ EXCEPT !.at = "reply", !.answer = answer]]
          /\ \/ /\ answer = "failed"
                /\ UNCHANGED <<status, owed>>
             \/ /\ user = Nobody
                /\ answer = "401"
                /\ UNCHANGED <<status, owed>>
             \/ /\ user # Nobody
                /\ answer = IF ~MaySee(t) THEN "404"
                            ELSE IF status[t] \in Verdicts THEN "over" ELSE "running"
                /\ Trim(t)
                /\ owed' = IF user = owner[t] THEN owed ELSE owed \ {t}
    /\ UNCHANGED <<owner, cookie, stored, uploading>>

\* Mutant: the ids are forgotten whichever way the watch ends.
Forgets_Always(completed) == TRUE

\* watchTasks forgets its ids only when every poll has returned.
Forgets(completed) == completed

StoredAfter(w, completed) == IF Forgets(completed) THEN stored \ TasksOf(w) ELSE stored

GivesUp(poll) == poll.fails = FailureLimit

\* Mutant: a task that is not there is asked for again.
IsFinal_OnlyOver(answer) == answer = "over"

IsFinal(answer) == answer \in {"over", "404"}

\* The poll of t is over, and with the last poll the watch.
PollEnds(w, t) ==
    LET polls == [watch[w].polls EXCEPT ![t] = [NoPoll EXCEPT !.at = "ended"]]
        open == \E u \in Tasks : polls[u].at \in {"ask", "reply"}
    IN  /\ watch' = [watch EXCEPT ![w] =
                        IF open THEN [@ EXCEPT !.polls = polls]
                        ELSE IF @.phase = "left" THEN NoWatch
                        ELSE [phase |-> "refresh", polls |-> polls]]
        /\ stored' = IF ~open /\ watch[w].phase = "live" THEN StoredAfter(w, TRUE)
                     ELSE stored

\* The answer arrives: asked again, given up, over for good, or signed out.
Reply(w, t) ==
    LET poll == watch[w].polls[t]
    IN  /\ poll.at = "reply"
        /\ \/ /\ poll.answer \in {"running", "404"} /\ ~IsFinal(poll.answer)
              /\ watch' = [watch EXCEPT ![w].polls[t] = Asking(0)]
              /\ UNCHANGED <<page, stored, uploading, owed>>
           \/ /\ poll.answer = "failed" /\ ~GivesUp(poll)
              /\ watch' = [watch EXCEPT ![w].polls[t] = Asking(poll.fails + 1)]
              /\ UNCHANGED <<page, stored, uploading, owed>>
           \/ /\ poll.answer = "failed" /\ GivesUp(poll)
              /\ PollEnds(w, t)
              /\ owed' = owed \ {t}
              /\ UNCHANGED <<page, uploading>>
           \/ /\ IsFinal(poll.answer)
              /\ PollEnds(w, t)
              /\ UNCHANGED <<page, uploading, owed>>
    /\ UNCHANGED <<status, owner, user>>

\* Mutant: a 401 ends the watch but leaves the page.
Leaves_Never == page

\* auth:logout: the login form takes the page's place.
Leaves == "login"

\* A 401: the page returns to the login form and the watch is rejected; its
\* other polls go on by themselves.
SignedOut(w, t) ==
    LET rest == [watch[w].polls EXCEPT ![t] = [NoPoll EXCEPT !.at = "ended"]]
    IN  /\ watch[w].polls[t].at = "reply"
        /\ watch[w].polls[t].answer = "401"
        /\ page' = Leaves
        /\ watch' = [watch EXCEPT ![w] =
                        IF \E u \in Tasks : rest[u].at \in {"ask", "reply"}
                        THEN [phase |-> "left", polls |-> rest] ELSE NoWatch]
        /\ IF watch[w].phase = "live"
           THEN uploading' = FALSE /\ stored' = StoredAfter(w, FALSE)
           ELSE UNCHANGED <<uploading, stored>>
        /\ UNCHANGED <<status, owner, user, owed>>

\* The documents are listed anew, and the watch is over.
Refresh(w) ==
    /\ watch[w].phase = "refresh"
    /\ watch' = [watch EXCEPT ![w] = NoWatch]
    /\ uploading' = FALSE
    /\ page' = IF page = "kb" /\ user = Nobody THEN "login" ELSE page
    /\ UNCHANGED <<status, owner, user, stored, owed>>
-----------------------------------------------------------------------------
\* The task ends.  That it starts is nothing the tab tells apart.
ServerStep(t) ==
    /\ Conclude(t)
    /\ UNCHANGED <<owner, cookie, tab, owed>>

ServerRestarts == TableRestart /\ UNCHANGED <<owner, cookie, tab, owed>>

PollStep(w, t) == Ask(w, t) \/ Reply(w, t) \/ SignedOut(w, t)
PostStep(w, t) == UploadAccepted(w, t) \/ UploadFailed(w, t)

TabNext ==
    \/ \E p \in Principals : SignIn(p)
    \/ SignOut \/ Expire \/ Reload \/ Restore
    \/ \E w \in Watches, t \in Tasks : BeginUpload(w, t) \/ PostStep(w, t) \/ PollStep(w, t)
    \/ \E w \in Watches : Refresh(w)
    \/ \E t \in Tasks : ServerStep(t)
    \/ ServerRestarts

TabSpec == TabInit /\ [][TabNext]_tabVars

\* Requests are answered or fail, the event loop goes on, and, as the upload
\* pipeline guarantees, every registered task ends.
FairTabSpec ==
    /\ TabSpec
    /\ \A w \in Watches, t \in Tasks : WF_tabVars(PostStep(w, t)) /\ WF_tabVars(PollStep(w, t))
    /\ \A w \in Watches : WF_tabVars(Refresh(w))
    /\ \A t \in Tasks : WF_tabVars(ServerStep(t))
-----------------------------------------------------------------------------
(***************************************************************************)
(* Properties.                                                             *)
(***************************************************************************)

\* A task the tab has been told of stays in sessionStorage until it is over, so
\* that the next sign-in or reload watches it again: through 401s that end a
\* watch half-way, polls that outlive their watch, reloads and the trimming of
\* the table by others.  The exceptions are tasks the tab gave up on after
\* too many failures and tasks it asked for as somebody else
\* (knowledge.ts:133-143; knowledge.test.ts:127).
NotLost ==
    \A t \in owed : status[t] \in Unfinished => t \in stored

\* While the page is there, everything remembered is watched: no interleaving of
\* sign-outs, failed logouts, late 401s and uploads in flight leaves an id in
\* sessionStorage that nobody polls (knowledge.ts:161-166, App.tsx:19-24).
Watched ==
    page = "kb" => \A t \in stored : \E w \in Watches :
                      watch[w].phase = "live" /\ t \in TasksOf(w)

\* A watch does not hang: the upload zone opens again, whatever the network does
\* (knowledge.ts:95-126, 172-174).
WatchesEnd == uploading ~> ~uploading
=============================================================================
