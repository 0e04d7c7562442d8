----------------------------- MODULE ChatStream -----------------------------
(***************************************************************************)
(* POST /api/chat (backend/api/chat.py) with the sessions of               *)
(* backend/session.py and the quality store: a request is accepted on the  *)
(* event loop; a producer thread runs the answer generator and posts its   *)
(* events to the loop; the response generator relays them to the client,   *)
(* who may go away at any moment; an answer told done enters the history   *)
(* of its session.                                                         *)
(*                                                                         *)
(* What runs on the event loop between two awaits is one step.  An answer  *)
(* is the number of its tokens.  The methods of the quality store are the  *)
(* actions of QualityStore.                                                *)
(***************************************************************************)
EXTENDS Naturals, Sequences, FiniteSets

CONSTANTS Requests,    \* chat requests, each with the run id it draws
          Messages,    \* X-Message-Id values
          Principals,
          Sessions,    \* session ids that can be drawn
          MaxMessages, \* MAX_MESSAGES
          MaxSessions, \* SESSION_MAX_COUNT
          None,
          MaxTokens,   \* bound: tokens of an answer
          MaxCrashes   \* bound: restarts of the process

ASSUME ChatConstants ==
    /\ IsFiniteSet(Requests)
    /\ MaxMessages \in Nat /\ MaxMessages % 2 = 0
    /\ MaxSessions \in Nat \ {0}
    /\ MaxTokens \in Nat
    /\ MaxCrashes \in Nat
    /\ None \notin Principals

VARIABLES
    owner,       \* _SESSION_PRINCIPALS: owner[s], or None
    touched,     \* the keys of _SESSION_TOUCHED, least recent first
    history,     \* _SESSION_HISTORIES: history[s]
    drawn,       \* session ids drawn so far
    handler,     \* handler[q]: where the response generator of q stands
    producer,    \* producer[q]: where the producer thread of q stands
    call,        \* call[q]: who asks, in which session, and is there a run
    recalled,    \* recalled[q]: the requests whose messages q was answered with
    generated,   \* generated[q]: tokens the answer generator yielded
    collected,   \* collected[q]: tokens the response generator relayed
    queue,       \* queue[q]: events posted to the event loop
    stop,        \* stop[q]: stop_event
    verdict,     \* verdict[q]: the terminal event the producer decided on
    told,        \* told[q]: the terminal event relayed to the client
    gone,        \* the requests whose client disconnected
    unrecorded,  \* the requests whose run the store failed to write
    runs, feedback, issued, now,   \* the quality store
    crashes      \* restarts so far

\* Time stands still, nobody judges: feedback and purges are QualityStore's
\* subject.
Store == INSTANCE QualityStore
    WITH Runs <- Requests, Limit <- Cardinality(Requests), Window <- 0,
         Retention <- 1, MaxTime <- 0

sessions == <<owner, touched, history, drawn>>
stream == <<handler, producer, generated, collected, queue, stop, verdict, told>>
request == <<call, recalled>>
store == <<runs, feedback, issued, now>>
vars == <<sessions, stream, request, gone, unrecorded, store, crashes>>
-----------------------------------------------------------------------------

\* The terminal events.  "eligible" is a done event that offers feedback.
\* "failed" is one too, although its payload is an error's: see EndAnswer.
DoneEvents == {"done", "eligible", "failed"}
Terminals == DoneEvents \cup {"error"}
Entry == [role: {"user", "assistant"}, of: Requests, length: 0..MaxTokens]
Call == [principal: Principals, session: Sessions, tracked: BOOLEAN]
Live == {"accepted", "waiting", "told"}

\* What is not there is told from every record.
ASSUME NoRecord == None \notin Call /\ None \notin Store!RunRow

TypeOK ==
    /\ owner \in [Sessions -> Principals \cup {None}]
    /\ touched \in Seq(Sessions)
    /\ history \in [Sessions -> Seq(Entry)]
    /\ drawn \subseteq Sessions
    /\ handler \in [Requests -> Live \cup {"new", "refused", "ended", "dead"}]
    /\ producer \in [Requests -> {"none", "generating", "interrupted", "finalize",
                                  "post", "close", "over"}]
    /\ call \in [Requests -> Call \cup {None}]
    /\ recalled \in [Requests -> SUBSET Requests]
    /\ generated \in [Requests -> 0..MaxTokens]
    /\ collected \in [Requests -> 0..MaxTokens]
    /\ queue \in [Requests -> Seq(Terminals \cup {"token", "end"})]
    /\ stop \in [Requests -> BOOLEAN]
    /\ verdict \in [Requests -> Terminals \cup {"none"}]
    /\ told \in [Requests -> Terminals \cup {"none"}]
    /\ gone \subseteq Requests
    /\ unrecorded \subseteq Requests
    /\ Store!TypeOK
    /\ crashes \in 0..MaxCrashes

Init ==
    /\ owner = [s \in Sessions |-> None]
    /\ touched = <<>>
    /\ history = [s \in Sessions |-> <<>>]
    /\ drawn = {}
    /\ handler = [q \in Requests |-> "new"]
    /\ producer = [q \in Requests |-> "none"]
    /\ call = [q \in Requests |-> None]
    /\ recalled = [q \in Requests |-> {}]
    /\ generated = [q \in Requests |-> 0]
    /\ collected = [q \in Requests |-> 0]
    /\ queue = [q \in Requests |-> <<>>]
    /\ stop = [q \in Requests |-> FALSE]
    /\ verdict = [q \in Requests |-> "none"]
    /\ told = [q \in Requests |-> "none"]
    /\ gone = {}
    /\ unrecorded = {}
    /\ Store!Init
    /\ crashes = 0
-----------------------------------------------------------------------------
(***************************************************************************)
(* Accepting a request: session, history and run.  All of it runs on the   *)
(* event loop without an await.                                            *)
(***************************************************************************)

\* The n least recently touched sessions are forgotten, with their history.
Oldest(n) == {touched[i] : i \in 1..n}
Forget(gonners) ==
    /\ owner' = [s \in Sessions |-> IF s \in gonners THEN None ELSE owner[s]]
    /\ history' = [s \in Sessions |-> IF s \in gonners THEN <<>> ELSE history[s]]

Without(gonners) == SelectSeq(touched, LAMBDA x : x \notin gonners)

\* Mutant: a session id is as good as its owner.
Owned_ByAnyone(s, p, n) == s \notin Oldest(n) /\ owner[s] # None

\* After the n oldest sessions have expired, s is there and belongs to p.
Owned(s, p, n) == s \notin Oldest(n) /\ owner[s] = p

\* get_or_create_session_id refuses a session that expired or is another's.
RefuseSession(q, p, s, n) ==
    /\ ~Owned(s, p, n)
    /\ handler' = [handler EXCEPT ![q] = "refused"]
    /\ Forget(Oldest(n))
    /\ touched' = Without(Oldest(n))
    /\ UNCHANGED <<drawn, producer, generated, collected, queue, stop, verdict, told,
                   request, gone, unrecorded, store, crashes>>

ContinueSession(p, s, n) ==
    /\ Owned(s, p, n)
    /\ Forget(Oldest(n))
    /\ touched' = Append(Without(Oldest(n) \cup {s}), s)
    /\ UNCHANGED drawn

\* A new session may push out the least recently used ones.
NewSession(p, s, n) ==
    LET kept == Len(touched) - n
        evicted == IF kept + 1 > MaxSessions THEN n + kept + 1 - MaxSessions ELSE n
    IN  /\ s \notin drawn
        /\ drawn' = drawn \cup {s}
        /\ owner' = [x \in Sessions |-> IF x = s THEN p
                                        ELSE IF x \in Oldest(evicted) THEN None
                                        ELSE owner[x]]
        /\ history' = [x \in Sessions |->
                          IF x \in Oldest(evicted) THEN <<>> ELSE history[x]]
        /\ touched' = Append(Without(Oldest(evicted) \cup {s}), s)

\* reserve_run, once the session is known: a message id in use ends the request;
\* a store that is off or fails leaves it without a run.
OpenRun(q, p, s, m) ==
    \/ /\ Store!ReserveRun(q, m, p)
       /\ handler' = [handler EXCEPT ![q] = "accepted"]
       /\ call' = [call EXCEPT ![q] = [principal |-> p, session |-> s, tracked |-> TRUE]]
    \/ /\ ~Store!Unused(m)
       /\ handler' = [handler EXCEPT ![q] = "refused"]
       /\ UNCHANGED <<call, store>>
    \/ /\ handler' = [handler EXCEPT ![q] = "accepted"]
       /\ call' = [call EXCEPT ![q] = [principal |-> p, session |-> s, tracked |-> FALSE]]
       /\ UNCHANGED store

\* chat(): any number of the oldest sessions can have expired by now.
Accept(q) ==
    /\ handler[q] = "new"
    /\ \E p \in Principals, s \in Sessions, n \in 0..Len(touched) :
          \/ RefuseSession(q, p, s, n)
          \/ /\ ContinueSession(p, s, n) \/ NewSession(p, s, n)
             /\ recalled' = [recalled EXCEPT ![q] =
                                {history'[s][i].of : i \in DOMAIN history'[s]}]
             /\ \E m \in Messages : OpenRun(q, p, s, m)
             /\ UNCHANGED <<producer, generated, collected, queue, stop, verdict,
                            told, gone, unrecorded, crashes>>
-----------------------------------------------------------------------------
(***************************************************************************)
(* The producer thread.                                                    *)
(***************************************************************************)

ProducerGoes(q, from, to) ==
    producer[q] = from /\ producer' = [producer EXCEPT ![q] = to]

\* emit: nothing is posted once the response generator has ended.
Emit(q, event) ==
    queue' = IF handler[q] = "waiting" THEN [queue EXCEPT ![q] = Append(@, event)]
                                       ELSE queue

\* A token is posted unless the stream was stopped meanwhile.
YieldToken(q) ==
    /\ generated[q] < MaxTokens
    /\ generated' = [generated EXCEPT ![q] = @ + 1]
    /\ \/ stop[q] /\ ProducerGoes(q, "generating", "interrupted") /\ UNCHANGED queue
       \/ ~stop[q] /\ ProducerGoes(q, "generating", "generating") /\ Emit(q, "token")
    /\ UNCHANGED <<sessions, handler, collected, stop, verdict, told, request, gone,
                   unrecorded, store, crashes>>

\* The generator is exhausted: a stream stopped after its last token is closed
\* without a word; otherwise the answer's metadata say how it ended.  Greetings
\* and empty answers are not offered for feedback.  Of an answer that failed by
\* its metadata (interrupted, empty, no retrieval) on_done makes the payload of
\* an error, in which the caller no longer finds what told the failure: it
\* posts a done event.
EndAnswer(q) ==
    /\ \/ /\ stop[q]
          /\ ProducerGoes(q, "generating", "close")
          /\ UNCHANGED verdict
       \/ /\ ~stop[q]
          /\ ProducerGoes(q, "generating", "finalize")
          /\ \E v \in IF generated[q] > 0 THEN DoneEvents ELSE {"done", "failed"} :
                verdict' = [verdict EXCEPT ![q] = v]
    /\ UNCHANGED <<sessions, handler, generated, collected, queue, stop, told,
                   request, gone, unrecorded, store, crashes>>

\* Mutant: an answer that raises is reported but its run is not written.
FailAnswer_Unrecorded(q) ==
    /\ \/ stop[q] /\ ProducerGoes(q, "generating", "interrupted") /\ UNCHANGED verdict
       \/ /\ ~stop[q]
          /\ ProducerGoes(q, "generating", "post")
          /\ verdict' = [verdict EXCEPT ![q] = "error"]
    /\ UNCHANGED <<sessions, handler, generated, collected, queue, stop, told,
                   request, gone, unrecorded, store, crashes>>

\* Mutant: an answer that raises is closed without an event.
FailAnswer_Silent(q) ==
    /\ ProducerGoes(q, "generating", "interrupted")
    /\ UNCHANGED <<sessions, handler, generated, collected, queue, stop, verdict, told,
                   request, gone, unrecorded, store, crashes>>

\* The generator raises.
FailAnswer(q) ==
    /\ \/ stop[q] /\ ProducerGoes(q, "generating", "interrupted") /\ UNCHANGED verdict
       \/ /\ ~stop[q]
          /\ ProducerGoes(q, "generating", "finalize")
          /\ verdict' = [verdict EXCEPT ![q] = "error"]
    /\ UNCHANGED <<sessions, handler, generated, collected, queue, stop, told,
                   request, gone, unrecorded, store, crashes>>

\* finalize_quality: the run is written, or there is none, or writing it fails.
Recorded(q, terminal, eligible) ==
    call[q].tracked /\ Store!FinalizeRun(q, terminal, eligible) /\ UNCHANGED unrecorded

NotRecorded(q) ==
    /\ unrecorded' = IF call[q].tracked THEN unrecorded \cup {q} ELSE unrecorded
    /\ UNCHANGED store

\* Mutant: feedback is offered whether or not the run was written.
Offer_Anyway(v) == v

\* Feedback is offered only on a run that was written.
Offer(v) == IF v = "eligible" THEN "done" ELSE v

\* on_done, on_error: the run is written before the client hears of the end.
FinalizeRun(q) ==
    /\ ProducerGoes(q, "finalize", "post")
    /\ \/ /\ Recorded(q, IF verdict[q] \in {"failed", "error"} THEN "error" ELSE "done",
                      verdict[q] = "eligible")
          /\ UNCHANGED verdict
       \/ NotRecorded(q) /\ verdict' = [verdict EXCEPT ![q] = Offer(@)]
    /\ UNCHANGED <<sessions, handler, generated, collected, queue, stop, told,
                   request, gone, crashes>>

\* on_interrupted
FinalizeInterrupted(q) ==
    /\ ProducerGoes(q, "interrupted", "close")
    /\ Recorded(q, "interrupted", FALSE) \/ NotRecorded(q)
    /\ UNCHANGED <<sessions, handler, generated, collected, queue, stop, verdict, told,
                   request, gone, crashes>>

PostTerminal(q) ==
    /\ ProducerGoes(q, "post", "close")
    /\ Emit(q, verdict[q])
    /\ verdict' = [verdict EXCEPT ![q] = "none"]
    /\ UNCHANGED <<sessions, handler, generated, collected, stop, told, request,
                    gone, unrecorded, store, crashes>>

CloseAnswer(q) ==
    /\ ProducerGoes(q, "close", "over")
    /\ Emit(q, "end")
    /\ UNCHANGED <<sessions, handler, generated, collected, stop, verdict, told,
                   request, gone, unrecorded, store, crashes>>
-----------------------------------------------------------------------------
(***************************************************************************)
(* The response generator, on the event loop.                              *)
(***************************************************************************)

\* _run_sse starts the producer.
StartStream(q) ==
    /\ handler[q] = "accepted"
    /\ handler' = [handler EXCEPT ![q] = "waiting"]
    /\ producer' = [producer EXCEPT ![q] = "generating"]
    /\ UNCHANGED <<sessions, generated, collected, queue, stop, verdict, told, request,
                   gone, unrecorded, store, crashes>>

RelayToken(q) ==
    /\ handler[q] = "waiting" /\ queue[q] # <<>> /\ Head(queue[q]) = "token"
    /\ queue' = [queue EXCEPT ![q] = Tail(@)]
    /\ collected' = [collected EXCEPT ![q] = @ + 1]
    /\ UNCHANGED <<sessions, handler, producer, generated, stop, verdict, told,
                   request, gone, unrecorded, store, crashes>>

RelayTerminal(q) ==
    /\ handler[q] = "waiting" /\ queue[q] # <<>> /\ Head(queue[q]) \in Terminals
    /\ queue' = [queue EXCEPT ![q] = Tail(@)]
    /\ told' = [told EXCEPT ![q] = Head(queue[q])]
    /\ handler' = [handler EXCEPT ![q] = "told"]
    /\ UNCHANGED <<sessions, producer, generated, collected, stop, verdict, request,
                   gone, unrecorded, store, crashes>>

ShouldPersist(q) == told[q] \in DoneEvents /\ collected[q] > 0

\* Mutant: the two messages are trimmed to one less than the limit.
Trim_OffByOne(h) ==
    IF Len(h) > MaxMessages - 1 THEN SubSeq(h, Len(h) - MaxMessages + 2, Len(h)) ELSE h

Trim(h) ==
    IF Len(h) > MaxMessages THEN SubSeq(h, Len(h) - MaxMessages + 1, Len(h)) ELSE h

\* append_message, twice; a session forgotten meanwhile gets a history again.
AppendTurn(q) ==
    LET s == call[q].session
        question == [role |-> "user", of |-> q, length |-> 0]
        answer == [role |-> "assistant", of |-> q, length |-> collected[q]]
    IN  history' = [history EXCEPT ![s] = Trim(Append(Trim(Append(@, question)), answer))]

\* The generator resumes after its last event.
FinishStream(q) ==
    /\ handler[q] = "told"
    /\ handler' = [handler EXCEPT ![q] = "ended"]
    /\ stop' = [stop EXCEPT ![q] = TRUE]
    /\ queue' = [queue EXCEPT ![q] = <<>>]
    /\ IF ShouldPersist(q) THEN AppendTurn(q) ELSE UNCHANGED history
    /\ UNCHANGED <<owner, touched, drawn, producer, generated, collected, verdict,
                   told, request, gone, unrecorded, store, crashes>>

\* The client is gone: the generator notices, is cancelled or is dropped, and
\* with it its queue.  A
\* stream dropped before it started never starts its producer.
DropStream(q) ==
    /\ q \in gone /\ handler[q] \in Live
    /\ handler' = [handler EXCEPT ![q] = "ended"]
    /\ stop' = [stop EXCEPT ![q] = TRUE]
    /\ queue' = [queue EXCEPT ![q] = <<>>]
    /\ UNCHANGED <<sessions, producer, generated, collected, verdict, told, request,
                   gone, unrecorded, store, crashes>>
-----------------------------------------------------------------------------
(***************************************************************************)
(* Clients, and the process.                                               *)
(***************************************************************************)

Disconnect(q) ==
    /\ handler[q] \in Live /\ q \notin gone
    /\ gone' = gone \cup {q}
    /\ UNCHANGED <<sessions, stream, request, unrecorded, store, crashes>>

\* Sessions and streams live in memory; the quality store is on disk.
Restart ==
    /\ crashes < MaxCrashes
    /\ crashes' = crashes + 1
    /\ owner' = [s \in Sessions |-> None]
    /\ touched' = <<>>
    /\ history' = [s \in Sessions |-> <<>>]
    /\ handler' = [q \in Requests |-> IF handler[q] = "new" THEN "new" ELSE "dead"]
    /\ producer' = [q \in Requests |-> "none"]
    /\ call' = [q \in Requests |-> None]
    /\ recalled' = [q \in Requests |-> {}]
    /\ generated' = [q \in Requests |-> 0]
    /\ collected' = [q \in Requests |-> 0]
    /\ queue' = [q \in Requests |-> <<>>]
    /\ stop' = [q \in Requests |-> FALSE]
    /\ verdict' = [q \in Requests |-> "none"]
    /\ told' = [q \in Requests |-> "none"]
    /\ gone' = {}
    /\ unrecorded' = {}
    /\ UNCHANGED <<drawn, store>>

ProducerStep(q) == \/ YieldToken(q) \/ EndAnswer(q) \/ FailAnswer(q)
                   \/ FinalizeRun(q) \/ FinalizeInterrupted(q)
                   \/ PostTerminal(q) \/ CloseAnswer(q)

HandlerStep(q) == \/ StartStream(q) \/ RelayToken(q) \/ RelayTerminal(q)
                  \/ FinishStream(q) \/ DropStream(q)

Next == \/ \E q \in Requests : \/ Accept(q) \/ ProducerStep(q) \/ HandlerStep(q)
                               \/ Disconnect(q)
        \/ Restart

Spec == Init /\ [][Next]_vars
-----------------------------------------------------------------------------
(***************************************************************************)
(* Properties.                                                             *)
(***************************************************************************)

\* A history is made of whole turns: a question followed by its answer, of a
\* request of that session that was told done, and the answer is all the
\* generator yielded, whatever streams ran side by side, were cut off or
\* trimmed (chat.py:71, session.py:57).  An answer that raised or was cut off
\* stays out; one that failed by its metadata is told done and does enter, with
\* the part it got to and the notice that broke it off, against
\* backend/API.md:138 and docs/architecture.md:58.
HistoryOfWholeTurns ==
    \A s \in Sessions : \A i \in DOMAIN history[s] :
        LET e == history[s][i]
        IN  /\ Len(history[s]) % 2 = 0
            /\ e.role = IF i % 2 = 1 THEN "user" ELSE "assistant"
            /\ e.role = "user" => history[s][i + 1].of = e.of
            /\ e.role = "assistant" => e.length = generated[e.of] /\ e.length > 0
            /\ call[e.of].session = s
            /\ told[e.of] \in DoneEvents

\* An answer is composed with messages of its own principal only, though
\* sessions expire, are evicted, get histories after eviction and session ids
\* are whatever clients send (session.py:25-62).
RecallsOwnMessages ==
    \A q \in Requests : \A r \in recalled[q] :
        call[q] # None => call[r].principal = call[q].principal

\* What a client is told is what the run says, and feedback is offered only on
\* a run that accepts it: the run is written first, and nothing rewrites it
\* (chat.py:322, ops-contract.md:35).  The one exception is an answer that failed
\* by its metadata: its run says error and its client is told done, with an
\* error's payload and no offer, against docs/architecture.md:55.
ToldIsRecorded ==
    \A q \in Requests : \A v \in {told[q]} \cup {queue[q][i] : i \in DOMAIN queue[q]} :
        /\ v = "eligible" => runs[q] # None /\ runs[q].eligible
        /\ v \in Terminals /\ call[q].tracked /\ q \notin unrecorded =>
              runs[q].terminal = IF v \in {"failed", "error"} THEN "error" ELSE "done"

\* A run that is still open when its producer is over was left by its client or
\* could not be written; no other order of the two sides loses it.
OpenRunsWereLeft ==
    \A q \in Requests :
        producer[q] = "over" /\ runs[q] # None /\ runs[q].terminal = "running" =>
            q \in gone \cup unrecorded

\* No stream is left hanging between its two sides: while its handler waits,
\* its producer has something to post or an event waits in the queue, and a
\* producer that is over has posted how the answer ended, in whatever order
\* stops, failures and closes fall (chat.py:132-159, 199-235).  A stream that
\* ended has told its client, unless the client left.  The steps of a stream
\* are finitely many, so one that goes on taking them ends.
NoStreamHangs ==
    \A q \in Requests :
        /\ handler[q] = "waiting" /\ producer[q] = "over" /\ q \notin gone =>
              \E i \in DOMAIN queue[q] : queue[q][i] \in Terminals
        /\ handler[q] = "told" => told[q] # "none"
        /\ handler[q] = "ended" => told[q] # "none" \/ q \in gone
=============================================================================
