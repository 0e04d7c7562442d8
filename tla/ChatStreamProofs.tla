-------------------------- MODULE ChatStreamProofs --------------------------
(***************************************************************************)
(* Theorems about ChatStream, for any requests, principals, sessions and   *)
(* message ids, and for histories, answers and restarts of any number:     *)
(* what the two sides of a stream know of each other, that what a client   *)
(* hears is what its run says, and what the histories of the sessions are  *)
(* made of.                                                                *)
(*                                                                         *)
(* Most of the invariant speaks of one request at a time: of where its     *)
(* handler and its producer stand, what lies in the queue between them,    *)
(* and what its run says.  An action of one request leaves those of the    *)
(* others alone (Unmoved).                                                 *)
(***************************************************************************)
EXTENDS ChatStream, Integers, TLAPS

USE ChatConstants
-----------------------------------------------------------------------------
(***************************************************************************)
(* The inductive invariant, part by part.                                  *)
(***************************************************************************)

\* The types, without the order in which sessions were touched (SelectSeq).
TypedSessions ==
    /\ owner \in [Sessions -> Principals \cup {None}]
    /\ history \in [Sessions -> Seq(Entry)]
    /\ drawn \subseteq Sessions

TypedStream ==
    /\ handler \in [Requests -> Live \cup {"new", "refused", "ended", "dead"}]
    /\ producer \in [Requests -> {"none", "generating", "interrupted", "finalize",
                                  "post", "close", "over"}]
    /\ generated \in [Requests -> 0..MaxTokens]
    /\ collected \in [Requests -> 0..MaxTokens]
    /\ queue \in [Requests -> Seq(Terminals \cup {"token", "end"})]
    /\ stop \in [Requests -> BOOLEAN]
    /\ verdict \in [Requests -> Terminals \cup {"none"}]
    /\ told \in [Requests -> Terminals \cup {"none"}]

TypedRest ==
    /\ call \in [Requests -> Call \cup {None}]
    /\ recalled \in [Requests -> SUBSET Requests]
    /\ gone \subseteq Requests
    /\ unrecorded \subseteq Requests
    /\ Store!TypeOK
    /\ crashes \in 0..MaxCrashes

Typed == TypedSessions /\ TypedStream /\ TypedRest

\* Where the two sides of a stream can stand at a time.
Sides(q) ==
    /\ handler[q] \in {"new", "refused", "accepted", "dead"} => producer[q] = "none"
    /\ handler[q] \in {"waiting", "told"} => producer[q] # "none"
    /\ producer[q] = "interrupted" => handler[q] = "ended"
    /\ stop[q] <=> handler[q] = "ended"
    /\ verdict[q] # "none" <=> producer[q] \in {"finalize", "post"}

\* Who has been told: every stream that ended, unless its client had left.
Telling(q) ==
    /\ told[q] # "none" => /\ handler[q] \in {"told", "ended"}
                           /\ producer[q] \in {"close", "over"}
                           /\ collected[q] = generated[q]
    /\ handler[q] = "told" => told[q] # "none"
    /\ handler[q] = "ended" => told[q] # "none" \/ q \in gone

\* The queue of a waiting handler: the tokens it has not relayed, the terminal
\* event once it was posted, and the end.
Outstanding(q) == generated[q] - collected[q]
Closing(q) ==
    IF producer[q] = "close" THEN 1 ELSE IF producer[q] = "over" THEN 2 ELSE 0

Queued(q) ==
    /\ collected[q] <= generated[q]
    /\ producer[q] = "none" => generated[q] = 0
    /\ handler[q] \notin {"waiting", "told"} => queue[q] = <<>>
    /\ handler[q] = "told" => \A i \in 1..Len(queue[q]) : queue[q][i] = "end"
    /\ handler[q] = "waiting" =>
          /\ Len(queue[q]) = Outstanding(q) + Closing(q)
          /\ \A i \in 1..Outstanding(q) : queue[q][i] = "token"
          /\ Closing(q) > 0 => queue[q][Outstanding(q) + 1] \in Terminals
          /\ Closing(q) = 2 => queue[q][Outstanding(q) + 2] = "end"

\* The run of q says what the event v says.
Says(q, v) ==
    /\ v = "eligible" => runs[q] # None /\ runs[q].eligible
    /\ v \in Terminals /\ call[q].tracked /\ q \notin unrecorded =>
          runs[q].terminal = IF v \in {"failed", "error"} THEN "error" ELSE "done"

Recording(q) ==
    /\ producer[q] = "post" => Says(q, verdict[q])
    /\ Says(q, told[q])
    /\ \A i \in 1..Len(queue[q]) : Says(q, queue[q][i])
    /\ producer[q] \in {"post", "close", "over"} /\ runs[q] # None
          /\ runs[q].terminal = "running" => q \in gone \cup unrecorded

\* A run is there only if its id was drawn for a request that is tracked.
Running(q) ==
    /\ handler[q] = "new" => q \notin issued
    /\ runs[q] # None => q \in issued
    /\ call[q] # None <=> handler[q] \in Live \cup {"ended"}
    /\ runs[q] # None /\ call[q] # None => call[q].tracked

Stream(q) == Sides(q) /\ Telling(q) /\ Queued(q) /\ Recording(q) /\ Running(q)

\* A session has one principal while the process lives, whatever is forgotten.
SessionInv ==
    /\ \A s \in Sessions : owner[s] # None => s \in drawn
    /\ \A q \in Requests : call[q] # None =>
          /\ call[q].session \in drawn
          /\ owner[call[q].session] \in {None, call[q].principal}
          /\ \A r \in recalled[q] : call[r] # None /\ call[r].session = call[q].session
    /\ \A q, r \in Requests :
          call[q] # None /\ call[r] # None /\ call[q].session = call[r].session =>
             call[q].principal = call[r].principal

\* A history is short, and a sequence of turns of streams that are over.
Whole(s, i) ==
    LET e == history[s][i]
    IN  /\ e.role = IF i % 2 = 1 THEN "user" ELSE "assistant"
        /\ e.role = "user" => history[s][i + 1].of = e.of
        /\ e.role = "assistant" => e.length = generated[e.of] /\ e.length > 0
        /\ call[e.of] # None /\ call[e.of].session = s
        /\ handler[e.of] = "ended"
        /\ told[e.of] \in DoneEvents

HistoryInv ==
    \A s \in Sessions :
        /\ Len(history[s]) <= MaxMessages /\ Len(history[s]) % 2 = 0
        /\ \A i \in 1..Len(history[s]) : Whole(s, i)

Streams == \A q \in Requests : Stream(q)

IInv == Typed /\ Streams /\ SessionInv /\ HistoryInv
-----------------------------------------------------------------------------
(***************************************************************************)
(* What a step of one request leaves alone.                                *)
(***************************************************************************)

Unmoved(r) ==
    /\ handler'[r] = handler[r] /\ producer'[r] = producer[r]
    /\ generated'[r] = generated[r] /\ collected'[r] = collected[r]
    /\ queue'[r] = queue[r] /\ stop'[r] = stop[r]
    /\ verdict'[r] = verdict[r] /\ told'[r] = told[r]
    /\ call'[r] = call[r] /\ runs'[r] = runs[r]
    /\ r \in gone' <=> r \in gone
    /\ r \in unrecorded' <=> r \in unrecorded
    /\ r \in issued' <=> r \in issued

\* A stream that is not touched keeps its part of the invariant.
LEMMA UnmovedStays ==
    ASSUME NEW r \in Requests, Stream(r), Unmoved(r)
    PROVE  Stream(r)'
<1>1. Sides(r)'
  BY DEF Stream, Unmoved, Sides
<1>2. Telling(r)'
  BY DEF Stream, Unmoved, Telling
<1>3. Queued(r)'
  BY DEF Stream, Unmoved, Queued, Outstanding, Closing, Terminals, DoneEvents
<1>4. Recording(r)'
  BY DEF Stream, Unmoved, Recording, Says, Terminals, DoneEvents
<1>5. Running(r)'
  BY DEF Stream, Unmoved, Running, Live
<1>6. QED
  BY <1>1, <1>2, <1>3, <1>4, <1>5 DEF Stream

\* What was told to a client that is gone for good stays told.
Settled(r) ==
    handler[r] = "ended" /\ told[r] # "none" =>
        /\ handler'[r] = "ended" /\ told'[r] = told[r]
        /\ generated'[r] = generated[r] /\ call'[r] = call[r]

\* Whatever histories are forgotten, the others are what they were.
LEMMA HistoriesStay ==
    ASSUME Typed, HistoryInv, \A r \in Requests : Settled(r),
           \A s \in Sessions : history'[s] \in {history[s], <<>>}
    PROVE  HistoryInv'
<1>1. SUFFICES ASSUME NEW s \in Sessions
               PROVE  /\ Len(history'[s]) <= MaxMessages /\ Len(history'[s]) % 2 = 0
                      /\ \A i \in 1..Len(history'[s]) : Whole(s, i)'
  BY DEF HistoryInv
<1>2. CASE history'[s] = <<>>
  BY <1>2
<1>3. CASE history'[s] = history[s]
  <2>1. ASSUME NEW i \in 1..Len(history[s])
        PROVE  Whole(s, i)'
    <3>1. Whole(s, i)
      BY DEF HistoryInv
    <3>2. history[s][i].of \in Requests
      <4>1. history[s] \in Seq(Entry)
        BY DEF Typed, TypedSessions
      <4>2. history[s][i] \in Entry
        BY <4>1
      <4>3. QED
        BY <4>2 DEF Entry
    <3>3. Settled(history[s][i].of) /\ told[history[s][i].of] # "none"
      BY <3>1, <3>2 DEF Whole, DoneEvents
    <3>4. QED
      BY <1>3, <3>1, <3>3 DEF Whole, Settled
  <2>2. QED
    BY <1>3, <2>1 DEF HistoryInv
<1>4. QED
  BY <1>2, <1>3

LEMMA SessionsStay ==
    ASSUME SessionInv, UNCHANGED <<owner, drawn, call, recalled>>
    PROVE  SessionInv'
  BY DEF SessionInv

\* A step of the stream q that touches no session.
LEMMA StreamStep ==
    ASSUME IInv, NEW q \in Requests, Typed', Stream(q)',
           UNCHANGED <<owner, drawn, history, call, recalled>>,
           \A r \in Requests \ {q} : Unmoved(r),
           Settled(q)
    PROVE  IInv'
<1>1. Streams'
  BY UnmovedStays DEF IInv, Streams
<1>2. \A r \in Requests : Settled(r)
  BY DEF Unmoved, Settled
<1>3. HistoryInv'
  BY <1>2, HistoriesStay DEF IInv
<1>4. SessionInv'
  BY SessionsStay DEF IInv
<1>5. QED
  BY <1>1, <1>3, <1>4 DEF IInv
-----------------------------------------------------------------------------
(***************************************************************************)
(* The producer thread.                                                    *)
(***************************************************************************)
Events == Terminals \cup {"token", "end"}

LEMMA TypedRestStays ==
    ASSUME TypedRest, UNCHANGED <<request, gone, unrecorded, store, crashes>>
    PROVE  TypedRest'
  BY DEF TypedRest, request, store, Store!TypeOK

LEMMA TypedSessionsStay ==
    ASSUME TypedSessions, UNCHANGED sessions
    PROVE  TypedSessions'
  BY DEF TypedSessions, sessions

\* emit appends to the queue of a waiting handler.
LEMMA Emitted ==
    ASSUME TypedStream, NEW q \in Requests, NEW event \in Events, Emit(q, event)
    PROVE  /\ queue' \in [Requests -> Seq(Events)]
           /\ \A r \in Requests \ {q} : queue'[r] = queue[r]
           /\ handler[q] # "waiting" => queue'[q] = queue[q]
           /\ handler[q] = "waiting" =>
                /\ Len(queue'[q]) = Len(queue[q]) + 1
                /\ \A i \in 1..Len(queue[q]) : queue'[q][i] = queue[q][i]
                /\ queue'[q][Len(queue[q]) + 1] = event
<1>1. queue \in [Requests -> Seq(Events)]
  BY DEF TypedStream, Events
<1>2. CASE handler[q] = "waiting"
  <2>1. queue' = [queue EXCEPT ![q] = Append(queue[q], event)]
    BY <1>2 DEF Emit
  <2>2. Append(queue[q], event) \in Seq(Events)
    BY <1>1
  <2>3. queue'[q] = Append(queue[q], event)
    BY <1>1, <2>1
  <2>4. QED
    BY <1>1, <1>2, <2>1, <2>2, <2>3
<1>3. CASE handler[q] # "waiting"
  BY <1>1, <1>3 DEF Emit
<1>4. QED
  BY <1>2, <1>3

LEMMA YieldTokenKeeps ==
    ASSUME IInv, NEW q \in Requests, YieldToken(q)
    PROVE  IInv'
<1> USE DEF YieldToken, ProducerGoes
<1>1. TypedStream /\ Stream(q)
  BY DEF IInv, Typed, Streams
<1>2. /\ queue' \in [Requests -> Seq(Events)]
      /\ \A r \in Requests \ {q} : queue'[r] = queue[r]
  BY <1>1, Emitted DEF TypedStream, Events
<1>3. Typed'
  <2>1. generated' \in [Requests -> 0..MaxTokens]
    BY <1>1 DEF TypedStream
  <2>2. producer' \in [Requests -> {"none", "generating", "interrupted", "finalize",
                                    "post", "close", "over"}]
    BY <1>1 DEF TypedStream
  <2>3. TypedStream'
    BY <1>1, <1>2, <2>1, <2>2 DEF TypedStream, Events
  <2>4. QED
    BY <2>3, TypedRestStays, TypedSessionsStay DEF IInv, Typed
<1>4. Stream(q)'
  <2>1. producer[q] = "generating" /\ handler[q] \in {"waiting", "ended"} /\ told[q] = "none"
    BY <1>1 DEF Stream, Sides, Telling, TypedStream, Live
  <2>2. generated'[q] = generated[q] + 1
    BY <1>1 DEF TypedStream
  <2>3. CASE stop[q]
    <3>1. producer'[q] = "interrupted" /\ handler[q] = "ended" /\ queue' = queue
      BY <1>1, <2>3 DEF TypedStream, Stream, Sides
    <3>2. QED
      BY <1>1, <2>1, <2>2, <3>1 DEF Stream, Sides, Telling, Queued, Outstanding, Closing,
         Recording, Says, Running, TypedStream, Terminals, DoneEvents, store, request
  <2>4. CASE ~stop[q]
    <3>1. producer'[q] = "generating" /\ handler[q] = "waiting" /\ Emit(q, "token")
      BY <1>1, <2>1, <2>4 DEF TypedStream, Stream, Sides
    <3>2. Sides(q)' /\ Telling(q)' /\ Running(q)'
      BY <1>1, <2>1, <3>1 DEF Stream, Sides, Telling, Running, store, request
    <3>3. /\ Len(queue'[q]) = Len(queue[q]) + 1
          /\ \A i \in 1..Len(queue[q]) : queue'[q][i] = queue[q][i]
          /\ queue'[q][Len(queue[q]) + 1] = "token"
      BY <1>1, <3>1, Emitted DEF Events
    <3>4. Queued(q)'
      <4>1. /\ Len(queue[q]) = Outstanding(q) /\ Outstanding(q) \in Nat
            /\ \A i \in 1..Outstanding(q) : queue[q][i] = "token"
            /\ collected[q] <= generated[q]
        BY <1>1, <2>1, <3>1 DEF Stream, Queued, Outstanding, Closing, TypedStream
      <4>2. Outstanding(q)' = Outstanding(q) + 1 /\ Closing(q)' = 0
        BY <1>1, <2>2, <3>1 DEF Outstanding, Closing, TypedStream
      <4>3. \A i \in 1..Outstanding(q)' : queue'[q][i] = "token"
        BY <3>3, <4>1, <4>2
      <4>4. collected'[q] <= generated'[q]
        BY <1>1, <2>2, <4>1 DEF TypedStream
      <4>5. Len(queue'[q]) = Outstanding(q)' + 0
        BY <3>3, <4>1, <4>2
      <4>6. QED
        BY <3>1, <4>2, <4>3, <4>4, <4>5 DEF Queued
    <3>5. Recording(q)'
      <4>1. \A i \in 1..Len(queue[q]) : Says(q, queue[q][i])
        BY <1>1 DEF Stream, Recording
      <4>2. \A v \in Events \cup {"none"} : Says(q, v)' <=> Says(q, v)
        BY DEF Says, store, request
      <4>3. Len(queue[q]) \in Nat /\ Says(q, "token")
        BY <1>1 DEF TypedStream, Says, Terminals, DoneEvents
      <4>4. \A i \in 1..Len(queue'[q]) : queue'[q][i] \in Events /\ Says(q, queue'[q][i])
        BY <1>2, <3>3, <4>1, <4>3
      <4>5. \A i \in 1..Len(queue[q])' : Says(q, queue[q][i])'
        BY <4>2, <4>4
      <4>6. told[q] \in Events \cup {"none"} /\ Says(q, told[q])
        BY <1>1 DEF TypedStream, Events, Stream, Recording
      <4>7. QED
        BY <1>1, <2>1, <3>1, <4>2, <4>5, <4>6 DEF Recording
    <3>6. QED
      BY <3>2, <3>4, <3>5 DEF Stream
  <2>5. QED
    BY <2>3, <2>4
<1>5. \A r \in Requests \ {q} : Unmoved(r)
  BY <1>1, <1>2 DEF TypedStream, Unmoved, request, store
<1>6. Settled(q)
  BY <1>1 DEF Stream, Telling, Settled
<1>7. QED
  BY <1>3, <1>4, <1>5, <1>6, StreamStep DEF sessions, request

\* A step of the producer that only moves on and may decide how the answer ended.
Decides(q, from, to) ==
    /\ producer[q] = from /\ producer' = [producer EXCEPT ![q] = to]
    /\ to \in {"interrupted", "finalize", "post", "close", "over"}
    /\ \E v \in Terminals \cup {"none"} : verdict' = [verdict EXCEPT ![q] = v]
    /\ UNCHANGED <<sessions, handler, generated, collected, queue, stop, told>>

LEMMA DecidesTyped ==
    ASSUME TypedStream, NEW q \in Requests, NEW from, NEW to, Decides(q, from, to)
    PROVE  TypedStream'
<1>1. producer' \in [Requests -> {"none", "generating", "interrupted", "finalize",
                                  "post", "close", "over"}]
  BY DEF TypedStream, Decides
<1>2. verdict' \in [Requests -> Terminals \cup {"none"}]
  BY DEF TypedStream, Decides
<1>3. QED
  BY <1>1, <1>2 DEF TypedStream, Decides

LEMMA EndAnswerKeeps ==
    ASSUME IInv, NEW q \in Requests, EndAnswer(q) \/ FailAnswer(q)
    PROVE  IInv'
<1>1. TypedStream /\ Stream(q)
  BY DEF IInv, Typed, Streams
<1>2. PICK to \in {"interrupted", "finalize", "close"} :
        /\ Decides(q, "generating", to)
        /\ to = "finalize" => ~stop[q] /\ verdict'[q] # "none"
        /\ to # "finalize" => stop[q] /\ verdict' = verdict
        /\ UNCHANGED <<request, gone, unrecorded, store, crashes>>
  <2>1. CASE stop[q]
    <3>1. verdict' = [verdict EXCEPT ![q] = verdict[q]] /\ verdict[q] \in Terminals \cup {"none"}
      BY <1>1, <2>1 DEF EndAnswer, FailAnswer, ProducerGoes, TypedStream
    <3>2. QED
      BY <2>1, <3>1 DEF EndAnswer, FailAnswer, ProducerGoes, Decides
  <2>2. CASE ~stop[q]
    <3>1. PICK v \in Terminals : verdict' = [verdict EXCEPT ![q] = v]
      BY <2>2 DEF EndAnswer, FailAnswer, Terminals, DoneEvents
    <3>2. verdict'[q] # "none"
      BY <1>1, <3>1 DEF TypedStream, Terminals, DoneEvents
    <3>3. QED
      BY <2>2, <3>1, <3>2 DEF EndAnswer, FailAnswer, ProducerGoes, Decides
  <2>3. QED
    BY <2>1, <2>2
<1>3. Typed'
  BY <1>1, <1>2, DecidesTyped, TypedRestStays, TypedSessionsStay DEF IInv, Typed, Decides
<1>4. producer[q] = "generating" /\ producer'[q] = to /\ told[q] = "none" /\ verdict[q] = "none"
  BY <1>1, <1>2 DEF Decides, Stream, Sides, Telling, TypedStream
<1>5. Stream(q)'
  <2>1. Sides(q)'
    BY <1>1, <1>2, <1>4 DEF Decides, Stream, Sides, TypedStream, Live
  <2>2. Telling(q)'
    BY <1>1, <1>2, <1>4 DEF Decides, Stream, Telling
  <2>3. Queued(q)'
    BY <1>1, <1>2, <1>4 DEF Decides, Stream, Sides, Queued, Outstanding, Closing, Terminals, DoneEvents
  <2>4. Recording(q)'
    <3>1. to = "close" => handler[q] = "ended" /\ q \in gone
      BY <1>1, <1>2, <1>4 DEF Stream, Sides, Telling
    <3>2. QED
      BY <1>1, <1>2, <1>4, <3>1 DEF Decides, Stream, Recording, Says, request, store
  <2>5. Running(q)'
    BY <1>1, <1>2 DEF Decides, Stream, Running, request, store
  <2>6. QED
    BY <2>1, <2>2, <2>3, <2>4, <2>5 DEF Stream
<1>6. \A r \in Requests \ {q} : Unmoved(r)
  BY <1>1, <1>2 DEF Decides, TypedStream, Unmoved, request, store
<1>7. Settled(q)
  BY <1>4 DEF Settled
<1>8. QED
  BY <1>2, <1>3, <1>5, <1>6, <1>7, StreamStep DEF Decides, sessions, request

\* The store writes the run of q, or it fails to.
Writes(q, terminal, eligible) ==
    \/ Recorded(q, terminal, eligible)
    \/ NotRecorded(q)

LEMMA WrittenTyped ==
    ASSUME Typed, NEW q \in Requests, NEW terminal \in {"done", "error", "interrupted"},
           NEW eligible \in BOOLEAN, Writes(q, terminal, eligible),
           UNCHANGED <<request, gone, crashes>>
    PROVE  /\ TypedRest'
           /\ \A r \in Requests \ {q} : runs'[r] = runs[r] /\ (r \in unrecorded' <=> r \in unrecorded)
           /\ issued' = issued
           /\ runs'[q] # None <=> runs[q] # None
           /\ Recorded(q, terminal, eligible) =>
                /\ runs[q] # None /\ runs'[q].terminal = terminal /\ runs'[q].eligible = eligible
                /\ unrecorded' = unrecorded
           /\ NotRecorded(q) => runs' = runs /\ (call[q].tracked => q \in unrecorded')
<1>1. runs \in [Requests -> Store!RunRow \cup {None}] /\ unrecorded \subseteq Requests
  BY DEF Typed, TypedRest, Store!TypeOK
<1>2. CASE Recorded(q, terminal, eligible)
  <2>1. /\ runs[q] # None /\ UNCHANGED <<feedback, issued, now, unrecorded>>
        /\ runs' = [runs EXCEPT ![q].terminal = terminal, ![q].eligible = eligible]
    BY <1>2 DEF Recorded, Store!FinalizeRun, Store!Finalizable, Store!Stored
  <2>2. runs[q] \in Store!RunRow
    BY <1>1, <2>1
  <2>3. PICK row : row = [[runs[q] EXCEPT !.terminal = terminal] EXCEPT !.eligible = eligible]
    OBVIOUS
  <2>4. row \in Store!RunRow /\ row.terminal = terminal /\ row.eligible = eligible
    BY <2>2, <2>3 DEF Store!RunRow
  <2>5. runs' = [runs EXCEPT ![q] = row]
    BY <1>1, <2>1, <2>3
  <2>6. runs'[q] = row /\ runs' \in [Requests -> Store!RunRow \cup {None}]
    BY <1>1, <2>4, <2>5
  <2>7. row # None
    BY <2>4, NoRecord
  <2>8. TypedRest'
    BY <2>1, <2>6 DEF Typed, TypedRest, Store!TypeOK, request
  <2>9. ~NotRecorded(q) \/ runs' = runs
    BY DEF NotRecorded, store
  <2>10. NotRecorded(q) => (call[q].tracked => q \in unrecorded')
    BY DEF NotRecorded
  <2>11. QED
    BY <1>1, <2>1, <2>4, <2>5, <2>6, <2>7, <2>8, <2>9, <2>10
<1>3. CASE NotRecorded(q) /\ ~Recorded(q, terminal, eligible)
  <2>1. unrecorded' \subseteq Requests /\ UNCHANGED store
    BY <1>1, <1>3 DEF NotRecorded
  <2>2. TypedRest'
    BY <2>1 DEF Typed, TypedRest, Store!TypeOK, request, store
  <2>3. QED
    BY <1>3, <2>1, <2>2 DEF NotRecorded, store
<1>4. QED
  BY <1>2, <1>3 DEF Writes

\* Before its producer has posted the end, nothing but tokens is on its way.
LEMMA OnlyTokens ==
    ASSUME TypedStream, NEW q \in Requests, Stream(q),
           producer[q] \in {"generating", "interrupted", "finalize", "post"}
    PROVE  /\ handler[q] \in {"waiting", "ended"} /\ told[q] = "none"
           /\ \A i \in 1..Len(queue[q]) : queue[q][i] = "token"
           /\ call[q] # None
<1>1. handler[q] \in {"waiting", "ended"} /\ told[q] = "none"
  BY DEF TypedStream, Live, Stream, Sides, Telling
<1>2. call[q] # None
  BY <1>1 DEF Stream, Running, Live
<1>3. CASE handler[q] = "waiting"
  <2>1. Closing(q) = 0 /\ Outstanding(q) \in Int
    BY DEF Closing, Outstanding, TypedStream
  <2>2. Len(queue[q]) = Outstanding(q) /\ \A i \in 1..Outstanding(q) : queue[q][i] = "token"
    BY <1>3, <2>1 DEF Stream, Queued
  <2>3. QED
    BY <1>1, <1>2, <2>2
<1>4. CASE handler[q] = "ended"
  <2>1. queue[q] = <<>>
    BY <1>4 DEF Stream, Queued
  <2>2. QED
    BY <1>1, <1>2, <2>1
<1>5. QED
  BY <1>1, <1>3, <1>4

\* When the producer writes the run and moves on to its last steps.
LEMMA WritingKeeps ==
    ASSUME IInv, NEW q \in Requests, NEW from \in {"finalize", "interrupted"},
           NEW to \in {"post", "close"}, Decides(q, from, to),
           NEW terminal \in {"done", "error", "interrupted"}, NEW eligible \in BOOLEAN,
           Writes(q, terminal, eligible),
           UNCHANGED <<request, gone, crashes>>,
           from = "finalize" <=> to = "post",
           to = "post" <=> verdict'[q] # "none",
           to = "post" => Says(q, verdict[q])'
    PROVE  IInv'
<1>1. TypedStream /\ TypedRest /\ Typed /\ Stream(q)
  BY DEF IInv, Typed, Streams
<1>2. Typed'
  BY <1>1, DecidesTyped, WrittenTyped, TypedSessionsStay DEF IInv, Typed, Decides
<1>3. producer'[q] = to /\ producer[q] = from
  BY <1>1 DEF Decides, TypedStream
<1>4. /\ handler[q] \in {"waiting", "ended"} /\ told[q] = "none" /\ call[q] # None
      /\ \A i \in 1..Len(queue[q]) : queue[q][i] = "token"
  BY <1>1, <1>3, OnlyTokens
<1>5. /\ issued' = issued /\ (runs'[q] # None <=> runs[q] # None)
      /\ \A r \in Requests \ {q} : runs'[r] = runs[r] /\ (r \in unrecorded' <=> r \in unrecorded)
  BY <1>1, WrittenTyped
<1>6. runs'[q] # None /\ runs'[q].terminal = "running" => q \in unrecorded'
  <2>1. CASE Recorded(q, terminal, eligible)
    BY <1>1, <2>1, WrittenTyped
  <2>2. CASE NotRecorded(q)
    <3>1. runs' = runs /\ (call[q].tracked => q \in unrecorded')
      BY <1>1, <2>2, WrittenTyped
    <3>2. QED
      BY <1>1, <1>4, <3>1 DEF Stream, Running
  <2>3. QED
    BY <2>1, <2>2 DEF Writes
<1>7. Stream(q)'
  <2>1. Sides(q)'
    BY <1>1, <1>3, <1>4 DEF Decides, Stream, Sides
  <2>2. Telling(q)'
    BY <1>1, <1>3, <1>4 DEF Decides, Stream, Telling
  <2>3. Queued(q)'
    <3>1. to = "close" => handler[q] = "ended"
      BY <1>1, <1>3 DEF Stream, Sides
    <3>2. QED
      BY <1>1, <1>3, <1>4, <3>1 DEF Decides, Stream, Queued, Outstanding, Closing, Terminals, DoneEvents
  <2>4. Recording(q)'
    <3>1. Says(q, "none")' /\ Says(q, "token")'
      BY DEF Says, Terminals, DoneEvents
    <3>2. QED
      BY <1>3, <1>4, <1>6, <3>1 DEF Decides, Recording
  <2>5. Running(q)'
    BY <1>1, <1>5 DEF Decides, Stream, Running, request
  <2>6. QED
    BY <2>1, <2>2, <2>3, <2>4, <2>5 DEF Stream
<1>8. \A r \in Requests \ {q} : Unmoved(r)
  BY <1>1, <1>5 DEF Decides, TypedStream, Unmoved, request
<1>9. Settled(q)
  BY <1>4 DEF Settled
<1>10. QED
  BY <1>2, <1>7, <1>8, <1>9, StreamStep DEF Decides, sessions, request

LEMMA FinalizeRunKeeps ==
    ASSUME IInv, NEW q \in Requests, FinalizeRun(q)
    PROVE  IInv'
<1> DEFINE terminal == IF verdict[q] \in {"failed", "error"} THEN "error" ELSE "done"
           eligible == verdict[q] = "eligible"
<1>1. TypedStream /\ Typed /\ Stream(q)
  BY DEF IInv, Typed, Streams
<1>2. producer[q] = "finalize" /\ producer' = [producer EXCEPT ![q] = "post"]
  BY DEF FinalizeRun, ProducerGoes
<1>3. verdict[q] \in Terminals
  BY <1>1, <1>2 DEF TypedStream, Stream, Sides
<1>4. terminal \in {"done", "error", "interrupted"} /\ eligible \in BOOLEAN
  OBVIOUS
<1>5. Writes(q, terminal, eligible)
  BY DEF FinalizeRun, Writes
<1>6. UNCHANGED <<sessions, handler, generated, collected, queue, stop, told,
                request, gone, crashes>>
  BY DEF FinalizeRun
<1>7. /\ \E v \in Terminals \cup {"none"} : verdict' = [verdict EXCEPT ![q] = v]
      /\ verdict'[q] \in Terminals /\ Says(q, verdict[q])'
  <2>1. CASE Recorded(q, terminal, eligible) /\ UNCHANGED verdict
    <3>1. verdict' = [verdict EXCEPT ![q] = verdict[q]]
      BY <1>1, <2>1 DEF TypedStream
    <3>2. /\ runs'[q] # None /\ runs[q] # None
          /\ runs'[q].terminal = terminal /\ runs'[q].eligible = eligible
      BY <1>1, <1>4, <1>5, <1>6, <2>1, WrittenTyped
    <3>3. Says(q, verdict[q])'
      BY <2>1, <3>2 DEF Says
    <3>4. QED
      BY <1>3, <2>1, <3>1, <3>3
  <2>2. CASE NotRecorded(q) /\ verdict' = [verdict EXCEPT ![q] = Offer(@)]
    <3>1. verdict'[q] = Offer(verdict[q]) /\ Offer(verdict[q]) \in {"done", "failed", "error"}
      BY <1>1, <1>3, <2>2 DEF TypedStream, Offer, Terminals, DoneEvents
    <3>2. call[q].tracked => q \in unrecorded'
      BY <2>2 DEF NotRecorded
    <3>3. Says(q, verdict[q])'
      BY <1>6, <3>1, <3>2 DEF Says, request
    <3>4. verdict' = [verdict EXCEPT ![q] = Offer(verdict[q])]
      BY <2>2
    <3>5. QED
      BY <3>1, <3>3, <3>4 DEF Terminals, DoneEvents
  <2>3. QED
    BY <2>1, <2>2 DEF FinalizeRun
<1>8. Decides(q, "finalize", "post")
  BY <1>2, <1>6, <1>7 DEF Decides
<1>9. verdict'[q] # "none"
  BY <1>7 DEF Terminals, DoneEvents
<1> HIDE DEF terminal, eligible
<1>10. QED
  BY <1>4, <1>5, <1>6, <1>7, <1>8, <1>9, WritingKeeps

LEMMA FinalizeInterruptedKeeps ==
    ASSUME IInv, NEW q \in Requests, FinalizeInterrupted(q)
    PROVE  IInv'
<1>1. TypedStream /\ Stream(q)
  BY DEF IInv, Typed, Streams
<1>2. /\ producer[q] = "interrupted" /\ producer' = [producer EXCEPT ![q] = "close"]
      /\ UNCHANGED <<sessions, handler, generated, collected, queue, stop, verdict, told,
                   request, gone, crashes>>
      /\ Writes(q, "interrupted", FALSE)
  BY DEF FinalizeInterrupted, ProducerGoes, Writes
<1>3. verdict[q] = "none" /\ verdict' = [verdict EXCEPT ![q] = "none"]
  BY <1>1, <1>2 DEF TypedStream, Stream, Sides
<1>4. Decides(q, "interrupted", "close")
  BY <1>2, <1>3 DEF Decides
<1>5. verdict'[q] = "none"
  BY <1>2, <1>3
<1>6. QED
  BY <1>2, <1>4, <1>5, WritingKeeps

\* What an event posted to the event loop leaves as it was.
Posts(q, event, from, to) ==
    /\ producer[q] = from /\ producer' = [producer EXCEPT ![q] = to]
    /\ Emit(q, event)
    /\ UNCHANGED <<sessions, handler, generated, collected, stop, told, request, gone,
                   unrecorded, store, crashes>>

LEMMA PostTerminalKeeps ==
    ASSUME IInv, NEW q \in Requests, PostTerminal(q)
    PROVE  IInv'
<1> DEFINE v == verdict[q]
<1>1. TypedStream /\ Stream(q)
  BY DEF IInv, Typed, Streams
<1>2. /\ Posts(q, v, "post", "close")
      /\ verdict' = [verdict EXCEPT ![q] = "none"]
  BY DEF PostTerminal, Posts, ProducerGoes
<1>3. v \in Terminals /\ v \in Events /\ Says(q, v)
  BY <1>1, <1>2 DEF Posts, TypedStream, Stream, Sides, Recording, Events
<1> HIDE DEF v
<1>4. /\ queue' \in [Requests -> Seq(Events)]
      /\ \A r \in Requests \ {q} : queue'[r] = queue[r]
      /\ handler[q] # "waiting" => queue'[q] = queue[q]
      /\ handler[q] = "waiting" =>
           /\ Len(queue'[q]) = Len(queue[q]) + 1
           /\ \A i \in 1..Len(queue[q]) : queue'[q][i] = queue[q][i]
           /\ queue'[q][Len(queue[q]) + 1] = v
  BY <1>1, <1>2, <1>3, Emitted DEF Posts
<1>5. producer'[q] = "close" /\ producer[q] = "post" /\ verdict'[q] = "none"
  BY <1>1, <1>2 DEF Posts, TypedStream
<1>6. /\ handler[q] \in {"waiting", "ended"} /\ told[q] = "none" /\ call[q] # None
      /\ \A i \in 1..Len(queue[q]) : queue[q][i] = "token"
  BY <1>1, <1>5, OnlyTokens
<1>7. Typed'
  <2>1. producer' \in [Requests -> {"none", "generating", "interrupted", "finalize",
                                    "post", "close", "over"}]
    BY <1>1, <1>2 DEF Posts, TypedStream
  <2>2. TypedStream'
    BY <1>1, <1>2, <1>4, <2>1 DEF Posts, TypedStream, Events
  <2>3. QED
    BY <1>2, <2>2, TypedRestStays, TypedSessionsStay DEF IInv, Typed, Posts
<1>8. Stream(q)'
  <2>1. Sides(q)'
    BY <1>1, <1>2, <1>5, <1>6 DEF Posts, Stream, Sides
  <2>2. Telling(q)'
    BY <1>1, <1>2, <1>5, <1>6 DEF Posts, Stream, Telling
  <2>3. Queued(q)'
    <3>1. CASE handler[q] = "ended"
      BY <1>1, <1>2, <1>4, <1>5, <3>1 DEF Posts, Stream, Queued
    <3>2. CASE handler[q] = "waiting"
      <4>1. /\ Outstanding(q) \in Nat /\ Len(queue[q]) = Outstanding(q)
            /\ \A i \in 1..Outstanding(q) : queue[q][i] = "token"
            /\ collected[q] <= generated[q]
        BY <1>1, <1>5, <3>2 DEF Stream, Queued, Closing, Outstanding, TypedStream
      <4>2. Outstanding(q)' = Outstanding(q) /\ Closing(q)' = 1
        BY <1>2, <1>5 DEF Posts, Outstanding, Closing
      <4>3. handler'[q] = "waiting" /\ collected'[q] <= generated'[q] /\ producer'[q] # "none"
        BY <1>2, <1>5, <3>2, <4>1 DEF Posts
      <4>4. QED
        BY <1>3, <1>4, <3>2, <4>1, <4>2, <4>3 DEF Queued
    <3>3. QED
      BY <1>6, <3>1, <3>2
  <2>4. Recording(q)'
    <3>1. \A e \in Events \cup {"none"} : Says(q, e)' <=> Says(q, e)
      BY <1>2 DEF Posts, Says, store, request
    <3>2. Says(q, "token") /\ Says(q, "none") /\ Len(queue[q]) \in Nat
      BY <1>1 DEF Says, Terminals, DoneEvents, TypedStream
    <3>3. \A i \in 1..Len(queue'[q]) : queue'[q][i] \in Events /\ Says(q, queue'[q][i])
      BY <1>3, <1>4, <1>6, <3>2 DEF Events
    <3>4. \A i \in 1..Len(queue[q])' : Says(q, queue[q][i])'
      BY <3>1, <3>3
    <3>5. told'[q] = "none" /\ Says(q, "none")'
      BY <1>2, <1>6, <3>1, <3>2 DEF Posts
    <3>6. QED
      BY <1>1, <1>2, <1>5, <3>4, <3>5 DEF Posts, Stream, Recording, store
  <2>5. Running(q)'
    BY <1>1, <1>2 DEF Posts, Stream, Running, request, store
  <2>6. QED
    BY <2>1, <2>2, <2>3, <2>4, <2>5 DEF Stream
<1>9. \A r \in Requests \ {q} : Unmoved(r)
  BY <1>1, <1>2, <1>4 DEF Posts, TypedStream, Unmoved, request, store
<1>10. Settled(q)
  BY <1>6 DEF Settled
<1>11. QED
  BY <1>2, <1>7, <1>8, <1>9, <1>10, StreamStep DEF Posts, sessions, request

LEMMA CloseAnswerKeeps ==
    ASSUME IInv, NEW q \in Requests, CloseAnswer(q)
    PROVE  IInv'
<1>1. TypedStream /\ Stream(q)
  BY DEF IInv, Typed, Streams
<1>2. Posts(q, "end", "close", "over") /\ verdict' = verdict
  BY DEF CloseAnswer, Posts, ProducerGoes
<1>3. /\ queue' \in [Requests -> Seq(Events)]
      /\ \A r \in Requests \ {q} : queue'[r] = queue[r]
      /\ handler[q] # "waiting" => queue'[q] = queue[q]
      /\ handler[q] = "waiting" =>
           /\ Len(queue'[q]) = Len(queue[q]) + 1
           /\ \A i \in 1..Len(queue[q]) : queue'[q][i] = queue[q][i]
           /\ queue'[q][Len(queue[q]) + 1] = "end"
  BY <1>1, <1>2, Emitted DEF Posts, Events
<1>4. producer'[q] = "over" /\ producer[q] = "close"
  BY <1>1, <1>2 DEF Posts, TypedStream
<1>5. handler[q] \in {"waiting", "told", "ended"}
  BY <1>1, <1>4 DEF TypedStream, Live, Stream, Sides
<1>6. Typed'
  <2>1. producer' \in [Requests -> {"none", "generating", "interrupted", "finalize",
                                    "post", "close", "over"}]
    BY <1>1, <1>2 DEF Posts, TypedStream
  <2>2. TypedStream'
    BY <1>1, <1>2, <1>3, <2>1 DEF Posts, TypedStream, Events
  <2>3. QED
    BY <1>2, <2>2, TypedRestStays, TypedSessionsStay DEF IInv, Typed, Posts
<1>7. Stream(q)'
  <2>1. Sides(q)'
    BY <1>1, <1>2, <1>4, <1>5 DEF Posts, Stream, Sides
  <2>2. Telling(q)'
    BY <1>1, <1>2, <1>4, <1>5 DEF Posts, Stream, Telling
  <2>3. Queued(q)'
    <3>1. CASE handler[q] \in {"told", "ended"}
      BY <1>1, <1>2, <1>3, <1>4, <3>1 DEF Posts, Stream, Queued
    <3>2. CASE handler[q] = "waiting"
      <4>1. /\ Outstanding(q) \in Nat /\ Len(queue[q]) = Outstanding(q) + 1
            /\ \A i \in 1..Outstanding(q) : queue[q][i] = "token"
            /\ queue[q][Outstanding(q) + 1] \in Terminals
            /\ collected[q] <= generated[q]
        BY <1>1, <1>4, <3>2 DEF Stream, Queued, Closing, Outstanding, TypedStream
      <4>2. Outstanding(q)' = Outstanding(q) /\ Closing(q)' = 2
        BY <1>2, <1>4 DEF Posts, Outstanding, Closing
      <4>3. handler'[q] = "waiting" /\ collected'[q] <= generated'[q] /\ producer'[q] # "none"
        BY <1>2, <1>4, <3>2, <4>1 DEF Posts
      <4>4. Len(queue'[q]) = Outstanding(q)' + 2
        BY <1>3, <3>2, <4>1, <4>2
      <4>5. \A i \in 1..Outstanding(q)' : queue'[q][i] = "token"
        BY <1>3, <3>2, <4>1, <4>2
      <4>6. queue'[q][Outstanding(q)' + 1] \in Terminals
        BY <1>3, <3>2, <4>1, <4>2
      <4>7. queue'[q][Outstanding(q)' + 2] = "end"
        BY <1>3, <3>2, <4>1, <4>2
      <4>8. QED
        BY <4>2, <4>3, <4>4, <4>5, <4>6, <4>7 DEF Queued
    <3>3. QED
      BY <1>5, <3>1, <3>2
  <2>4. Recording(q)'
    <3>1. \A e \in Events \cup {"none"} : Says(q, e)' <=> Says(q, e)
      BY <1>2 DEF Posts, Says, store, request
    <3>2. Says(q, "end") /\ Len(queue[q]) \in Nat
      BY <1>1 DEF Says, Terminals, DoneEvents, TypedStream
    <3>3. \A i \in 1..Len(queue[q]) : queue[q][i] \in Events /\ Says(q, queue[q][i])
      BY <1>1 DEF TypedStream, Events, Stream, Recording
    <3>4. \A i \in 1..Len(queue'[q]) : queue'[q][i] \in Events /\ Says(q, queue'[q][i])
      BY <1>3, <3>2, <3>3 DEF Events
    <3>5. \A i \in 1..Len(queue[q])' : Says(q, queue[q][i])'
      BY <3>1, <3>4
    <3>6. told'[q] \in Events \cup {"none"} /\ Says(q, told'[q])
      BY <1>1, <1>2 DEF Posts, TypedStream, Events, Stream, Recording
    <3>7. Says(q, told[q])'
      BY <3>1, <3>6
    <3>8. QED
      BY <1>1, <1>2, <1>4, <3>5, <3>7 DEF Posts, Stream, Recording, store
  <2>5. Running(q)'
    BY <1>1, <1>2 DEF Posts, Stream, Running, request, store
  <2>6. QED
    BY <2>1, <2>2, <2>3, <2>4, <2>5 DEF Stream
<1>8. \A r \in Requests \ {q} : Unmoved(r)
  BY <1>1, <1>2, <1>3 DEF Posts, TypedStream, Unmoved, request, store
<1>9. Settled(q)
  BY <1>2 DEF Posts, Settled, request
<1>10. QED
  BY <1>2, <1>6, <1>7, <1>8, <1>9, StreamStep DEF Posts, sessions, request
-----------------------------------------------------------------------------
(***************************************************************************)
(* The response generator, and its client.                                 *)
(***************************************************************************)

LEMMA StartStreamKeeps ==
    ASSUME IInv, NEW q \in Requests, StartStream(q)
    PROVE  IInv'
<1> USE DEF StartStream
<1>1. TypedStream /\ Stream(q)
  BY DEF IInv, Typed, Streams
<1>2. Typed'
  <2>1. handler' \in [Requests -> Live \cup {"new", "refused", "ended", "dead"}]
    BY <1>1 DEF TypedStream, Live
  <2>2. producer' \in [Requests -> {"none", "generating", "interrupted", "finalize",
                                    "post", "close", "over"}]
    BY <1>1 DEF TypedStream
  <2>3. TypedStream'
    BY <1>1, <2>1, <2>2 DEF TypedStream
  <2>4. QED
    BY <2>3, TypedRestStays, TypedSessionsStay DEF IInv, Typed
<1>3. handler'[q] = "waiting" /\ producer'[q] = "generating"
  BY <1>1 DEF TypedStream
<1>4. /\ producer[q] = "none" /\ told[q] = "none" /\ verdict[q] = "none" /\ queue[q] = <<>>
      /\ generated[q] = 0 /\ collected[q] = 0 /\ call[q] # None
  BY <1>1 DEF TypedStream, Stream, Sides, Telling, Queued, Running, Live
<1>5. Stream(q)'
  <2>1. Sides(q)' /\ Telling(q)'
    BY <1>1, <1>3, <1>4 DEF Stream, Sides, Telling
  <2>2. Queued(q)'
    BY <1>3, <1>4 DEF Queued, Outstanding, Closing
  <2>3. Recording(q)'
    BY <1>3, <1>4 DEF Recording, Says, Terminals, DoneEvents
  <2>4. Running(q)'
    BY <1>1, <1>3, <1>4 DEF Stream, Running, Live, request, store
  <2>5. QED
    BY <2>1, <2>2, <2>3, <2>4 DEF Stream
<1>6. \A r \in Requests \ {q} : Unmoved(r)
  BY <1>1 DEF TypedStream, Unmoved, request, store
<1>7. Settled(q)
  BY <1>4 DEF Settled
<1>8. QED
  BY <1>2, <1>5, <1>6, <1>7, StreamStep DEF sessions, request

\* The handler takes the first event off its queue.
LEMMA Taken ==
    ASSUME TypedStream, NEW q \in Requests, queue[q] # <<>>,
           queue' = [queue EXCEPT ![q] = Tail(@)]
    PROVE  /\ queue' \in [Requests -> Seq(Events)]
           /\ \A r \in Requests \ {q} : queue'[r] = queue[r]
           /\ Len(queue[q]) \in Nat \ {0} /\ Len(queue'[q]) = Len(queue[q]) - 1
           /\ \A i \in 1..Len(queue'[q]) : queue'[q][i] = queue[q][i + 1]
           /\ Head(queue[q]) = queue[q][1] /\ queue[q][1] \in Events
<1>1. queue \in [Requests -> Seq(Events)]
  BY DEF TypedStream, Events
<1>2. queue[q] \in Seq(Events)
  BY <1>1
<1>3. queue'[q] = Tail(queue[q]) /\ \A r \in Requests \ {q} : queue'[r] = queue[r]
  BY <1>1
<1>4. Tail(queue[q]) \in Seq(Events)
  BY <1>2
<1>5. QED
  BY <1>1, <1>2, <1>3, <1>4

LEMMA RelayTokenKeeps ==
    ASSUME IInv, NEW q \in Requests, RelayToken(q)
    PROVE  IInv'
<1> USE DEF RelayToken
<1>1. TypedStream /\ Stream(q)
  BY DEF IInv, Typed, Streams
<1>2. /\ queue' \in [Requests -> Seq(Events)]
      /\ \A r \in Requests \ {q} : queue'[r] = queue[r]
      /\ Len(queue[q]) \in Nat \ {0} /\ Len(queue'[q]) = Len(queue[q]) - 1
      /\ \A i \in 1..Len(queue'[q]) : queue'[q][i] = queue[q][i + 1]
      /\ queue[q][1] = "token"
  BY <1>1, Taken
<1>3. /\ Outstanding(q) \in Nat /\ Len(queue[q]) = Outstanding(q) + Closing(q)
      /\ \A i \in 1..Outstanding(q) : queue[q][i] = "token"
      /\ Closing(q) > 0 => queue[q][Outstanding(q) + 1] \in Terminals
      /\ Closing(q) = 2 => queue[q][Outstanding(q) + 2] = "end"
      /\ Closing(q) \in {0, 1, 2}
      /\ collected[q] <= generated[q]
  BY <1>1 DEF Stream, Queued, Closing, Outstanding, TypedStream
<1>4. Outstanding(q) > 0
  <2>1. CASE Closing(q) = 0
    BY <1>2, <1>3, <2>1
  <2>2. CASE Closing(q) > 0
    <3>1. queue[q][Outstanding(q) + 1] # "token"
      BY <1>3, <2>2 DEF Terminals, DoneEvents
    <3>2. QED
      BY <1>2, <1>3, <3>1
  <2>3. QED
    BY <1>3, <2>1, <2>2
<1>5. collected'[q] = collected[q] + 1 /\ collected[q] < generated[q]
  BY <1>1, <1>3, <1>4 DEF TypedStream, Outstanding
<1>6. Typed'
  <2>1. collected' \in [Requests -> 0..MaxTokens]
    BY <1>1, <1>5 DEF TypedStream
  <2>2. TypedStream'
    BY <1>1, <1>2, <2>1 DEF TypedStream, Events
  <2>3. QED
    BY <2>2, TypedRestStays, TypedSessionsStay DEF IInv, Typed
<1>7. told[q] = "none"
  BY <1>1 DEF Stream, Telling
<1>8. Stream(q)'
  <2>1. Sides(q)' /\ Telling(q)' /\ Running(q)'
    BY <1>1, <1>7 DEF Stream, Sides, Telling, Running, store, request
  <2>2. Queued(q)'
    <3>1. Outstanding(q)' = Outstanding(q) - 1 /\ Closing(q)' = Closing(q)
      BY <1>1, <1>5 DEF Outstanding, Closing, TypedStream
    <3>2. collected'[q] <= generated'[q] /\ handler'[q] = "waiting" /\ producer'[q] # "none"
      BY <1>1, <1>5 DEF TypedStream, Stream, Sides
    <3>3. Len(queue'[q]) = Outstanding(q)' + Closing(q)'
      BY <1>2, <1>3, <3>1
    <3>4. \A i \in 1..Outstanding(q)' : queue'[q][i] = "token"
      BY <1>2, <1>3, <1>4, <3>1
    <3>5. /\ Closing(q)' > 0 => queue'[q][Outstanding(q)' + 1] \in Terminals
          /\ Closing(q)' = 2 => queue'[q][Outstanding(q)' + 2] = "end"
      BY <1>2, <1>3, <1>4, <3>1
    <3>6. QED
      BY <3>2, <3>3, <3>4, <3>5 DEF Queued
  <2>3. Recording(q)'
    <3>1. \A e \in Events \cup {"none"} : Says(q, e)' <=> Says(q, e)
      BY DEF Says, store, request
    <3>2. \A i \in 1..Len(queue[q]) : Says(q, queue[q][i]) /\ queue[q][i] \in Events
      BY <1>1 DEF Stream, Recording, TypedStream, Events
    <3>3. \A i \in 1..Len(queue'[q]) : Says(q, queue'[q][i]) /\ queue'[q][i] \in Events
      BY <1>2, <3>2
    <3>4. \A i \in 1..Len(queue[q])' : Says(q, queue[q][i])'
      BY <3>1, <3>3
    <3>5. Says(q, told[q])' /\ (producer[q] = "post" => Says(q, verdict[q])')
      BY <1>1 DEF Stream, Recording, Says, store, request
    <3>6. QED
      BY <1>1, <3>4, <3>5 DEF Stream, Recording, store
  <2>4. QED
    BY <2>1, <2>2, <2>3 DEF Stream
<1>9. \A r \in Requests \ {q} : Unmoved(r)
  BY <1>1, <1>2 DEF TypedStream, Unmoved, request, store
<1>10. Settled(q)
  BY <1>7 DEF Settled
<1>11. QED
  BY <1>6, <1>8, <1>9, <1>10, StreamStep DEF sessions, request

LEMMA RelayTerminalKeeps ==
    ASSUME IInv, NEW q \in Requests, RelayTerminal(q)
    PROVE  IInv'
<1> USE DEF RelayTerminal
<1>1. TypedStream /\ Stream(q)
  BY DEF IInv, Typed, Streams
<1>2. /\ queue' \in [Requests -> Seq(Events)]
      /\ \A r \in Requests \ {q} : queue'[r] = queue[r]
      /\ Len(queue[q]) \in Nat \ {0} /\ Len(queue'[q]) = Len(queue[q]) - 1
      /\ \A i \in 1..Len(queue'[q]) : queue'[q][i] = queue[q][i + 1]
      /\ queue[q][1] \in Terminals
  BY <1>1, Taken
<1>3. handler'[q] = "told" /\ told'[q] = queue[q][1]
  <2>1. Head(queue[q]) = queue[q][1]
    BY <1>1, Taken
  <2>2. QED
    BY <1>1, <2>1 DEF TypedStream
<1>4. /\ Outstanding(q) \in Nat /\ Len(queue[q]) = Outstanding(q) + Closing(q)
      /\ \A i \in 1..Outstanding(q) : queue[q][i] = "token"
      /\ Closing(q) = 2 => queue[q][Outstanding(q) + 2] = "end"
      /\ Closing(q) \in {0, 1, 2}
      /\ collected[q] <= generated[q]
  BY <1>1 DEF Stream, Queued, Closing, Outstanding, TypedStream
\* A terminal event comes after every token.
<1>5. Outstanding(q) = 0
  <2>1. queue[q][1] # "token"
    BY <1>2 DEF Terminals, DoneEvents
  <2>2. QED
    BY <1>4, <2>1
<1>6. collected[q] = generated[q] /\ producer[q] \in {"close", "over"}
  <2>1. Closing(q) > 0
    BY <1>2, <1>4, <1>5
  <2>2. QED
    BY <1>1, <1>5, <2>1 DEF Outstanding, Closing, TypedStream
<1>7. \A i \in 1..Len(queue'[q]) : queue'[q][i] = "end"
  <2>1. ASSUME NEW i \in 1..Len(queue'[q])
        PROVE  queue'[q][i] = "end"
    <3>1. i = 1 /\ Closing(q) = 2
      BY <1>2, <1>4, <1>5
    <3>2. queue[q][2] = "end"
      BY <1>4, <1>5, <3>1
    <3>3. QED
      BY <1>2, <3>1, <3>2
  <2>2. QED
    BY <2>1
<1>8. Typed'
  <2>1. handler' \in [Requests -> Live \cup {"new", "refused", "ended", "dead"}]
    BY <1>1 DEF TypedStream, Live
  <2>2. told' \in [Requests -> Terminals \cup {"none"}]
    <3>1. told' = [told EXCEPT ![q] = queue[q][1]]
      BY <1>1, Taken
    <3>2. QED
      BY <1>1, <1>2, <3>1 DEF TypedStream
  <2>3. TypedStream'
    BY <1>1, <1>2, <2>1, <2>2 DEF TypedStream, Events
  <2>4. QED
    BY <2>3, TypedRestStays, TypedSessionsStay DEF IInv, Typed
<1>9. Stream(q)'
  <2>1. Sides(q)'
    BY <1>1, <1>3 DEF Stream, Sides
  <2>2. Telling(q)'
    BY <1>2, <1>3, <1>6 DEF Telling, Terminals, DoneEvents
  <2>3. Queued(q)'
    BY <1>3, <1>4, <1>6, <1>7 DEF Queued
  <2>4. Recording(q)'
    <3>1. \A e \in Events \cup {"none"} : Says(q, e)' <=> Says(q, e)
      BY DEF Says, store, request
    <3>2. \A i \in 1..Len(queue[q]) : Says(q, queue[q][i]) /\ queue[q][i] \in Events
      BY <1>1 DEF Stream, Recording, TypedStream, Events
    <3>3. \A i \in 1..Len(queue'[q]) : Says(q, queue'[q][i]) /\ queue'[q][i] \in Events
      BY <1>2, <3>2
    <3>4. \A i \in 1..Len(queue[q])' : Says(q, queue[q][i])'
      BY <3>1, <3>3
    <3>5. Says(q, told'[q]) /\ told'[q] \in Events
      BY <1>2, <1>3, <3>2
    <3>6. Says(q, told[q])'
      BY <3>1, <3>5
    <3>7. QED
      BY <1>1, <1>6, <3>4, <3>6 DEF Stream, Recording, store
  <2>5. Running(q)'
    BY <1>1, <1>3 DEF Stream, Running, Live, store, request
  <2>6. QED
    BY <2>1, <2>2, <2>3, <2>4, <2>5 DEF Stream
<1>10. \A r \in Requests \ {q} : Unmoved(r)
  BY <1>1, <1>2 DEF TypedStream, Unmoved, request, store
<1>11. Settled(q)
  BY DEF Settled
<1>12. QED
  BY <1>8, <1>9, <1>10, <1>11, StreamStep DEF sessions, request

\* A stream that ends leaves no queue behind.
Ends(q) ==
    /\ handler' = [handler EXCEPT ![q] = "ended"]
    /\ stop' = [stop EXCEPT ![q] = TRUE]
    /\ queue' = [queue EXCEPT ![q] = <<>>]
    /\ UNCHANGED <<owner, drawn, producer, generated, collected, verdict, told,
                   request, gone, unrecorded, store, crashes>>

LEMMA EndsTyped ==
    ASSUME TypedStream, TypedRest, NEW q \in Requests, Ends(q)
    PROVE  TypedStream' /\ TypedRest'
<1> USE DEF Ends
<1>1. handler' \in [Requests -> Live \cup {"new", "refused", "ended", "dead"}]
  BY DEF TypedStream, Live
<1>2. stop' \in [Requests -> BOOLEAN]
  BY DEF TypedStream
<1>3. queue' \in [Requests -> Seq(Terminals \cup {"token", "end"})]
  BY DEF TypedStream
<1>4. QED
  BY <1>1, <1>2, <1>3, TypedRestStays DEF TypedStream

LEMMA EndsKeeps ==
    ASSUME IInv, NEW q \in Requests, Ends(q), handler[q] \in Live,
           q \in gone \/ handler[q] = "told"
    PROVE  /\ Stream(q)'
           /\ \A r \in Requests \ {q} : Unmoved(r)
           /\ Settled(q)
           /\ handler'[q] = "ended"
<1> USE DEF Ends
<1>1. TypedStream /\ Stream(q)
  BY DEF IInv, Typed, Streams
<1>2. handler'[q] = "ended" /\ stop'[q] = TRUE /\ queue'[q] = <<>>
  BY <1>1 DEF TypedStream
<1>3. Sides(q)' /\ Telling(q)'
  BY <1>1, <1>2 DEF Stream, Sides, Telling, Live
<1>4. Queued(q)'
  BY <1>1, <1>2 DEF Stream, Queued
<1>5. Recording(q)'
  BY <1>1, <1>2 DEF Stream, Recording, Says, store, request
<1>6. Running(q)'
  BY <1>1, <1>2 DEF Stream, Running, Live, store, request
<1>7. \A r \in Requests \ {q} : Unmoved(r)
  BY <1>1 DEF TypedStream, Unmoved, store, request
<1>8. QED
  BY <1>2, <1>3, <1>4, <1>5, <1>6, <1>7 DEF Stream, Settled, Live

LEMMA DropStreamKeeps ==
    ASSUME IInv, NEW q \in Requests, DropStream(q)
    PROVE  IInv'
<1>1. Ends(q) /\ handler[q] \in Live /\ q \in gone /\ UNCHANGED sessions
  BY DEF DropStream, Ends, sessions
<1>2. Typed'
  BY <1>1, EndsTyped, TypedSessionsStay DEF IInv, Typed
<1>3. Stream(q)' /\ (\A r \in Requests \ {q} : Unmoved(r)) /\ Settled(q)
  BY <1>1, EndsKeeps
<1>4. QED
  BY <1>1, <1>2, <1>3, StreamStep DEF sessions, request, Ends

\* Two messages in a row: what is trimmed is whole turns.
LEMMA Turns ==
    ASSUME NEW h \in Seq(Entry), NEW question \in Entry, NEW answer \in Entry,
           Len(h) <= MaxMessages, Len(h) % 2 = 0
    PROVE  LET new == Trim(Append(Trim(Append(h, question)), answer))
           IN  /\ new \in Seq(Entry)
               /\ Len(new) <= MaxMessages
               /\ \E d \in {0, 2} :
                     /\ Len(new) = Len(h) + 2 - d
                     /\ \A i \in 1..Len(new) :
                           new[i] = IF i + d <= Len(h) THEN h[i + d]
                                    ELSE IF i + d = Len(h) + 1 THEN question ELSE answer
<1> DEFINE one == Append(h, question)
           two == Append(Trim(one), answer)
<1>1. /\ one \in Seq(Entry) /\ Len(one) = Len(h) + 1 /\ Len(h) \in Nat
      /\ \A i \in 1..Len(h) : one[i] = h[i]
      /\ one[Len(h) + 1] = question
  OBVIOUS
<1> HIDE DEF one
<1>2. CASE Len(h) < MaxMessages
  <2>1. Len(h) + 2 <= MaxMessages
    BY <1>1, <1>2
  <2>2. Trim(one) = one
    BY <1>1, <2>1 DEF Trim
  <2>3. /\ two \in Seq(Entry) /\ Len(two) = Len(h) + 2
        /\ \A i \in 1..Len(h) + 1 : two[i] = one[i]
        /\ two[Len(h) + 2] = answer
    BY <1>1, <2>2
  <2> HIDE DEF two
  <2>4. Trim(two) = two
    BY <2>1, <2>3 DEF Trim
  <2>5. \A i \in 1..Len(two) :
           two[i] = IF i + 0 <= Len(h) THEN h[i + 0]
                    ELSE IF i + 0 = Len(h) + 1 THEN question ELSE answer
    BY <1>1, <2>3
  <2>6. Len(two) = Len(h) + 2 - 0
    BY <1>1, <2>3
  <2>7. QED
    BY <2>1, <2>3, <2>4, <2>5, <2>6 DEF two, one
<1>3. CASE Len(h) = MaxMessages
  <2>1. Trim(one) = SubSeq(one, 2, Len(h) + 1)
    BY <1>1, <1>3 DEF Trim
  <2>2. /\ Trim(one) \in Seq(Entry) /\ Len(Trim(one)) = Len(h)
        /\ \A i \in 1..Len(h) : Trim(one)[i] = one[i + 1]
    BY <1>1, <2>1
  <2>3. /\ two \in Seq(Entry) /\ Len(two) = Len(h) + 1
        /\ \A i \in 1..Len(h) : two[i] = one[i + 1]
        /\ two[Len(h) + 1] = answer
    BY <1>1, <2>2
  <2> HIDE DEF two
  <2>4. Trim(two) = SubSeq(two, 2, Len(h) + 1)
    BY <1>1, <1>3, <2>3 DEF Trim
  <2>5. /\ Trim(two) \in Seq(Entry) /\ Len(Trim(two)) = Len(h)
        /\ \A i \in 1..Len(h) : Trim(two)[i] = two[i + 1]
    BY <1>1, <2>3, <2>4
  <2>6. \A i \in 1..Len(Trim(two)) :
           Trim(two)[i] = IF i + 2 <= Len(h) THEN h[i + 2]
                          ELSE IF i + 2 = Len(h) + 1 THEN question ELSE answer
    <3>1. ASSUME NEW i \in 1..Len(h)
          PROVE  Trim(two)[i] = IF i + 2 <= Len(h) THEN h[i + 2]
                                ELSE IF i + 2 = Len(h) + 1 THEN question ELSE answer
      <4>1. CASE i = Len(h)
        BY <1>1, <2>3, <2>5, <4>1
      <4>2. CASE i < Len(h)
        <5>1. i + 1 \in 1..Len(h) /\ i \in 1..Len(h)
          BY <1>1, <4>2
        <5>2. Trim(two)[i] = one[(i + 1) + 1]
          BY <2>3, <2>5, <5>1
        <5>3. one[i + 2] = IF i + 2 <= Len(h) THEN h[i + 2] ELSE question
          BY <1>1, <4>2
        <5>4. QED
          BY <1>1, <4>2, <5>2, <5>3
      <4>3. QED
        BY <1>1, <4>1, <4>2
    <3>2. QED
      BY <2>5, <3>1
  <2>7. Len(Trim(two)) = Len(h) + 2 - 2
    BY <1>1, <2>5
  <2>8. QED
    BY <1>3, <2>5, <2>6, <2>7 DEF two, one
<1>4. QED
  BY <1>1, <1>2, <1>3

LEMMA FinishStreamKeeps ==
    ASSUME IInv, NEW q \in Requests, FinishStream(q)
    PROVE  IInv'
<1>1. TypedSessions /\ TypedStream /\ TypedRest /\ Stream(q) /\ HistoryInv
  BY DEF IInv, Typed, Streams
<1>2. Ends(q) /\ handler[q] = "told" /\ handler[q] \in Live
  BY DEF FinishStream, Ends, Live
<1>3. TypedStream' /\ TypedRest'
  BY <1>1, <1>2, EndsTyped
<1>4. Stream(q)' /\ (\A r \in Requests \ {q} : Unmoved(r)) /\ Settled(q) /\ handler'[q] = "ended"
  BY <1>2, EndsKeeps
<1>5. CASE ~ShouldPersist(q)
  <2>1. UNCHANGED history
    BY <1>5 DEF FinishStream
  <2>2. Typed'
    BY <1>1, <1>2, <1>3, <2>1 DEF Typed, TypedSessions, Ends
  <2>3. QED
    BY <1>2, <1>4, <2>1, <2>2, StreamStep DEF Ends, request
<1>6. CASE ShouldPersist(q)
  <2>1. PICK c \in Sessions : call[q] # None /\ c = call[q].session
    BY <1>1, <1>2 DEF Stream, Running, TypedRest, Call
  <2> DEFINE question == [role |-> "user", of |-> q, length |-> 0]
             answer == [role |-> "assistant", of |-> q, length |-> collected[q]]
             h == history[c]
             new == Trim(Append(Trim(Append(h, question)), answer))
  <2>2. history' = [history EXCEPT ![c] = new]
    BY <1>6, <2>1 DEF FinishStream, AppendTurn
  <2>3. question \in Entry /\ answer \in Entry /\ collected[q] > 0
    BY <1>1, <1>6 DEF Entry, TypedStream, ShouldPersist
  <2>4. collected[q] = generated[q] /\ told[q] \in DoneEvents
    BY <1>1, <1>6 DEF Stream, Telling, ShouldPersist, DoneEvents
  <2> HIDE DEF question, answer, h
  <2>5. h \in Seq(Entry) /\ Len(h) \in Nat /\ Len(h) <= MaxMessages /\ Len(h) % 2 = 0
    <3>1. h \in Seq(Entry)
      BY <1>1, <2>1 DEF TypedSessions, h
    <3>2. Len(h) <= MaxMessages /\ Len(h) % 2 = 0
      BY <1>1, <2>1 DEF HistoryInv, h
    <3>3. QED
      BY <3>1, <3>2
  <2>6. new \in Seq(Entry) /\ Len(new) <= MaxMessages
    BY <2>3, <2>5, Turns
  <2>7. PICK d \in {0, 2} :
           /\ Len(new) = Len(h) + 2 - d
           /\ \A i \in 1..Len(new) :
                 new[i] = IF i + d <= Len(h) THEN h[i + d]
                          ELSE IF i + d = Len(h) + 1 THEN question ELSE answer
    BY <2>3, <2>5, Turns
  <2>8. history' \in [Sessions -> Seq(Entry)] /\ history'[c] = new
        /\ \A s \in Sessions \ {c} : history'[s] = history[s]
    BY <1>1, <2>1, <2>2, <2>6 DEF TypedSessions
  <2> HIDE DEF new
  <2>9. Len(new) \in Nat /\ Len(new) % 2 = 0
    <3>1. Len(new) \in Nat
      BY <2>6
    <3>2. Len(new) = Len(h) \/ Len(new) = Len(h) + 2
      BY <2>5, <2>7
    <3>3. QED
      BY <2>5, <3>1, <3>2
  <2>10. Typed'
    BY <1>1, <1>2, <1>3, <2>8 DEF Typed, TypedSessions, Ends
  <2>11. Streams'
    BY <1>4, UnmovedStays DEF IInv, Streams
  <2>12. SessionInv'
    BY <1>2, SessionsStay DEF IInv, Ends, request
  <2>13. \A r \in Requests : Settled(r)
    BY <1>4 DEF Unmoved, Settled
  \* What was there stays what it was.
  <2>14. ASSUME NEW s \in Sessions, NEW i \in 1..Len(history[s]), NEW e,
                e = history[s][i]
         PROVE  /\ e.role = IF i % 2 = 1 THEN "user" ELSE "assistant"
                /\ e.role = "user" => history[s][i + 1].of = e.of
                /\ e.role = "assistant" => e.length = generated'[e.of] /\ e.length > 0
                /\ call'[e.of] # None /\ call'[e.of].session = s
                /\ handler'[e.of] = "ended"
                /\ told'[e.of] \in DoneEvents
    <3>1. Whole(s, i)
      BY <1>1 DEF HistoryInv
    <3>2. e.of \in Requests
      <4>1. history[s] \in Seq(Entry)
        BY <1>1 DEF TypedSessions
      <4>2. history[s][i] \in Entry
        BY <4>1
      <4>3. QED
        BY <2>14, <4>2 DEF Entry
    <3>3. Settled(e.of) /\ told[e.of] # "none"
      BY <2>13, <2>14, <3>1, <3>2 DEF Whole, DoneEvents
    <3>4. QED
      BY <2>14, <3>1, <3>3 DEF Whole, Settled, DoneEvents
  <2>15. ASSUME NEW s \in Sessions \ {c}
         PROVE  /\ Len(history'[s]) <= MaxMessages /\ Len(history'[s]) % 2 = 0
                /\ \A i \in 1..Len(history'[s]) : Whole(s, i)'
    <3>1. history'[s] = history[s]
      BY <2>8
    <3>2. \A i \in 1..Len(history'[s]) : Whole(s, i)'
      BY <2>14, <3>1 DEF Whole
    <3>3. QED
      BY <1>1, <3>1, <3>2 DEF HistoryInv
  <2>16. ASSUME NEW i \in 1..Len(new)
         PROVE  Whole(c, i)'
    <3>1. CASE i + d <= Len(h)
      <4>1. i + d \in 1..Len(h) /\ (i + d) % 2 = i % 2
        <5>1. i \in Nat \ {0} /\ (d = 0 \/ d = 2)
          BY <2>9
        <5>2. i + d \in 1..Len(h)
          BY <2>5, <3>1, <5>1
        <5>3. (i + d) % 2 = i % 2
          BY <5>1
        <5>4. QED
          BY <5>2, <5>3
      <4>2. new[i] = h[i + d]
        BY <2>7, <3>1
      <4>3. i % 2 = 1 => i + 1 \in 1..Len(new) /\ new[i + 1] = h[i + d + 1]
        <5>1. SUFFICES ASSUME i % 2 = 1
                       PROVE  i + 1 \in 1..Len(new) /\ new[i + 1] = h[i + d + 1]
          OBVIOUS
        <5>2. i + d < Len(h)
          BY <2>5, <4>1, <5>1
        <5>3. i + 1 \in 1..Len(new) /\ (i + 1) + d <= Len(h)
          BY SMTT(30), <2>5, <2>7, <2>9, <5>2
        <5>4. new[i + 1] = h[(i + 1) + d]
          BY <2>7, <5>3
        <5>5. QED
          BY <2>5, <2>7, <5>3, <5>4
      <4>4. QED
        <5>1. i + d \in 1..Len(history[c]) /\ history[c][i + d] = new[i]
          BY <4>1, <4>2 DEF h
        <5>2. c \in Sessions /\ history'[c] = new
          BY <2>1, <2>8
        <5>3. /\ new[i].role = IF i % 2 = 1 THEN "user" ELSE "assistant"
              /\ new[i].role = "assistant" =>
                    new[i].length = generated'[new[i].of] /\ new[i].length > 0
              /\ call'[new[i].of] # None /\ call'[new[i].of].session = c
              /\ handler'[new[i].of] = "ended"
              /\ told'[new[i].of] \in DoneEvents
          BY <2>14, <4>1, <5>1, <5>2
        <5>4. new[i].role = "user" => new[i + 1].of = new[i].of
          <6>1. new[i].role = "user" => h[i + d + 1].of = new[i].of
            BY <2>14, <5>1, <5>2 DEF h
          <6>2. new[i].role = "user" => i % 2 = 1
            BY <5>3
          <6>3. QED
            BY <4>3, <6>1, <6>2
        <5>5. QED
          BY <5>2, <5>3, <5>4 DEF Whole
    <3>2. CASE i + d = Len(h) + 1
      <4>1. i \in Nat /\ (d = 0 \/ d = 2)
        BY <2>9
      <4>2. ~(i + d <= Len(h)) /\ i % 2 = 1
        BY <2>5, <3>2, <4>1
      <4>3. new[i] = question
        BY <2>7, <3>2, <4>2
      <4>4. i + 1 \in 1..Len(new)
        BY <2>5, <2>7, <2>9, <3>2, <4>1
      <4>5. ~((i + 1) + d <= Len(h)) /\ (i + 1) + d # Len(h) + 1
        BY <2>5, <3>2, <4>1
      <4>6. new[i + 1] = answer
        BY <2>7, <4>4, <4>5
      <4>7. history'[c] = new /\ handler'[q] = "ended" /\ told'[q] = told[q] /\ call' = call
        BY <1>2, <1>4, <2>8 DEF Ends, request
      <4>8. question.role = "user" /\ question.of = q /\ answer.of = q
        BY DEF question, answer
      <4>9. QED
        BY <2>1, <2>4, <4>2, <4>3, <4>6, <4>7, <4>8 DEF Whole
    <3>3. CASE i + d = Len(h) + 2
      <4>1. i \in Nat /\ (d = 0 \/ d = 2)
        BY <2>9
      <4>2. ~(i + d <= Len(h)) /\ i + d # Len(h) + 1 /\ i % 2 = 0
        BY <2>5, <3>3, <4>1
      <4>3. new[i] = answer
        BY <2>7, <4>2
      <4>4. /\ history'[c] = new /\ handler'[q] = "ended" /\ told'[q] = told[q]
            /\ call' = call /\ generated' = generated
        BY <1>2, <1>4, <2>8 DEF Ends, request
      <4>5. /\ answer.role = "assistant" /\ answer.of = q
            /\ answer.length = collected[q]
        BY DEF answer
      <4>6. QED
        BY <2>1, <2>3, <2>4, <4>2, <4>3, <4>4, <4>5 DEF Whole
    <3>4. QED
      <4>1. i \in Nat /\ (d = 0 \/ d = 2) /\ i <= Len(h) + 2 - d
        BY <2>7, <2>9
      <4>2. QED
        BY <2>5, <3>1, <3>2, <3>3, <4>1
  <2>17. HistoryInv'
    <3>1. /\ Len(history'[c]) <= MaxMessages /\ Len(history'[c]) % 2 = 0
          /\ \A i \in 1..Len(history'[c]) : Whole(c, i)'
      BY <2>6, <2>8, <2>9, <2>16
    <3>2. \A s \in Sessions :
             /\ Len(history'[s]) <= MaxMessages /\ Len(history'[s]) % 2 = 0
             /\ \A i \in 1..Len(history'[s]) : Whole(s, i)'
      BY <2>15, <3>1
    <3>3. QED
      BY <3>2 DEF HistoryInv
  <2>18. QED
    BY <2>10, <2>11, <2>12, <2>17 DEF IInv
<1>7. QED
  BY <1>5, <1>6

LEMMA DisconnectKeeps ==
    ASSUME IInv, NEW q \in Requests, Disconnect(q)
    PROVE  IInv'
<1> USE DEF Disconnect
<1>1. TypedStream /\ TypedRest /\ TypedSessions /\ Stream(q)
  BY DEF IInv, Typed, Streams
<1>2. Typed'
  BY <1>1 DEF Typed, TypedSessions, TypedStream, TypedRest, Store!TypeOK,
     sessions, stream, request, store
<1>3. Stream(q)'
  BY <1>1 DEF Stream, Sides, Telling, Queued, Outstanding, Closing, Recording, Says,
     Running, stream, request, store
<1>4. (\A r \in Requests \ {q} : Unmoved(r)) /\ Settled(q)
  BY DEF Unmoved, Settled, stream, request, store
<1>5. QED
  BY <1>2, <1>3, <1>4, StreamStep DEF sessions, request
-----------------------------------------------------------------------------
(***************************************************************************)
(* Accepting a request.                                                    *)
(***************************************************************************)

LEMMA RefuseSessionKeeps ==
    ASSUME IInv, NEW q \in Requests, NEW p \in Principals, NEW s \in Sessions, NEW n \in Nat,
           handler[q] = "new", RefuseSession(q, p, s, n)
    PROVE  IInv'
<1>1. TypedStream /\ TypedRest /\ TypedSessions /\ Stream(q)
  BY DEF IInv, Typed, Streams
<1>2. /\ handler' = [handler EXCEPT ![q] = "refused"]
      /\ UNCHANGED <<drawn, producer, generated, collected, queue, stop, verdict, told,
                     request, gone, unrecorded, store, crashes>>
  BY DEF RefuseSession
<1>3. /\ \A x \in Sessions : owner'[x] \in {owner[x], None}
      /\ \A x \in Sessions : history'[x] \in {history[x], <<>>}
      /\ owner' \in [Sessions -> Principals \cup {None}]
      /\ history' \in [Sessions -> Seq(Entry)]
  <2>1. Forget(Oldest(n))
    BY DEF RefuseSession
  <2>2. QED
    BY <1>1, <2>1 DEF Forget, TypedSessions
<1>4. Typed'
  <2>1. handler' \in [Requests -> Live \cup {"new", "refused", "ended", "dead"}]
    BY <1>1, <1>2 DEF TypedStream, Live
  <2>2. TypedStream'
    BY <1>1, <1>2, <2>1 DEF TypedStream
  <2>3. QED
    BY <1>1, <1>2, <1>3, <2>2, TypedRestStays DEF Typed, TypedSessions
<1>5. Stream(q)'
  <2>1. handler'[q] = "refused" /\ call[q] = None
    BY <1>1, <1>2 DEF TypedStream, Stream, Running, Live
  <2>2. Sides(q)' /\ Telling(q)' /\ Queued(q)'
    BY <1>1, <1>2, <2>1 DEF Stream, Sides, Telling, Queued
  <2>3. Recording(q)' /\ Running(q)'
    BY <1>1, <1>2, <2>1 DEF Stream, Sides, Recording, Says, Running, Live, request, store
  <2>4. QED
    BY <2>2, <2>3 DEF Stream
<1>6. (\A r \in Requests \ {q} : Unmoved(r)) /\ Settled(q)
  BY <1>1, <1>2 DEF TypedStream, Unmoved, Settled, request, store
<1>7. Streams'
  BY <1>5, <1>6, UnmovedStays DEF IInv, Streams
<1>8. HistoryInv'
  <2>1. \A r \in Requests : Settled(r)
    BY <1>6 DEF Unmoved, Settled
  <2>2. QED
    BY <1>3, <2>1, HistoriesStay DEF IInv
<1>9. SessionInv'
  <2>1. \A r \in Requests : call[r] # None => call[r].session \in Sessions
    BY <1>1 DEF TypedRest, Call
  <2>2. QED
    BY <1>2, <1>3, <2>1 DEF IInv, SessionInv, request
<1>10. QED
  BY <1>4, <1>7, <1>8, <1>9 DEF IInv

\* The session s belongs to p, and to no one else before.
Grants(p, s) ==
    /\ \A x \in Sessions \ {s} : owner'[x] \in {owner[x], None}
    /\ owner'[s] = p
    /\ s \in drawn' /\ drawn \subseteq drawn' /\ drawn' \subseteq Sessions
    /\ \A x \in Sessions : history'[x] \in {history[x], <<>>}
    /\ owner' \in [Sessions -> Principals \cup {None}]
    /\ history' \in [Sessions -> Seq(Entry)]
    /\ \A r \in Requests : call[r] # None /\ call[r].session = s => call[r].principal = p

\* A session that is owned was drawn.
LEMMA ContinueGrants ==
    ASSUME IInv, NEW p \in Principals, NEW s \in Sessions, NEW n \in Nat,
           ContinueSession(p, s, n)
    PROVE  Grants(p, s)
<1>1. TypedSessions /\ SessionInv
  BY DEF IInv, Typed
<1>2. s \notin Oldest(n) /\ owner[s] = p /\ Forget(Oldest(n)) /\ drawn' = drawn
  BY DEF ContinueSession, Owned
<1>3. /\ \A x \in Sessions : owner'[x] \in {owner[x], None}
      /\ owner'[s] = p
      /\ \A x \in Sessions : history'[x] \in {history[x], <<>>}
      /\ owner' \in [Sessions -> Principals \cup {None}]
      /\ history' \in [Sessions -> Seq(Entry)]
  BY <1>1, <1>2 DEF Forget, TypedSessions
<1>4. p # None
  OBVIOUS
<1>5. \A r \in Requests : call[r] # None /\ call[r].session = s => call[r].principal = p
  BY <1>1, <1>2, <1>4 DEF SessionInv
<1>6. s \in drawn /\ drawn \subseteq Sessions
  BY <1>1, <1>2, <1>4 DEF SessionInv, TypedSessions
<1>7. QED
  BY <1>2, <1>3, <1>5, <1>6 DEF Grants

LEMMA NewGrants ==
    ASSUME IInv, NEW p \in Principals, NEW s \in Sessions, NEW n \in Nat,
           NewSession(p, s, n)
    PROVE  Grants(p, s)
<1>1. TypedSessions /\ SessionInv
  BY DEF IInv, Typed
<1>2. PICK gonners : /\ owner' = [x \in Sessions |-> IF x = s THEN p
                                                 ELSE IF x \in gonners THEN None
                                                 ELSE owner[x]]
                     /\ history' = [x \in Sessions |->
                                       IF x \in gonners THEN <<>> ELSE history[x]]
  BY DEF NewSession
<1>3. s \notin drawn /\ drawn' = drawn \cup {s}
  BY DEF NewSession
<1>4. /\ \A x \in Sessions \ {s} : owner'[x] \in {owner[x], None}
      /\ owner'[s] = p
      /\ \A x \in Sessions : history'[x] \in {history[x], <<>>}
      /\ owner' \in [Sessions -> Principals \cup {None}]
      /\ history' \in [Sessions -> Seq(Entry)]
  BY <1>1, <1>2 DEF TypedSessions
<1>5. \A r \in Requests : call[r] # None => call[r].session # s
  BY <1>1, <1>3 DEF SessionInv
<1>6. s \in drawn' /\ drawn \subseteq drawn' /\ drawn' \subseteq Sessions
  BY <1>1, <1>3 DEF TypedSessions
<1>7. QED
  BY <1>4, <1>5, <1>6 DEF Grants

LEMMA ReserveTyped ==
    ASSUME Store!TypeOK, NEW q \in Requests, NEW m \in Messages, NEW p \in Principals,
           Store!ReserveRun(q, m, p)
    PROVE  /\ Store!TypeOK'
           /\ q \notin issued /\ issued' = issued \cup {q}
           /\ \A r \in Requests \ {q} : runs'[r] = runs[r]
<1>1. [message |-> m, principal |-> p, created |-> now,
       terminal |-> "running", eligible |-> FALSE] \in Store!RunRow
  BY DEF Store!RunRow, Store!TypeOK
<1>2. QED
  BY <1>1 DEF Store!TypeOK, Store!ReserveRun

\* Whatever came of its run, a request is accepted for its own session or refused.
LEMMA OpenedRun ==
    ASSUME TypedStream, TypedRest, NEW q \in Requests, NEW p \in Principals, NEW s \in Sessions,
           NEW m \in Messages, OpenRun(q, p, s, m)
    PROVE  /\ Store!TypeOK'
           /\ issued \subseteq issued' /\ issued' \subseteq issued \cup {q}
           /\ \A r \in Requests \ {q} : runs'[r] = runs[r]
           /\ runs'[q] # runs[q] => q \in issued'
           /\ handler' \in [Requests -> Live \cup {"new", "refused", "ended", "dead"}]
           /\ \A r \in Requests \ {q} : handler'[r] = handler[r] /\ call'[r] = call[r]
           /\ call' \in [Requests -> Call \cup {None}]
           /\ \/ /\ handler'[q] = "refused" /\ call' = call /\ runs'[q] = runs[q]
              \/ /\ handler'[q] = "accepted"
                 /\ call'[q] # None /\ call'[q].principal = p /\ call'[q].session = s
                 /\ call'[q].tracked \/ runs'[q] = runs[q]
<1>1. \A t \in BOOLEAN : /\ [principal |-> p, session |-> s, tracked |-> t] \in Call
                         /\ [principal |-> p, session |-> s, tracked |-> t] # None
  BY NoRecord DEF Call
<1>2. CASE Store!ReserveRun(q, m, p) /\ handler' = [handler EXCEPT ![q] = "accepted"]
           /\ call' = [call EXCEPT ![q] = [principal |-> p, session |-> s, tracked |-> TRUE]]
  <2>1. /\ issued' = issued \cup {q}
        /\ \A r \in Requests \ {q} : runs'[r] = runs[r]
    BY <1>2, ReserveTyped DEF TypedRest
  <2>9. Store!TypeOK'
    BY <1>2, ReserveTyped DEF TypedRest
  <2>2. /\ handler' \in [Requests -> Live \cup {"new", "refused", "ended", "dead"}]
        /\ handler'[q] = "accepted"
        /\ \A r \in Requests \ {q} : handler'[r] = handler[r]
    BY <1>2 DEF TypedStream, Live
  <2>3. /\ call' \in [Requests -> Call \cup {None}]
        /\ call'[q] = [principal |-> p, session |-> s, tracked |-> TRUE]
        /\ \A r \in Requests \ {q} : call'[r] = call[r]
    BY <1>1, <1>2 DEF TypedRest
  <2>4. /\ call'[q] # None /\ call'[q].principal = p /\ call'[q].session = s
        /\ call'[q].tracked
    <3>1. [principal |-> p, session |-> s, tracked |-> TRUE] # None
      BY <1>1
    <3>2. QED
      BY <2>3, <3>1
  <2>5. issued \subseteq issued' /\ issued' \subseteq issued \cup {q} /\ q \in issued'
    BY <2>1
  <2>6. \/ handler'[q] = "refused" /\ call' = call /\ runs'[q] = runs[q]
        \/ /\ handler'[q] = "accepted"
           /\ call'[q] # None /\ call'[q].principal = p /\ call'[q].session = s
           /\ call'[q].tracked \/ runs'[q] = runs[q]
    BY <2>2, <2>4
  <2>7. \A r \in Requests \ {q} : handler'[r] = handler[r] /\ call'[r] = call[r]
    BY <2>2, <2>3
  <2>8. QED
    BY <2>1, <2>2, <2>3, <2>5, <2>6, <2>7, <2>9
<1>3. CASE handler' = [handler EXCEPT ![q] = "refused"] /\ UNCHANGED <<call, store>>
  <2>1. /\ handler' \in [Requests -> Live \cup {"new", "refused", "ended", "dead"}]
        /\ handler'[q] = "refused"
        /\ \A r \in Requests \ {q} : handler'[r] = handler[r]
    BY <1>3 DEF TypedStream, Live
  <2>2. QED
    BY <1>3, <2>1 DEF TypedRest, store, Store!TypeOK
<1>4. CASE /\ handler' = [handler EXCEPT ![q] = "accepted"]
           /\ call' = [call EXCEPT ![q] = [principal |-> p, session |-> s, tracked |-> FALSE]]
           /\ UNCHANGED store
  <2>1. /\ handler' \in [Requests -> Live \cup {"new", "refused", "ended", "dead"}]
        /\ handler'[q] = "accepted"
        /\ \A r \in Requests \ {q} : handler'[r] = handler[r]
    BY <1>4 DEF TypedStream, Live
  <2>2. /\ call' \in [Requests -> Call \cup {None}]
        /\ call'[q] = [principal |-> p, session |-> s, tracked |-> FALSE]
        /\ \A r \in Requests \ {q} : call'[r] = call[r]
    BY <1>1, <1>4 DEF TypedRest
  <2>3. Store!TypeOK' /\ runs' = runs /\ issued' = issued
    BY <1>4 DEF TypedRest, store, Store!TypeOK
  <2>4. call'[q] # None /\ call'[q].principal = p /\ call'[q].session = s
    <3>1. [principal |-> p, session |-> s, tracked |-> FALSE] # None
      BY <1>1
    <3>2. QED
      BY <2>2, <3>1
  <2>5. QED
    BY <2>1, <2>2, <2>3, <2>4
<1>5. QED
  BY <1>2, <1>3, <1>4 DEF OpenRun

LEMMA AcceptKeeps ==
    ASSUME IInv, NEW q \in Requests, Accept(q)
    PROVE  IInv'
<1>1. /\ TypedStream /\ TypedRest /\ TypedSessions /\ Stream(q)
      /\ HistoryInv /\ SessionInv
  BY DEF IInv, Typed, Streams
<1>2. PICK p \in Principals, s \in Sessions, n \in Nat :
         \/ RefuseSession(q, p, s, n)
         \/ /\ ContinueSession(p, s, n) \/ NewSession(p, s, n)
            /\ recalled' = [recalled EXCEPT ![q] =
                               {history'[s][i].of : i \in DOMAIN history'[s]}]
            /\ \E m \in Messages : OpenRun(q, p, s, m)
            /\ UNCHANGED <<producer, generated, collected, queue, stop, verdict,
                           told, gone, unrecorded, crashes>>
  BY DEF Accept
<1>3. handler[q] = "new"
  BY DEF Accept
<1>4. CASE RefuseSession(q, p, s, n)
  BY <1>3, <1>4, RefuseSessionKeeps
<1>5. CASE /\ ContinueSession(p, s, n) \/ NewSession(p, s, n)
           /\ recalled' = [recalled EXCEPT ![q] =
                              {history'[s][i].of : i \in DOMAIN history'[s]}]
           /\ \E m \in Messages : OpenRun(q, p, s, m)
           /\ UNCHANGED <<producer, generated, collected, queue, stop, verdict,
                          told, gone, unrecorded, crashes>>
  <2>1. Grants(p, s)
    BY <1>5, ContinueGrants, NewGrants
  <2>2. PICK m \in Messages : OpenRun(q, p, s, m)
    BY <1>5
  <2>3. /\ Store!TypeOK'
        /\ issued \subseteq issued' /\ issued' \subseteq issued \cup {q}
        /\ \A r \in Requests \ {q} : runs'[r] = runs[r]
        /\ runs'[q] # runs[q] => q \in issued'
        /\ handler' \in [Requests -> Live \cup {"new", "refused", "ended", "dead"}]
        /\ \A r \in Requests \ {q} : handler'[r] = handler[r] /\ call'[r] = call[r]
        /\ call' \in [Requests -> Call \cup {None}]
        /\ \/ /\ handler'[q] = "refused" /\ call' = call /\ runs'[q] = runs[q]
           \/ /\ handler'[q] = "accepted"
              /\ call'[q] # None /\ call'[q].principal = p /\ call'[q].session = s
              /\ call'[q].tracked \/ runs'[q] = runs[q]
    BY <1>1, <2>2, OpenedRun
  <2>4. /\ producer[q] = "none" /\ told[q] = "none" /\ verdict[q] = "none"
        /\ queue[q] = <<>> /\ generated[q] = 0 /\ collected[q] \in Nat
        /\ call[q] = None /\ q \notin issued /\ runs[q] = None /\ stop[q] = FALSE
    BY <1>1, <1>3 DEF TypedStream, Stream, Sides, Telling, Queued, Running, Live
  <2>5. Stream(q)'
    <3>1. Sides(q)' /\ Telling(q)'
      BY <1>1, <1>5, <2>3, <2>4 DEF Stream, Sides, Telling
    <3>2. Queued(q)'
      BY <1>1, <1>5, <2>3, <2>4 DEF Stream, Queued
    <3>3. Recording(q)'
      BY <1>5, <2>4 DEF Recording, Says, Terminals, DoneEvents
    <3>4. Running(q)'
      BY <1>1, <1>5, <2>3, <2>4 DEF Running, Live
    <3>5. QED
      BY <3>1, <3>2, <3>3, <3>4 DEF Stream
  <2>6. (\A r \in Requests \ {q} : Unmoved(r)) /\ Settled(q)
    BY <1>3, <1>5, <2>3 DEF Unmoved, Settled
  <2>7. Streams'
    BY <2>5, <2>6, UnmovedStays DEF IInv, Streams
  <2>8. HistoryInv'
    <3>1. \A r \in Requests : Settled(r)
      BY <2>6 DEF Unmoved, Settled
    <3>2. QED
      BY <2>1, <3>1, HistoriesStay DEF IInv, Grants
  \* What the request recalls is of its session.
  <2>9. \A r \in {history'[s][i].of : i \in DOMAIN history'[s]} :
           r \in Requests /\ call'[r] # None /\ call'[r].session = s
    <3>1. ASSUME NEW i \in DOMAIN history'[s]
          PROVE  /\ history'[s][i].of \in Requests
                 /\ call'[history'[s][i].of] # None
                 /\ call'[history'[s][i].of].session = s
      <4>1. history'[s] \in Seq(Entry)
        BY <2>1 DEF Grants
      <4>2. i \in 1..Len(history'[s]) /\ history'[s][i] \in Entry
        BY <4>1
      <4>3. Whole(s, i)'
        BY <2>8, <4>2 DEF HistoryInv
      <4>4. QED
        BY <4>2, <4>3 DEF Whole, Entry
    <3>2. QED
      BY <3>1
  <2>10. recalled' \in [Requests -> SUBSET Requests]
         /\ recalled'[q] = {history'[s][i].of : i \in DOMAIN history'[s]}
         /\ \A r \in Requests \ {q} : recalled'[r] = recalled[r]
    <3>1. {history'[s][i].of : i \in DOMAIN history'[s]} \in SUBSET Requests
      BY <2>9
    <3>2. QED
      BY <1>1, <1>5, <3>1 DEF TypedRest
  <2>11. Typed'
    <3>1. TypedStream'
      BY <1>1, <1>5, <2>3 DEF TypedStream
    <3>2. TypedRest'
      BY <1>1, <1>5, <2>3, <2>10 DEF TypedRest
    <3>3. TypedSessions'
      BY <2>1 DEF Grants, TypedSessions
    <3>4. QED
      BY <3>1, <3>2, <3>3 DEF Typed
  <2>12. SessionInv'
    <3>1. \A r \in Requests : call[r] # None => call[r].session \in Sessions
      BY <1>1 DEF TypedRest, Call
    <3>2. ASSUME NEW r \in Requests, call'[r] # None
          PROVE  /\ call'[r].session \in drawn'
                 /\ owner'[call'[r].session] \in {None, call'[r].principal}
      <4>1. CASE r = q
        BY <2>1, <2>3, <2>4, <3>2, <4>1 DEF Grants
      <4>2. CASE r # q
        <5>1. call'[r] = call[r]
          BY <2>3, <4>2
        <5>2. call[r].session \in drawn /\ owner[call[r].session] \in {None, call[r].principal}
          BY <1>1, <3>2, <5>1 DEF SessionInv
        <5>3. call[r].session = s => call[r].principal = p
          BY <2>1, <3>2, <5>1 DEF Grants
        <5>4. QED
          BY <2>1, <3>1, <3>2, <5>1, <5>2, <5>3 DEF Grants
      <4>3. QED
        BY <4>1, <4>2
    <3>3. ASSUME NEW r \in Requests, call'[r] # None, NEW t \in recalled'[r]
          PROVE  call'[t] # None /\ call'[t].session = call'[r].session
      <4>1. CASE r = q
        BY <2>3, <2>4, <2>9, <2>10, <3>3, <4>1
      <4>2. CASE r # q
        <5>1. call'[r] = call[r] /\ recalled'[r] = recalled[r]
          BY <2>3, <2>10, <4>2
        <5>2. call[t] # None /\ call[t].session = call[r].session /\ t \in Requests
          BY <1>1, <3>3, <5>1 DEF SessionInv, TypedRest
        <5>3. t # q
          BY <2>4, <5>2
        <5>4. QED
          BY <2>3, <5>1, <5>2, <5>3
      <4>3. QED
        BY <4>1, <4>2
    <3>4. ASSUME NEW r \in Requests, NEW t \in Requests, call'[r] # None, call'[t] # None,
                 call'[r].session = call'[t].session
          PROVE  call'[r].principal = call'[t].principal
      <4>1. \A x \in Requests : call'[x] # None /\ call'[x].session = s
                                   => call'[x].principal = p
        BY <2>1, <2>3, <2>4 DEF Grants
      <4>2. \A x \in Requests : call'[x] = call[x] \/ call'[x].session = s
        BY <2>3
      <4>3. QED
        BY <1>1, <3>4, <4>1, <4>2 DEF SessionInv
    <3>5. \A x \in Sessions : owner'[x] # None => x \in drawn'
      BY <1>1, <2>1 DEF Grants, SessionInv
    <3>6. QED
      BY <3>2, <3>3, <3>4, <3>5 DEF SessionInv
  <2>13. QED
    BY <2>7, <2>8, <2>11, <2>12 DEF IInv
<1>6. QED
  BY <1>2, <1>4, <1>5
-----------------------------------------------------------------------------
(***************************************************************************)
(* The process starts, and starts again.                                   *)
(***************************************************************************)

LEMMA RestartKeeps ==
    ASSUME IInv, Restart
    PROVE  IInv'
<1> USE DEF Restart
<1>1. TypedStream /\ TypedRest /\ TypedSessions /\ Streams
  BY DEF IInv, Typed
<1>2. Typed'
  <2>1. TypedStream'
    BY <1>1 DEF TypedStream, Live
  <2>2. TypedRest'
    BY <1>1 DEF TypedRest, store, Store!TypeOK
  <2>3. TypedSessions'
    BY <1>1 DEF TypedSessions
  <2>4. QED
    BY <2>1, <2>2, <2>3 DEF Typed
<1>3. ASSUME NEW r \in Requests
      PROVE  Stream(r)'
  <2>1. Running(r)
    BY <1>1 DEF Streams, Stream
  <2>2. /\ handler'[r] = IF handler[r] = "new" THEN "new" ELSE "dead"
        /\ producer'[r] = "none" /\ call'[r] = None /\ generated'[r] = 0
        /\ collected'[r] = 0 /\ queue'[r] = <<>> /\ stop'[r] = FALSE
        /\ verdict'[r] = "none" /\ told'[r] = "none"
    OBVIOUS
  <2>3. Sides(r)' /\ Telling(r)'
    BY <2>2 DEF Sides, Telling
  <2>4. Queued(r)'
    BY <2>2 DEF Queued
  <2>5. Recording(r)'
    BY <2>2 DEF Recording, Says, Terminals, DoneEvents
  <2>6. Running(r)'
    BY <2>1, <2>2 DEF Running, Live, store
  <2>7. QED
    BY <2>3, <2>4, <2>5, <2>6 DEF Stream
<1>4. SessionInv'
  BY DEF SessionInv
<1>5. HistoryInv'
  BY DEF HistoryInv
<1>6. QED
  BY <1>2, <1>3, <1>4, <1>5 DEF IInv, Streams

LEMMA Starts ==
    ASSUME Init
    PROVE  IInv
<1> USE DEF Init, Store!Init
<1>1. Typed
  <2>1. TypedStream
    BY DEF TypedStream, Live
  <2>2. TypedRest
    BY DEF TypedRest, Store!TypeOK
  <2>3. TypedSessions
    BY DEF TypedSessions
  <2>4. QED
    BY <2>1, <2>2, <2>3 DEF Typed
<1>2. ASSUME NEW r \in Requests
      PROVE  Stream(r)
  <2>1. Sides(r) /\ Telling(r)
    BY DEF Sides, Telling
  <2>2. Queued(r)
    BY DEF Queued
  <2>3. Recording(r)
    BY DEF Recording, Says, Terminals, DoneEvents
  <2>4. Running(r)
    BY DEF Running, Live
  <2>5. QED
    BY <2>1, <2>2, <2>3, <2>4 DEF Stream
<1>3. SessionInv
  BY DEF SessionInv
<1>4. HistoryInv
  BY DEF HistoryInv
<1>5. QED
  BY <1>1, <1>2, <1>3, <1>4 DEF IInv, Streams

LEMMA StaysTheSame ==
    ASSUME IInv, UNCHANGED vars
    PROVE  IInv'
<1> USE DEF vars, sessions, stream, request, store
<1>1. Typed'
  BY DEF IInv, Typed, TypedSessions, TypedStream, TypedRest, Store!TypeOK
<1>2. \A r \in Requests : Unmoved(r) /\ Settled(r)
  BY DEF Unmoved, Settled
<1>3. Streams'
  BY <1>2, UnmovedStays DEF IInv, Streams
<1>4. SessionInv' /\ HistoryInv'
  BY <1>2, SessionsStay, HistoriesStay DEF IInv
<1>5. QED
  BY <1>1, <1>3, <1>4 DEF IInv

\* Every reachable state satisfies the invariant.
THEOREM Inductive == Spec => []IInv
<1>1. Init => IInv
  BY Starts
<1>2. IInv /\ [Next]_vars => IInv'
  <2>1. SUFFICES ASSUME IInv, [Next]_vars
                 PROVE  IInv'
    OBVIOUS
  <2>2. ASSUME NEW q \in Requests, Accept(q)
        PROVE  IInv'
    BY <2>1, <2>2, AcceptKeeps
  <2>3. ASSUME NEW q \in Requests, ProducerStep(q)
        PROVE  IInv'
    BY <2>1, <2>3, YieldTokenKeeps, EndAnswerKeeps, FinalizeRunKeeps,
       FinalizeInterruptedKeeps, PostTerminalKeeps, CloseAnswerKeeps DEF ProducerStep
  <2>4. ASSUME NEW q \in Requests, HandlerStep(q)
        PROVE  IInv'
    BY <2>1, <2>4, StartStreamKeeps, RelayTokenKeeps, RelayTerminalKeeps,
       FinishStreamKeeps, DropStreamKeeps DEF HandlerStep
  <2>5. ASSUME NEW q \in Requests, Disconnect(q)
        PROVE  IInv'
    BY <2>1, <2>5, DisconnectKeeps
  <2>6. CASE Restart
    BY <2>1, <2>6, RestartKeeps
  <2>7. CASE UNCHANGED vars
    BY <2>1, <2>7, StaysTheSame
  <2>8. QED
    BY <2>1, <2>2, <2>3, <2>4, <2>5, <2>6, <2>7 DEF Next
<1>3. QED
  BY <1>1, <1>2, PTL DEF Spec
-----------------------------------------------------------------------------
(***************************************************************************)
(* What the invariant says of the properties.                              *)
(***************************************************************************)

\* A history is made of whole turns of its session, whatever was cut off,
\* trimmed or run side by side (append_message, session.py:57).
THEOREM WholeTurns == Spec => []HistoryOfWholeTurns
<1>1. IInv => HistoryOfWholeTurns
  <2>1. SUFFICES ASSUME IInv, NEW s \in Sessions, NEW i \in DOMAIN history[s]
                 PROVE  LET e == history[s][i]
                        IN  /\ Len(history[s]) % 2 = 0
                            /\ e.role = IF i % 2 = 1 THEN "user" ELSE "assistant"
                            /\ e.role = "user" => history[s][i + 1].of = e.of
                            /\ e.role = "assistant" =>
                                  e.length = generated[e.of] /\ e.length > 0
                            /\ call[e.of].session = s
                            /\ told[e.of] \in DoneEvents
    BY DEF HistoryOfWholeTurns
  <2>2. i \in 1..Len(history[s])
    <3>1. history[s] \in Seq(Entry)
      BY <2>1 DEF IInv, Typed, TypedSessions
    <3>2. QED
      BY <3>1
  <2>3. Whole(s, i) /\ Len(history[s]) % 2 = 0
    BY <2>1, <2>2 DEF IInv, HistoryInv
  <2>4. QED
    BY <2>3 DEF Whole
<1>2. QED
  BY <1>1, Inductive, PTL

\* An answer is composed with messages of its own principal only
\* (get_or_create_session_id, session.py:25).
THEOREM OwnMessages == Spec => []RecallsOwnMessages
<1>1. IInv => RecallsOwnMessages
  BY DEF IInv, Typed, TypedRest, SessionInv, RecallsOwnMessages
<1>2. QED
  BY <1>1, Inductive, PTL

\* What a client is told is what the run says (on_done and on_error, chat.py:337, 357).
THEOREM TellsTheRecord == Spec => []ToldIsRecorded
<1>1. IInv => ToldIsRecorded
  <2>1. SUFFICES ASSUME IInv, NEW q \in Requests
                 PROVE  \A v \in {told[q]} \cup {queue[q][i] : i \in DOMAIN queue[q]} :
                           Says(q, v)
    BY <2>1 DEF ToldIsRecorded, Says
  <2>2. Recording(q)
    BY <2>1 DEF IInv, Streams, Stream
  <2>3. \A i \in DOMAIN queue[q] : i \in 1..Len(queue[q])
    <3>1. queue[q] \in Seq(Terminals \cup {"token", "end"})
      BY <2>1 DEF IInv, Typed, TypedStream
    <3>2. QED
      BY <3>1
  <2>4. QED
    BY <2>2, <2>3 DEF Recording
<1>2. QED
  BY <1>1, Inductive, PTL

\* A run that is open when its producer is over was left by its client or could
\* not be written (finalize_quality, chat.py:314).
THEOREM OpenRuns == Spec => []OpenRunsWereLeft
<1>1. IInv => OpenRunsWereLeft
  BY DEF IInv, Streams, Stream, Recording, OpenRunsWereLeft
<1>2. QED
  BY <1>1, Inductive, PTL

\* A handler waits only while its producer has something to post or an event
\* waits for it, and a stream that ended has told its client (_run_sse, chat.py:164).
THEOREM NoHang == Spec => []NoStreamHangs
<1>1. IInv => NoStreamHangs
  <2>1. SUFFICES ASSUME IInv, NEW q \in Requests
                 PROVE  /\ handler[q] = "waiting" /\ producer[q] = "over" /\ q \notin gone =>
                              \E i \in DOMAIN queue[q] : queue[q][i] \in Terminals
                        /\ handler[q] = "told" => told[q] # "none"
                        /\ handler[q] = "ended" => told[q] # "none" \/ q \in gone
    BY DEF NoStreamHangs
  <2>2. Telling(q) /\ Queued(q) /\ TypedStream
    BY <2>1 DEF IInv, Streams, Stream, Typed
  <2>3. ASSUME handler[q] = "waiting", producer[q] = "over"
        PROVE  \E i \in DOMAIN queue[q] : queue[q][i] \in Terminals
    <3>1. /\ Len(queue[q]) = Outstanding(q) + 2 /\ Outstanding(q) \in Nat
          /\ queue[q][Outstanding(q) + 1] \in Terminals
      BY <2>2, <2>3 DEF Queued, Closing, Outstanding, TypedStream
    <3>2. DOMAIN queue[q] = 1..Len(queue[q])
      BY <2>2 DEF TypedStream
    <3>3. Outstanding(q) + 1 \in DOMAIN queue[q]
      BY <3>1, <3>2
    <3>4. QED
      BY <3>1, <3>3
  <2>4. QED
    BY <2>2, <2>3 DEF Telling
<1>2. QED
  BY <1>1, Inductive, PTL
=============================================================================
