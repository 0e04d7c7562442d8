----------------------------- MODULE EdgeProofs -----------------------------
(***************************************************************************)
(* Theorems about what stands at the edge of the service, one part for     *)
(* each of three components that share no state.                           *)
(*                                                                         *)
(* Accounts, for any names, tokens, places, windows and limits: what a     *)
(* logout revokes stays out, what is rejected is audited, and the login    *)
(* limit counts the failures of the last window.                           *)
(*                                                                         *)
(* TaskWatch, for any tasks and watches: a browser tab loses no task it    *)
(* was told about, and watches every one it remembers.                     *)
(*                                                                         *)
(* HealthCheck, for any requests, windows, cooldowns and limits: the       *)
(* ledger of alerts tells one story, the saved state tells the same, and   *)
(* an alarm about slow requests is raised when there is cause, and only    *)
(* then.                                                                   *)
(***************************************************************************)
EXTENDS Accounts, TaskWatch, HealthCheck, Integers, FiniteSetTheorems,
        SequenceTheorems, TLAPS

-----------------------------------------------------------------------------
(***************************************************************************)
(* Induction over numbers and sequences, as facts about sets: the smallest *)
(* counterexample is found among the finite sets 0 .. n.                   *)
(***************************************************************************)

\* A set of numbers that is not empty has a least one.
LEMMA LeastNatural ==
    ASSUME NEW T \in SUBSET Nat, T # {}
    PROVE  \E m \in T : \A k \in T : m <= k
<1> DEFINE I == {0 .. n : n \in T}
<1>1. I \subseteq FiniteSubsetsOf(Nat)
  <2>1. ASSUME NEW n \in T
        PROVE  0 .. n \in SUBSET Nat /\ IsFiniteSet(0 .. n)
    <3> HIDE DEF I
    <3>1. n \in Nat /\ 0 .. n \subseteq Nat
      OBVIOUS
    <3>2. IsFiniteSet(0 .. n)
      BY <3>1, FS_Interval
    <3>3. QED
      BY <3>1, <3>2
  <2>2. QED
    BY <2>1 DEF FiniteSubsetsOf
<1>2. I # {}
  OBVIOUS
<1>3. PICK x \in I : \A y \in I : ~ (<<y, x>> \in StrictSubsetOrdering(Nat))
  <2>1. IsWellFoundedOn(StrictSubsetOrdering(Nat), FiniteSubsetsOf(Nat))
    BY FS_StrictSubsetOrderingWellFounded
  <2> HIDE DEF I
  <2>2. QED
    BY <1>1, <1>2, <2>1, WFMin
<1>4. PICK m \in T : x = 0 .. m
  OBVIOUS
<1>5. ASSUME NEW k \in T
      PROVE  m <= k
  <2>1. SUFFICES ASSUME k < m
                 PROVE  FALSE
    OBVIOUS
  <2>2. 0 .. k \subseteq 0 .. m /\ m \in 0 .. m /\ m \notin 0 .. k
    BY <2>1
  <2>3. <<0 .. k, 0 .. m>> \in StrictSubsetOrdering(Nat)
    <3>1. 0 .. k \in SUBSET Nat /\ 0 .. m \in SUBSET Nat /\ 0 .. k # 0 .. m
      BY <2>2
    <3>2. QED
      BY <2>2, <3>1 DEF StrictSubsetOrdering
  <2>4. QED
    BY <1>3, <1>4, <2>3
<1>6. QED
  BY <1>5

\* A set that has 0 and every successor has every number: there is no least
\* counterexample.
LEMMA NumberInduction ==
    ASSUME NEW S, 0 \in S, \A n \in Nat : n \in S => n + 1 \in S
    PROVE  Nat \subseteq S
<1>1. SUFFICES ASSUME Nat \ S # {}
               PROVE  FALSE
  OBVIOUS
<1>2. PICK m \in Nat \ S : \A k \in Nat \ S : m <= k
  BY <1>1, LeastNatural
<1>3. m # 0 /\ m - 1 \in Nat
  BY <1>2
<1>4. m - 1 \in S
  BY <1>2, <1>3
<1>5. QED
  BY <1>2, <1>3, <1>4

\* The same for sequences, by their length.
LEMMA SequenceInduction ==
    ASSUME NEW S, << >> \in S,
           \A s \in Seq(Nat), x \in Nat : s \in S => Append(s, x) \in S
    PROVE  Seq(Nat) \subseteq S
<1> DEFINE Sized == {n \in Nat : \A s \in Seq(Nat) : Len(s) = n => s \in S}
<1>1. 0 \in Sized
  OBVIOUS
<1>2. ASSUME NEW n \in Nat, n \in Sized
      PROVE  n + 1 \in Sized
  <2>1. ASSUME NEW s \in Seq(Nat), Len(s) = n + 1
        PROVE  s \in S
    <3> DEFINE front == SubSeq(s, 1, n)
    <3>1. front \in Seq(Nat) /\ Len(front) = n /\ \A i \in 1 .. n : front[i] = s[i]
      BY <2>1
    <3>2. s[n + 1] \in Nat
      BY <2>1
    <3> HIDE DEF front
    <3>3. s = Append(front, s[n + 1])
      <4>1. /\ Append(front, s[n + 1]) \in Seq(Nat)
            /\ Len(Append(front, s[n + 1])) = Len(s)
            /\ \A i \in 1 .. Len(s) : Append(front, s[n + 1])[i] = s[i]
        BY <2>1, <3>1, <3>2
      <4>2. QED
        BY <4>1, SeqEqual
    <3>4. QED
      BY <1>2, <3>1, <3>2, <3>3
  <2>2. QED
    BY <2>1
<1> HIDE DEF Sized
<1>3. Nat \subseteq Sized
  BY <1>1, <1>2, NumberInduction
<1>4. QED
  BY <1>3 DEF Sized
-----------------------------------------------------------------------------
USE AccountsAssumption
-----------------------------------------------------------------------------
(***************************************************************************)
(* Accounts: the inductive invariant.                                      *)
(***************************************************************************)

TokensTyped ==
    /\ now \in 0 .. MaxTime
    /\ DOMAIN issued \subseteq Jtis
    /\ \A j \in DOMAIN issued : issued[j].exp \in Nat

\* The row of a token that logged out is there as long as the token lives.
RowsKept ==
    /\ DOMAIN revoked \subseteq DOMAIN issued
    /\ \A j \in DOMAIN revoked : revoked[j] = issued[j].exp
    /\ loggedOut \subseteq DOMAIN issued
    /\ \A j \in loggedOut : j \in DOMAIN revoked \/ 2 * issued[j].exp < now

\* The times that are kept are those of the last lines, and those that were
\* dropped are a window old.
LinesKept ==
    /\ \A p \in DOMAIN lastLogged : p \in DOMAIN lines /\ lines[p] = lastLogged[p]
    /\ \A p \in DOMAIN lines :
          /\ lines[p] \in 0 .. now
          /\ p \in DOMAIN lastLogged \/ lines[p] + AuditWindow < now
    /\ outcome.kind = "rejected" =>
          /\ outcome.place \in DOMAIN lines
          /\ outcome.at - lines[outcome.place] < AuditWindow

Inv == TokensTyped /\ RowsKept /\ LinesKept /\ RevokedStaysOut
-----------------------------------------------------------------------------
\* One key more, or a new value at a key.
LEMMA PutFacts ==
    ASSUME NEW f, NEW x, NEW v
    PROVE  /\ DOMAIN Put(f, x, v) = DOMAIN f \cup {x}
           /\ Put(f, x, v)[x] = v
           /\ \A y \in DOMAIN f \ {x} : Put(f, x, v)[y] = f[y]
  BY DEF Put

LEMMA RestrictFacts ==
    ASSUME NEW f, NEW S
    PROVE  DOMAIN Restrict(f, S) = S /\ \A y \in S : Restrict(f, S)[y] = f[y]
  BY DEF Restrict

\* What the clock shows does not go back.
LEMMA Readings ==
    ASSUME TokensTyped, NEW at \in Times
    PROVE  /\ at.first = now /\ at.last \in now .. MaxTime
           /\ \A r \in 1 .. 4 : Reading(r, at) \in {at.first, at.last}
           /\ Reading(1, at) <= Reading(2, at) /\ Reading(3, at) <= Reading(4, at)
<1>1. now \in Nat /\ MaxTime \in Nat /\ now <= MaxTime
  BY DEF TokensTyped
<1>2. at.first = now /\ at.last \in now .. MaxTime /\ at.turn \in 1 .. 4
  BY <1>1 DEF Times, Later
<1>3. QED
  BY <1>1, <1>2 DEF Reading

\* A token that logged out is accepted only while it runs out.
LEMMA AcceptedLate ==
    ASSUME Inv, NEW j \in loggedOut, NEW t \in Nat, NEW u \in Nat,
           now <= t, t <= u, Accepted(j, t, u)
    PROVE  t < 2 * issued[j].exp /\ 2 * issued[j].exp < u
<1>1. j \in DOMAIN issued /\ issued[j].exp \in Nat /\ now \in Nat
  BY DEF Inv, RowsKept, TokensTyped
<1>2. t < 2 * issued[j].exp
  <2>1. ~(issued[j].exp <= t \div 2)
    BY DEF Accepted, Expired, Seconds
  <2>2. t \div 2 \in Nat /\ t <= 2 * (t \div 2) + 1
    OBVIOUS
  <2>3. QED
    BY <1>1, <2>1, <2>2
<1>3. j \in DOMAIN revoked /\ revoked[j] = issued[j].exp
  BY <1>1, <1>2 DEF Inv, RowsKept
<1>4. QED
  BY <1>1, <1>2, <1>3 DEF Accepted, Revoked

\* What is admitted and logged out is at the end of its life.
LEMMA AdmittedLate ==
    ASSUME Inv, NEW c \in Credentials, NEW trusted \in BOOLEAN, NEW at \in Times,
           Admits(c, trusted, at), Presented(c, at) \in loggedOut
    PROVE  LET end == 2 * issued[Presented(c, at)].exp
           IN  at.first < end /\ end < at.last
<1>1. /\ at.first = now /\ at.last \in now .. MaxTime /\ now \in Nat /\ MaxTime \in Nat
      /\ \A r \in 1 .. 4 : Reading(r, at) \in {at.first, at.last}
      /\ Reading(1, at) <= Reading(2, at) /\ Reading(3, at) <= Reading(4, at)
  BY Readings DEF Inv, TokensTyped
<1>2. PICK r \in {1, 3} : Accepted(Presented(c, at), Reading(r, at), Reading(r + 1, at))
  BY DEF Admits, Presented, ByBearer, ByCookie
<1>3. /\ Reading(r, at) \in Nat /\ Reading(r + 1, at) \in Nat
      /\ now <= Reading(r, at) /\ Reading(r, at) <= Reading(r + 1, at)
      /\ Reading(r + 1, at) <= at.last
  BY <1>1, <1>2
<1>4. /\ Reading(r, at) < 2 * issued[Presented(c, at)].exp
      /\ 2 * issued[Presented(c, at)].exp < Reading(r + 1, at)
  BY <1>2, <1>3, AcceptedLate
<1>5. issued[Presented(c, at)].exp \in Nat
  BY DEF Inv, RowsKept, TokensTyped
<1>6. QED
  BY <1>1, <1>3, <1>4, <1>5
-----------------------------------------------------------------------------
(***************************************************************************)
(* The audit.                                                              *)
(***************************************************************************)

\* Two lines of a place are a window apart.
LinesApart ==
    \A p \in Places : p \in DOMAIN lines /\ p \in DOMAIN lines' =>
        lines'[p] = lines[p] \/ lines'[p] - lines[p] >= AuditWindow

\* A rejection adds a line only a window after the last one of its place, and what
\* it drops from the deduplication is a window old.
LEMMA RejectionKeeps ==
    ASSUME TokensTyped, LinesKept, NEW p \in Places, now' \in now .. MaxTime,
           RecordRejection(p, now'),
           outcome' = [kind |-> "rejected", place |-> p, at |-> now']
    PROVE  LinesKept' /\ LinesApart
<1>1. now \in Nat /\ now' \in Nat /\ now <= now' /\ AuditWindow \in Nat \ {0}
  BY DEF TokensTyped
<1>2. outcome'.kind = "rejected" /\ outcome'.place = p /\ outcome'.at = now'
  OBVIOUS
<1>3. CASE Audits(p, now')
  <2> DEFINE put == Put(lastLogged, p, now')
  <2>1. lastLogged' = Fresh(put, now') /\ lines' = Put(lines, p, now')
    BY <1>3 DEF RecordRejection, Stamped
  <2>2. /\ DOMAIN lines' = DOMAIN lines \cup {p}
        /\ lines'[p] = now'
        /\ \A r \in DOMAIN lines \ {p} : lines'[r] = lines[r]
    BY <2>1 DEF Put
  <2>3. /\ DOMAIN put = DOMAIN lastLogged \cup {p}
        /\ put[p] = now'
        /\ \A r \in DOMAIN lastLogged \ {p} : put[r] = lastLogged[r]
    BY DEF Put
  <2> HIDE DEF put
  <2>4. /\ DOMAIN lastLogged' \subseteq DOMAIN put
        /\ \A r \in DOMAIN lastLogged' : lastLogged'[r] = put[r]
        /\ \A r \in DOMAIN put : r \in DOMAIN lastLogged' \/ ~(put[r] + AuditWindow >= now')
    BY <2>1, RestrictFacts DEF Fresh
  <2>5. \A r \in DOMAIN lastLogged' : r \in DOMAIN lines' /\ lines'[r] = lastLogged'[r]
    BY <2>2, <2>3, <2>4 DEF LinesKept
  <2>6. ASSUME NEW r \in DOMAIN lines'
        PROVE  /\ lines'[r] \in 0 .. now'
               /\ r \in DOMAIN lastLogged' \/ lines'[r] + AuditWindow < now'
    <3>1. CASE r = p
      BY <1>1, <2>2, <2>3, <2>4, <3>1
    <3>2. CASE r # p
      <4>1. r \in DOMAIN lines /\ lines'[r] = lines[r] /\ lines[r] \in 0 .. now
        BY <2>2, <2>6, <3>2 DEF LinesKept
      <4>2. CASE r \in DOMAIN lastLogged
        <5>1. r \in DOMAIN put /\ put[r] = lines[r]
          BY <2>3, <3>2, <4>2 DEF LinesKept
        <5>2. QED
          BY <1>1, <2>4, <4>1, <5>1
      <4>3. CASE r \notin DOMAIN lastLogged
        <5>1. lines[r] + AuditWindow < now
          BY <4>1, <4>3 DEF LinesKept
        <5>2. QED
          BY <1>1, <4>1, <5>1
      <4>4. QED
        BY <4>2, <4>3
    <3>3. QED
      BY <3>1, <3>2
  <2>7. outcome'.place \in DOMAIN lines' /\ outcome'.at - lines'[outcome'.place] < AuditWindow
    BY <1>1, <1>2, <2>2
  <2>8. LinesApart
    <3>1. ASSUME p \in DOMAIN lines
          PROVE  now' - lines[p] >= AuditWindow
      <4>1. lines[p] \in Nat
        BY <1>1, <3>1 DEF LinesKept
      <4>2. CASE p \in DOMAIN lastLogged
        BY <1>1, <1>3, <4>1, <4>2 DEF LinesKept, Audits
      <4>3. CASE p \notin DOMAIN lastLogged
        BY <1>1, <3>1, <4>1, <4>3 DEF LinesKept
      <4>4. QED
        BY <4>2, <4>3
    <3>2. QED
      BY <2>2, <3>1 DEF LinesApart
  <2>9. QED
    BY <2>5, <2>6, <2>7, <2>8 DEF LinesKept
<1>4. CASE ~Audits(p, now')
  <2>1. lastLogged' = lastLogged /\ lines' = lines
    BY <1>4 DEF RecordRejection, Stamped
  <2>2. p \in DOMAIN lastLogged /\ ~(now' - lastLogged[p] >= AuditWindow)
    BY <1>4 DEF Audits
  <2>3. p \in DOMAIN lines /\ lines[p] = lastLogged[p] /\ lines[p] \in Nat
    BY <1>1, <2>2 DEF LinesKept
  <2>4. outcome'.place \in DOMAIN lines' /\ outcome'.at - lines'[outcome'.place] < AuditWindow
    BY <1>1, <1>2, <2>1, <2>2, <2>3
  <2>5. \A r \in DOMAIN lines' :
           /\ lines'[r] \in 0 .. now'
           /\ r \in DOMAIN lastLogged' \/ lines'[r] + AuditWindow < now'
    BY <1>1, <2>1 DEF LinesKept
  <2>6. QED
    BY <2>1, <2>4, <2>5 DEF LinesKept, LinesApart
<1>5. QED
  BY <1>3, <1>4

\* Nothing is logged.
LEMMA LinesStay ==
    ASSUME TokensTyped, LinesKept, now' \in now .. MaxTime,
           UNCHANGED <<lastLogged, lines>>,
           outcome' = outcome \/ outcome'.kind # "rejected"
    PROVE  LinesKept' /\ LinesApart
<1>1. now \in Nat /\ now' \in Nat /\ now <= now'
  BY DEF TokensTyped
<1>2. \A r \in DOMAIN lines' :
         /\ lines'[r] \in 0 .. now'
         /\ r \in DOMAIN lastLogged' \/ lines'[r] + AuditWindow < now'
  BY <1>1 DEF LinesKept
<1>3. QED
  BY <1>2 DEF LinesKept, LinesApart
-----------------------------------------------------------------------------
(***************************************************************************)
(* Each action keeps the invariant, and the lines of a place apart.        *)
(***************************************************************************)

\* Rows last while the clock goes on.
LEMMA RowsStay ==
    ASSUME TokensTyped, RowsKept, now' \in now .. MaxTime,
           UNCHANGED <<issued, revoked, loggedOut>>
    PROVE  TokensTyped' /\ RowsKept'
<1>1. now \in Nat /\ now' \in Nat /\ now <= now' /\ now' \in 0 .. MaxTime
  BY DEF TokensTyped
<1>2. \A j \in DOMAIN issued : issued[j].exp \in Nat
  BY DEF TokensTyped
<1>3. TokensTyped'
  BY <1>1, <1>2 DEF TokensTyped
<1>4. \A j \in loggedOut : j \in DOMAIN revoked \/ 2 * issued[j].exp < now'
  BY <1>1, <1>2 DEF RowsKept
<1>5. QED
  BY <1>3, <1>4 DEF RowsKept

LEMMA SameAnswer ==
    ASSUME Inv, now' \in now .. MaxTime,
           UNCHANGED <<issued, revoked, loggedOut, lastLogged, lines, outcome>>
    PROVE  Inv' /\ LinesApart
<1>1. TokensTyped' /\ RowsKept' /\ LinesKept' /\ LinesApart
  BY RowsStay, LinesStay DEF Inv
<1>2. RevokedStaysOut'
  BY DEF Inv, RevokedStaysOut
<1>3. QED
  BY <1>1, <1>2 DEF Inv

\* A request ends when it began, or later.
LEMMA Moments ==
    ASSUME TokensTyped
    PROVE  Later \subseteq now .. MaxTime /\ now \in now .. MaxTime
  BY DEF TokensTyped, Later

\* A login issues a token that nobody has; it revokes and audits nothing.
LEMMA LoginKeeps ==
    ASSUME Inv, NEW h \in Hosts, NEW n \in Names, NEW right \in BOOLEAN, Login(h, n, right)
    PROVE  Inv' /\ LinesApart
<1>1. TokensTyped /\ RowsKept /\ LinesKept
  BY DEF Inv
<1>2. UNCHANGED <<revoked, lastLogged, loggedOut, lines>>
  BY DEF Login
<1>3. now' \in now .. MaxTime
  <2>1. now' = now \/ now' \in Later
    BY DEF Login
  <2>2. QED
    BY <1>1, <2>1, Moments
<1>4. outcome'.kind \notin {"admitted", "rejected"}
  <2>1. PICK answer \in {"limited", "refused", "signed in"} : outcome' = [kind |-> answer]
    BY DEF Login
  <2>2. QED
    BY <2>1
<1>5. LinesKept' /\ LinesApart
  BY <1>1, <1>2, <1>3, <1>4, LinesStay
<1>6. RevokedStaysOut'
  BY <1>4 DEF RevokedStaysOut
<1>7. CASE UNCHANGED issued
  BY <1>1, <1>2, <1>3, <1>5, <1>6, <1>7, RowsStay DEF Inv
<1>8. CASE ~UNCHANGED issued
  <2>1. PICK j \in Jtis \ DOMAIN issued : issued' = Put(issued, j, Token(n, now'))
    BY <1>8 DEF Login
  <2>2. now' \in 0 .. MaxTime /\ now \in Nat /\ now' \in Nat /\ now <= now'
    BY <1>1, <1>3 DEF TokensTyped
  <2>3. /\ DOMAIN issued' = DOMAIN issued \cup {j}
        /\ issued'[j] = Token(n, now')
        /\ \A i \in DOMAIN issued : issued'[i] = issued[i]
    BY <2>1 DEF Put
  <2>4. Token(n, now').exp \in Nat
    <3>1. \A t \in Nat : t \div 2 \in Nat
      OBVIOUS
    <3>2. now' \div 2 \in Nat /\ TTL \in Nat
      BY <2>2, <3>1
    <3>3. QED
      BY <3>2 DEF Token, Seconds
  <2>5. TokensTyped'
    BY <1>1, <2>2, <2>3, <2>4 DEF TokensTyped
  <2>6. RowsKept'
    <3>1. \A i \in loggedOut : i \in DOMAIN revoked \/ 2 * issued[i].exp < now'
      BY <1>1, <2>2 DEF RowsKept, TokensTyped
    <3>2. QED
      BY <1>1, <1>2, <2>3, <3>1 DEF RowsKept
  <2>7. QED
    BY <1>5, <1>6, <2>5, <2>6 DEF Inv
<1>9. QED
  BY <1>7, <1>8

\* A refused request is audited, unless its origin is the reason.
LEMMA RefusalKeeps ==
    ASSUME TokensTyped, LinesKept, NEW c, NEW trusted, NEW at, now' \in now .. MaxTime,
           Refusal(c, trusted, at)
    PROVE  LinesKept' /\ LinesApart /\ RevokedStaysOut'
<1>1. CASE outcome' = [kind |-> "bad origin"] /\ UNCHANGED <<lastLogged, lines>>
  BY <1>1, LinesStay DEF RevokedStaysOut
<1>2. CASE \E p \in Places :
              /\ outcome' = [kind |-> "rejected", place |-> p, at |-> now']
              /\ RecordRejection(p, now')
  <2>1. PICK p \in Places :
              /\ outcome' = [kind |-> "rejected", place |-> p, at |-> now']
              /\ RecordRejection(p, now')
    BY <1>2
  <2>2. LinesKept' /\ LinesApart
    BY <2>1, RejectionKeeps
  <2>3. RevokedStaysOut'
    BY <2>1 DEF RevokedStaysOut
  <2>4. QED
    BY <2>2, <2>3
<1>3. QED
  BY <1>1, <1>2 DEF Refusal

\* What a request accepts has no row, so it was not logged out, or its time is up.
LEMMA AccessKeeps ==
    ASSUME Inv, NEW c \in Credentials, NEW trusted \in BOOLEAN, NEW at \in Times,
           Access(c, trusted, at)
    PROVE  Inv' /\ LinesApart
<1>1. TokensTyped /\ RowsKept /\ LinesKept
  BY DEF Inv
<1>2. now' = at.last /\ now' \in now .. MaxTime
  BY <1>1, Readings DEF Access
<1>3. UNCHANGED <<issued, revoked, loggedOut>>
  BY DEF Access, database
<1>4. TokensTyped' /\ RowsKept'
  BY <1>1, <1>2, <1>3, RowsStay
<1>5. CASE Admits(c, trusted, at)
  <2>1. /\ outcome' = [kind |-> "admitted", token |-> Presented(c, at),
                       from |-> at.first, at |-> at.last]
        /\ UNCHANGED <<lastLogged, lines>>
    BY <1>5 DEF Access
  <2>2. LinesKept' /\ LinesApart
    BY <1>1, <1>2, <2>1, LinesStay
  <2>3. RevokedStaysOut'
    <3>1. /\ outcome'.token = Presented(c, at)
          /\ outcome'.from = at.first /\ outcome'.at = at.last
      BY <2>1
    <3>2. Presented(c, at) \in loggedOut =>
             /\ at.first < 2 * issued[Presented(c, at)].exp
             /\ 2 * issued[Presented(c, at)].exp < at.last
      BY <1>5, AdmittedLate
    <3>3. QED
      BY <1>3, <3>1, <3>2 DEF RevokedStaysOut
  <2>4. QED
    BY <1>4, <2>2, <2>3 DEF Inv
<1>6. CASE ~Admits(c, trusted, at)
  <2>1. Refusal(c, trusted, at)
    BY <1>6 DEF Access
  <2>2. QED
    BY <1>1, <1>2, <1>4, <2>1, RefusalKeeps DEF Inv
<1>7. QED
  BY <1>5, <1>6

\* A logout puts the row there, and purges rows of tokens that nobody accepts.
LEMMA LogoutKeeps ==
    ASSUME Inv, NEW c \in Credentials, NEW trusted \in BOOLEAN, NEW at \in Times,
           Logout(c, trusted, at)
    PROVE  Inv' /\ LinesApart
<1>1. TokensTyped /\ RowsKept /\ LinesKept
  BY DEF Inv
<1>2. now' = at.last /\ now' \in now .. MaxTime /\ issued' = issued
  BY <1>1, Readings DEF Logout
<1>3. CASE Admits(c, trusted, at)
  <2>1. PICK j : j = Presented(c, at)
    OBVIOUS
  <2>2. /\ revoked' = Put(Restrict(revoked, Unexpired(now')), j, issued[j].exp)
        /\ loggedOut' = loggedOut \cup {j}
        /\ outcome' = [kind |-> "signed out"]
        /\ UNCHANGED <<lastLogged, lines>>
    BY <1>3, <2>1 DEF Logout, Revoke
  <2>3. j \in DOMAIN issued
    BY <1>3, <2>1 DEF Admits, Presented, ByBearer, ByCookie, Accepted
  <2>4. /\ DOMAIN revoked' = Unexpired(now') \cup {j}
        /\ revoked'[j] = issued[j].exp
        /\ \A i \in Unexpired(now') \ {j} : revoked'[i] = revoked[i]
    BY <2>2 DEF Put, Restrict
  <2>5. now \in Nat /\ now' \in Nat /\ now <= now' /\ now' \in 0 .. MaxTime
    BY <1>1, <1>2 DEF TokensTyped
  <2>6. TokensTyped'
    BY <1>1, <1>2, <2>5 DEF TokensTyped
  <2>7. \A i \in loggedOut : i \in Unexpired(now') \/ 2 * issued[i].exp < now'
    BY <1>1, <2>5 DEF RowsKept, TokensTyped, Unexpired
  <2>8. RowsKept'
    BY <1>1, <1>2, <2>2, <2>3, <2>4, <2>7 DEF RowsKept, Unexpired
  <2>9. LinesKept' /\ LinesApart
    BY <1>1, <1>2, <2>2, LinesStay
  <2>10. RevokedStaysOut'
    BY <2>2 DEF RevokedStaysOut
  <2>11. QED
    BY <2>6, <2>8, <2>9, <2>10 DEF Inv
<1>4. CASE ~Admits(c, trusted, at)
  <2>1. Refusal(c, trusted, at) /\ UNCHANGED <<revoked, loggedOut>>
    BY <1>4 DEF Logout
  <2>2. TokensTyped' /\ RowsKept'
    BY <1>1, <1>2, <2>1, RowsStay
  <2>3. QED
    BY <1>1, <1>2, <2>1, <2>2, RefusalKeeps DEF Inv
<1>5. QED
  BY <1>3, <1>4

\* A restart forgets which lines were written, and the log begins anew.
LEMMA RestartKeeps ==
    ASSUME Inv, Restart
    PROVE  Inv' /\ LinesApart
<1>1. /\ now' = now /\ UNCHANGED <<issued, revoked, loggedOut>>
      /\ lastLogged' = Empty /\ lines' = Empty /\ outcome' = [kind |-> "none"]
  BY DEF Restart, database
<1>2. TokensTyped' /\ RowsKept'
  BY <1>1, RowsStay, Moments DEF Inv
<1>3. LinesKept' /\ LinesApart /\ RevokedStaysOut'
  BY <1>1 DEF LinesKept, LinesApart, Empty, RevokedStaysOut
<1>4. QED
  BY <1>2, <1>3 DEF Inv

LEMMA NextKeeps ==
    ASSUME Inv, [Next]_vars
    PROVE  Inv' /\ LinesApart
<1>1. now \in Nat /\ MaxTime \in Nat /\ now <= MaxTime /\ now \in now .. MaxTime
  BY DEF Inv, TokensTyped
<1>2. ASSUME NEW h \in Hosts, NEW n \in Names, NEW right \in BOOLEAN, Login(h, n, right)
      PROVE  Inv' /\ LinesApart
  BY <1>2, LoginKeeps
<1>3. ASSUME NEW c \in Credentials, NEW trusted \in BOOLEAN, NEW at \in Times,
             Access(c, trusted, at) \/ Logout(c, trusted, at)
      PROVE  Inv' /\ LinesApart
  BY <1>3, AccessKeeps, LogoutKeeps
<1>4. ASSUME NEW n \in Names, CreateUser(n) \/ SwitchAccount(n)
      PROVE  Inv' /\ LinesApart
  BY <1>1, <1>4, SameAnswer DEF CreateUser, SwitchAccount, memory, history
<1>5. CASE Tick
  BY <1>1, <1>5, SameAnswer DEF Tick, database, memory
<1>6. CASE Restart
  BY <1>6, RestartKeeps
<1>7. CASE UNCHANGED vars
  BY <1>1, <1>7, SameAnswer DEF vars, database, memory, history
<1>8. QED
  BY <1>2, <1>3, <1>4, <1>5, <1>6, <1>7 DEF Next, Call
-----------------------------------------------------------------------------
(***************************************************************************)
(* What Within keeps.                                                      *)
(***************************************************************************)

\* One more time is kept or left out.
Extended(kept, time, t) == IF t - time < LoginWindow THEN Append(kept, time) ELSE kept

\* k is the function that Within defines, on the first n of the times.
Keeps(k, times, t, n) ==
    k = [i \in 0 .. n |-> IF i = 0 THEN << >> ELSE Extended(k[i - 1], times[i], t)]

\* Keeps, as the equations of a recursion.
LEMMA KeepsGives ==
    \A k, times, t : \A n \in Nat :
       Keeps(k, times, t, n) =>
          /\ k[0] = << >>
          /\ \A i \in 1 .. n : k[i] = Extended(k[i - 1], times[i], t)
<1>1. ASSUME NEW k, NEW times, NEW t, NEW n \in Nat, Keeps(k, times, t, n)
      PROVE  /\ k[0] = << >>
             /\ \A i \in 1 .. n : k[i] = Extended(k[i - 1], times[i], t)
  <2>1. \A i \in 0 .. n : k[i] = IF i = 0 THEN << >> ELSE Extended(k[i - 1], times[i], t)
    BY <1>1 DEF Keeps
  <2>2. QED
    BY <2>1
<1>2. QED
  BY <1>1

\* A function that satisfies the equations is the one Keeps speaks of.
LEMMA KeepsIf ==
    ASSUME NEW times, NEW t, NEW n \in Nat, NEW k,
           k = [i \in 0 .. n |-> k[i]],
           k[0] = << >>,
           \A i \in 1 .. n : k[i] = Extended(k[i - 1], times[i], t)
    PROVE  Keeps(k, times, t, n)
<1>1. \A i \in 0 .. n : k[i] = IF i = 0 THEN << >> ELSE Extended(k[i - 1], times[i], t)
  BY SMTT(30)
<1>2. [i \in 0 .. n |-> k[i]]
         = [i \in 0 .. n |-> IF i = 0 THEN << >> ELSE Extended(k[i - 1], times[i], t)]
  BY <1>1
<1>3. QED
  BY <1>2 DEF Keeps

\* There is such a function for every length: one more value extends it.
LEMMA KeepsExists ==
    ASSUME NEW times, NEW t
    PROVE  \A n \in Nat : \E k : Keeps(k, times, t, n)
<1> DEFINE S == {n \in Nat : \E k : Keeps(k, times, t, n)}
<1>1. 0 \in S
  <2> DEFINE k == [i \in 0 .. 0 |-> << >>]
  <2>1. k = [i \in 0 .. 0 |-> k[i]] /\ k[0] = << >>
    OBVIOUS
  <2> HIDE DEF k
  <2>2. \A i \in 1 .. 0 : k[i] = Extended(k[i - 1], times[i], t)
    OBVIOUS
  <2>3. Keeps(k, times, t, 0)
    BY <2>1, <2>2, KeepsIf
  <2>4. QED
    BY <2>3
<1>2. ASSUME NEW n \in Nat, n \in S
      PROVE  n + 1 \in S
  <2>1. PICK k : Keeps(k, times, t, n)
    BY <1>2
  <2> DEFINE l == [i \in 0 .. n + 1 |-> IF i = n + 1 THEN Extended(k[n], times[n + 1], t)
                                        ELSE k[i]]
  <2>2. /\ k[0] = << >>
        /\ \A i \in 1 .. n : k[i] = Extended(k[i - 1], times[i], t)
    BY <2>1, KeepsGives
  <2>3. /\ l = [i \in 0 .. n + 1 |-> l[i]]
        /\ l[n + 1] = Extended(k[n], times[n + 1], t)
        /\ \A i \in 0 .. n : l[i] = k[i]
    OBVIOUS
  <2> HIDE DEF l
  <2>4. l[0] = << >> /\ \A i \in 1 .. n + 1 : l[i] = Extended(l[i - 1], times[i], t)
    <3>1. ASSUME NEW i \in 1 .. n + 1
          PROVE  l[i] = Extended(l[i - 1], times[i], t)
      <4>1. CASE i = n + 1
        <5>1. i - 1 = n /\ n \in 0 .. n
          BY <4>1
        <5>2. l[n] = k[n]
          BY <2>3, <5>1
        <5>3. QED
          BY <2>3, <4>1, <5>1, <5>2
      <4>2. CASE i \in 1 .. n
        <5>1. i \in 0 .. n /\ i - 1 \in 0 .. n
          BY <4>2
        <5>2. l[i] = k[i] /\ l[i - 1] = k[i - 1]
          BY <2>3, <5>1
        <5>3. QED
          BY <2>2, <4>2, <5>2
      <4>3. QED
        BY <4>1, <4>2
    <3>2. 0 \in 0 .. n
      OBVIOUS
    <3>3. l[0] = << >>
      BY <2>2, <2>3, <3>2
    <3>4. QED
      BY <3>1, <3>3
  <2>5. Keeps(l, times, t, n + 1)
    <3>1. n + 1 \in Nat
      OBVIOUS
    <3>2. QED
      BY <2>3, <2>4, <3>1, KeepsIf
  <2>6. QED
    BY <2>5
<1> HIDE DEF S
<1>3. Nat \subseteq S
  BY <1>1, <1>2, NumberInduction
<1>4. QED
  BY <1>3 DEF S

\* Two of them agree where their times do.
LEMMA KeepsUnique ==
    \A k, l, a, b, t : \A n, m \in Nat :
       /\ Keeps(k, a, t, n) /\ Keeps(l, b, t, m) /\ n <= m
       /\ \A i \in 1 .. n : a[i] = b[i]
       => \A i \in 0 .. n : k[i] = l[i]
<1>1. ASSUME NEW k, NEW l, NEW a, NEW b, NEW t, NEW n \in Nat, NEW m \in Nat,
             Keeps(k, a, t, n), Keeps(l, b, t, m), n <= m,
             \A i \in 1 .. n : a[i] = b[i]
      PROVE  \A i \in 0 .. n : k[i] = l[i]
  <2> DEFINE S == {i \in Nat : i <= n => k[i] = l[i]}
  <2>1. /\ k[0] = << >> /\ \A i \in 1 .. n : k[i] = Extended(k[i - 1], a[i], t)
        /\ l[0] = << >> /\ \A i \in 1 .. m : l[i] = Extended(l[i - 1], b[i], t)
    <3>1. k[0] = << >> /\ \A i \in 1 .. n : k[i] = Extended(k[i - 1], a[i], t)
      BY <1>1, KeepsGives
    <3>2. l[0] = << >> /\ \A i \in 1 .. m : l[i] = Extended(l[i - 1], b[i], t)
      BY <1>1, KeepsGives
    <3>3. QED
      BY <3>1, <3>2
  <2>2. 0 \in S
    BY <2>1
  <2>3. ASSUME NEW i \in Nat, i \in S
        PROVE  i + 1 \in S
    <3>1. SUFFICES ASSUME i + 1 <= n
                   PROVE  k[i + 1] = l[i + 1]
      OBVIOUS
    <3>2. i + 1 \in 1 .. n /\ i + 1 \in 1 .. m /\ (i + 1) - 1 = i /\ k[i] = l[i]
      BY <1>1, <2>3, <3>1
    <3>3. k[i + 1] = Extended(k[i], a[i + 1], t) /\ l[i + 1] = Extended(l[i], b[i + 1], t)
      BY <2>1, <3>2
    <3>4. QED
      BY <1>1, <3>2, <3>3
  <2> HIDE DEF S
  <2>4. Nat \subseteq S
    BY <2>2, <2>3, NumberInduction
  <2>5. QED
    BY <2>4 DEF S
<1>2. QED
  BY <1>1

\* Within is the last value of one of them.
LEMMA WithinKeeps ==
    ASSUME NEW times \in Seq(Nat), NEW t
    PROVE  \E k : Keeps(k, times, t, Len(times)) /\ Within(times, t) = k[Len(times)]
<1>1. \E k : Keeps(k, times, t, Len(times))
  <2>1. Len(times) \in Nat
    OBVIOUS
  <2>2. QED
    BY <2>1, KeepsExists
<1> DEFINE kept == CHOOSE k : Keeps(k, times, t, Len(times))
<1>2. Keeps(kept, times, t, Len(times))
  BY <1>1
<1>3. Within(times, t) = kept[Len(times)]
  BY DEF Within, Keeps, Extended
<1>4. QED
  BY <1>2, <1>3

\* What Within computes, time by time.
LEMMA WithinFacts ==
    ASSUME NEW t
    PROVE  /\ Within(<< >>, t) = << >>
           /\ \A s \in Seq(Nat), x \in Nat :
                 Within(Append(s, x), t) = Extended(Within(s, t), x, t)
<1>1. Within(<< >>, t) = << >>
  <2>1. << >> \in Seq(Nat) /\ Len(<< >>) = 0
    OBVIOUS
  <2>2. PICK k : Keeps(k, << >>, t, 0) /\ Within(<< >>, t) = k[0]
    BY <2>1, WithinKeeps
  <2>3. 0 \in Nat
    OBVIOUS
  <2>4. k[0] = << >>
    BY <2>2, <2>3, KeepsGives
  <2>5. QED
    BY <2>2, <2>4
<1>2. ASSUME NEW s \in Seq(Nat), NEW x \in Nat
      PROVE  Within(Append(s, x), t) = Extended(Within(s, t), x, t)
  <2> DEFINE n == Len(s)
             r == Append(s, x)
  <2>1. /\ n \in Nat /\ r \in Seq(Nat) /\ Len(r) = n + 1 /\ r[n + 1] = x
        /\ \A i \in 1 .. n : s[i] = r[i]
    OBVIOUS
  <2>2. PICK k : Keeps(k, s, t, n) /\ Within(s, t) = k[n]
    BY WithinKeeps
  <2> HIDE DEF r
  <2>3. PICK l : Keeps(l, r, t, n + 1) /\ Within(r, t) = l[n + 1]
    BY <2>1, WithinKeeps
  <2> HIDE DEF n
  <2>4. k[n] = l[n]
    <3>1. n + 1 \in Nat /\ n <= n + 1 /\ n \in 0 .. n
      BY <2>1
    <3>2. Keeps(k, s, t, n) /\ Keeps(l, r, t, n + 1)
      BY <2>2, <2>3
    <3>3. \A i \in 0 .. n : k[i] = l[i]
      <4> HIDE DEF Keeps
      <4>1. n \in Nat /\ \A i \in 1 .. n : s[i] = r[i]
        BY <2>1
      <4>2. PICK m \in Nat : m = n + 1
        BY <3>1
      <4>3. Keeps(l, r, t, m) /\ n <= m
        BY <3>1, <3>2, <4>2
      <4>4. /\ Keeps(k, s, t, n) /\ Keeps(l, r, t, m) /\ n <= m
            /\ \A i \in 1 .. n : s[i] = r[i]
        BY <3>2, <4>1, <4>3
      <4>5. QED
        BY <4>1, <4>4, KeepsUnique, SMTT(30)
    <3>4. QED
      BY <3>1, <3>3
  <2>5. l[n + 1] = Extended(l[n], r[n + 1], t)
    <3>1. n + 1 \in Nat /\ n + 1 \in 1 .. n + 1 /\ (n + 1) - 1 = n
      BY <2>1
    <3>2. \A i \in 1 .. n + 1 : l[i] = Extended(l[i - 1], r[i], t)
      BY <2>3, <3>1, KeepsGives
    <3>3. QED
      BY <3>1, <3>2
  <2>6. QED
    BY <2>1, <2>2, <2>3, <2>4, <2>5 DEF r
<1>3. QED
  BY <1>1, <1>2

Sorted(s) == \A i, j \in 1 .. Len(s) : i <= j => s[i] <= s[j]
Below(s, t) == \A i \in 1 .. Len(s) : s[i] <= t

LEMMA AppendFacts ==
    ASSUME NEW s \in Seq(Nat), NEW x \in Nat
    PROVE  /\ Append(s, x) \in Seq(Nat)
           /\ Len(Append(s, x)) = Len(s) + 1 /\ Len(s) \in Nat
           /\ Append(s, x)[Len(s) + 1] = x
           /\ \A i \in 1 .. Len(s) : Append(s, x)[i] = s[i]
  OBVIOUS

\* A sequence stays sorted when a time is added that is not before the last.
LEMMA AppendOrder ==
    ASSUME NEW s \in Seq(Nat), NEW x \in Nat
    PROVE  /\ \A u : Below(Append(s, x), u) <=> Below(s, u) /\ x <= u
           /\ Sorted(Append(s, x)) <=> Sorted(s) /\ Below(s, x)
<1> DEFINE r == Append(s, x)
           n == Len(s)
<1>1. /\ n \in Nat /\ Len(r) = n + 1 /\ r[n + 1] = x
      /\ \A i \in 1 .. n : r[i] = s[i] /\ s[i] \in Nat
      /\ Len(s) = n
  BY AppendFacts, SMTT(30)
<1> HIDE DEF r, n
<1>2. /\ 1 .. n + 1 = 1 .. n \cup {n + 1}
      /\ \A i \in 1 .. n : ~(n + 1 <= i) /\ i <= n + 1
      /\ n + 1 <= n + 1
  BY <1>1
<1>3. ASSUME NEW u
      PROVE  Below(r, u) <=> Below(s, u) /\ x <= u
  <2>1. Below(r, u) <=> \A i \in 1 .. n \cup {n + 1} : r[i] <= u
    BY <1>1, <1>2 DEF Below
  <2>2. Below(s, u) <=> \A i \in 1 .. n : s[i] <= u
    BY <1>1 DEF Below
  <2>3. QED
    BY <1>1, <2>1, <2>2
<1>4. Sorted(r) <=> Sorted(s) /\ Below(s, x)
  <2>1. Sorted(r) <=> \A i, j \in 1 .. n \cup {n + 1} : i <= j => r[i] <= r[j]
    BY <1>1, <1>2 DEF Sorted
  <2>2. Sorted(s) <=> \A i, j \in 1 .. n : i <= j => s[i] <= s[j]
    BY <1>1 DEF Sorted
  <2>3. Below(s, x) <=> \A i \in 1 .. n : s[i] <= x
    BY <1>1 DEF Below
  <2>4. Sorted(r) => Sorted(s) /\ Below(s, x)
    BY <1>1, <1>2, <2>1, <2>2, <2>3
  <2>5. ASSUME Sorted(s), Below(s, x), NEW i \in 1 .. n \cup {n + 1},
               NEW j \in 1 .. n \cup {n + 1}, i <= j
        PROVE  r[i] <= r[j]
    BY <1>1, <1>2, <2>2, <2>3, <2>5
  <2>6. QED
    BY <2>1, <2>4, <2>5
<1>5. QED
  BY <1>3, <1>4 DEF r

\* Within leaves out times, and adds none.
LEMMA WithinShorter ==
    ASSUME NEW t
    PROVE  \A s \in Seq(Nat) : Within(s, t) \in Seq(Nat) /\ Len(Within(s, t)) <= Len(s)
<1> DEFINE S == {s \in Seq(Nat) : Within(s, t) \in Seq(Nat) /\ Len(Within(s, t)) <= Len(s)}
<1>1. << >> \in S
  <2>1. Within(<< >>, t) = << >>
    BY WithinFacts
  <2>2. << >> \in Seq(Nat) /\ Len(<< >>) = 0 /\ 0 <= 0
    OBVIOUS
  <2>3. QED
    BY <2>1, <2>2
<1>2. ASSUME NEW s \in Seq(Nat), NEW x \in Nat, s \in S
      PROVE  Append(s, x) \in S
  <2>1. PICK w \in Seq(Nat) : w = Within(s, t) /\ Len(w) <= Len(s)
    BY <1>2
  <2>2. Within(Append(s, x), t) \in {w, Append(w, x)}
    BY <2>1, WithinFacts DEF Extended
  <2>3. /\ Append(w, x) \in Seq(Nat) /\ Append(s, x) \in Seq(Nat)
        /\ Len(Append(w, x)) = Len(w) + 1 /\ Len(Append(s, x)) = Len(s) + 1
        /\ Len(w) \in Nat /\ Len(s) \in Nat
    BY AppendFacts
  <2>4. Len(w) <= Len(s) + 1 /\ Len(w) + 1 <= Len(s) + 1
    BY <2>1, <2>3
  <2>5. PICK v \in Seq(Nat) : v = Within(Append(s, x), t) /\ Len(v) <= Len(s) + 1
    BY <2>1, <2>2, <2>3, <2>4
  <2>6. QED
    BY <2>3, <2>5
<1> HIDE DEF S
<1>3. Seq(Nat) \subseteq S
  BY <1>1, <1>2, SequenceInduction
<1>4. QED
  BY <1>3 DEF S

\* What is outside the window stays outside.
LEMMA WithinTwice ==
    ASSUME NEW t \in Nat, NEW u \in Nat, t <= u
    PROVE  \A s \in Seq(Nat) : Within(Within(s, t), u) = Within(s, u)
<1> DEFINE S == {s \in Seq(Nat) : Within(Within(s, t), u) = Within(s, u)}
<1>1. << >> \in S
  <2>1. Within(<< >>, t) = << >> /\ Within(<< >>, u) = << >>
    BY WithinFacts
  <2>2. QED
    BY <2>1
<1>2. ASSUME NEW s \in Seq(Nat), NEW x \in Nat, s \in S
      PROVE  Append(s, x) \in S
  <2>1. PICK w \in Seq(Nat) : w = Within(s, t) /\ Within(w, u) = Within(s, u)
    BY <1>2, WithinShorter
  <2>2. /\ Within(Append(s, x), t) = Extended(w, x, t)
        /\ Within(Append(s, x), u) = Extended(Within(w, u), x, u)
        /\ Within(Append(w, x), u) = Extended(Within(w, u), x, u)
    <3>1. /\ Within(Append(s, x), t) = Extended(Within(s, t), x, t)
          /\ Within(Append(s, x), u) = Extended(Within(s, u), x, u)
      BY WithinFacts
    <3>2. Within(Append(w, x), u) = Extended(Within(w, u), x, u)
      BY WithinFacts
    <3>3. QED
      BY <2>1, <3>1, <3>2
  <2>3. Append(s, x) \in Seq(Nat)
    BY AppendFacts
  <2>4. CASE t - x < LoginWindow
    <3>1. Extended(w, x, t) = Append(w, x)
      BY <2>4 DEF Extended
    <3>2. QED
      BY <2>2, <2>3, <3>1
  <2>5. CASE ~(t - x < LoginWindow)
    <3>1. ~(u - x < LoginWindow)
      BY <2>5, SMTT(30)
    <3>2. Extended(w, x, t) = w /\ Extended(Within(w, u), x, u) = Within(w, u)
      BY <2>5, <3>1 DEF Extended
    <3>3. QED
      BY <2>1, <2>2, <2>3, <3>2
  <2>6. QED
    BY <2>4, <2>5
<1> HIDE DEF S
<1>3. Seq(Nat) \subseteq S
  BY <1>1, <1>2, SequenceInduction
<1>4. QED
  BY <1>3 DEF S

\* What is left is bounded and sorted as before.
LEMMA WithinOrder ==
    ASSUME NEW t
    PROVE  /\ \A s \in Seq(Nat), u \in Nat : Below(s, u) => Below(Within(s, t), u)
           /\ \A s \in Seq(Nat) : Sorted(s) => Sorted(Within(s, t))
<1> DEFINE S == {s \in Seq(Nat) : /\ \A u \in Nat : Below(s, u) => Below(Within(s, t), u)
                                  /\ Sorted(s) => Sorted(Within(s, t))}
<1>1. << >> \in S
  <2>1. Within(<< >>, t) = << >>
    BY WithinFacts
  <2>2. QED
    BY <2>1
<1>2. ASSUME NEW s \in Seq(Nat), NEW x \in Nat, s \in S
      PROVE  Append(s, x) \in S
  <2>1. PICK w \in Seq(Nat) : w = Within(s, t)
    BY WithinShorter
  <2>2. /\ \A u \in Nat : Below(s, u) => Below(w, u)
        /\ Sorted(s) => Sorted(w)
    BY <1>2, <2>1
  <2>3. Within(Append(s, x), t) \in {w, Append(w, x)}
    BY <2>1, WithinFacts DEF Extended
  <2>4. /\ \A u : Below(Append(s, x), u) <=> Below(s, u) /\ x <= u
        /\ Sorted(Append(s, x)) <=> Sorted(s) /\ Below(s, x)
    BY AppendOrder
  <2>5. /\ \A u : Below(Append(w, x), u) <=> Below(w, u) /\ x <= u
        /\ Sorted(Append(w, x)) <=> Sorted(w) /\ Below(w, x)
    BY AppendOrder
  <2>6. Append(s, x) \in Seq(Nat)
    BY AppendFacts
  <2>7. QED
    BY <2>2, <2>3, <2>4, <2>5, <2>6
<1> HIDE DEF S
<1>3. Seq(Nat) \subseteq S
  BY <1>1, <1>2, SequenceInduction
<1>4. QED
  BY <1>3 DEF S

\* Nothing is left of times that are a window old.
LEMMA WithinOld ==
    ASSUME NEW t \in Nat, NEW u \in Nat, ~(t - u < LoginWindow)
    PROVE  \A s \in Seq(Nat) : Below(s, u) => Within(s, t) = << >>
<1> DEFINE S == {s \in Seq(Nat) : Below(s, u) => Within(s, t) = << >>}
<1>1. << >> \in S
  BY WithinFacts
<1>2. ASSUME NEW s \in Seq(Nat), NEW x \in Nat, s \in S
      PROVE  Append(s, x) \in S
  <2>1. Append(s, x) \in Seq(Nat)
    BY AppendFacts
  <2>2. ASSUME Below(Append(s, x), u)
        PROVE  Within(Append(s, x), t) = << >>
    <3>1. Below(s, u) /\ x <= u
      BY <2>2, AppendOrder
    <3>2. ~(t - x < LoginWindow)
      BY <3>1
    <3>3. Within(s, t) = << >>
      BY <1>2, <3>1
    <3>4. QED
      BY <3>2, <3>3, WithinFacts DEF Extended
  <2>3. QED
    BY <2>1, <2>2
<1> HIDE DEF S
<1>3. Seq(Nat) \subseteq S
  BY <1>1, <1>2, SequenceInduction
<1>4. QED
  BY <1>3 DEF S
-----------------------------------------------------------------------------
(***************************************************************************)
(* The failures of one key.                                                *)
(***************************************************************************)

\* At t the recorded times r and the failed logins f have the same window.
SameWindow(r, f, t) ==
    /\ r \in Seq(Nat) /\ f \in Seq(Nat)
    /\ Sorted(r) /\ Below(r, t)
    /\ Within(r, t) = Within(f, t)
    /\ Len(Within(f, t)) <= Limit

\* Time passes: both lists lose the same times.
LEMMA WindowPasses ==
    ASSUME NEW r, NEW f, NEW t \in Nat, NEW u \in Nat, t <= u, SameWindow(r, f, t)
    PROVE  /\ SameWindow(r, Within(f, u), u)
           /\ Within(Within(f, u), u) = Within(f, u)
           /\ Within(r, u) = Within(f, u)
           /\ Len(Within(f, u)) <= Len(Within(f, t))
<1>1. r \in Seq(Nat) /\ f \in Seq(Nat) /\ Sorted(r) /\ Below(r, t)
  BY DEF SameWindow
<1>2. /\ Within(f, t) \in Seq(Nat) /\ Within(f, u) \in Seq(Nat)
  BY <1>1, WithinShorter
<1>3. Within(Within(f, t), u) = Within(f, u) /\ Within(Within(r, t), u) = Within(r, u)
  BY <1>1, WithinTwice
<1>4. Within(r, u) = Within(f, u)
  BY <1>3 DEF SameWindow
<1>5. Within(Within(f, u), u) = Within(f, u)
  BY <1>1, WithinTwice
<1>6. Len(Within(f, u)) <= Len(Within(f, t))
  BY <1>2, <1>3, WithinShorter
<1>7. Below(r, u)
  <2>1. ASSUME NEW i \in 1 .. Len(r)
        PROVE  r[i] <= u
    <3>1. r[i] \in Nat
      BY <1>1, ElementOfSeq
    <3>2. r[i] <= t
      BY <1>1 DEF Below
    <3>3. QED
      BY <3>1, <3>2
  <2>2. QED
    BY <2>1 DEF Below
<1>8. Len(Within(f, u)) <= Limit
  <2>1. Len(Within(f, u)) \in Nat /\ Len(Within(f, t)) \in Nat /\ Limit \in Nat
    BY <1>2
  <2>2. QED
    BY <1>6, <2>1 DEF SameWindow
<1>9. QED
  BY <1>1, <1>2, <1>4, <1>5, <1>6, <1>7, <1>8 DEF SameWindow

\* The list is pruned when somebody looks at it.
LEMMA WindowPruned ==
    ASSUME NEW r, NEW f, NEW t \in Nat, NEW u \in Nat, t <= u, SameWindow(r, f, t)
    PROVE  /\ SameWindow(Within(r, t), Within(f, u), u)
           /\ Len(Within(r, t)) <= Limit
<1>1. r \in Seq(Nat) /\ Sorted(r) /\ Below(r, t)
  BY DEF SameWindow
<1>2. SameWindow(r, Within(f, u), u)
  BY WindowPasses
<1>3. Within(Within(r, t), u) = Within(r, u)
  BY <1>1, WithinTwice
<1>4. Within(r, t) \in Seq(Nat) /\ Sorted(Within(r, t)) /\ Below(Within(r, t), u)
  <2>1. Below(r, u)
    BY <1>2 DEF SameWindow
  <2>2. QED
    BY <1>1, <2>1, WithinShorter, WithinOrder
<1>5. QED
  BY <1>2, <1>3, <1>4 DEF SameWindow

\* A failure is added to both.
LEMMA WindowGrows ==
    ASSUME NEW r, NEW f, NEW t \in Nat, NEW u \in Nat, t <= u, SameWindow(r, f, t),
           Len(Within(r, t)) < Limit
    PROVE  /\ SameWindow(Append(Within(r, u), u), Append(Within(f, u), u), u)
           /\ Len(Append(Within(r, u), u)) <= Limit
<1>1. /\ SameWindow(r, Within(f, u), u) /\ Within(r, u) = Within(f, u)
      /\ Within(Within(f, u), u) = Within(f, u)
      /\ Len(Within(f, u)) <= Len(Within(f, t))
  BY WindowPasses
<1>2. PICK w \in Seq(Nat) : w = Within(f, u)
  BY <1>1 DEF SameWindow
<1>3. Sorted(w) /\ Below(w, u) /\ Len(w) < Limit
  <2>1. r \in Seq(Nat) /\ Sorted(r) /\ Below(r, u)
    BY <1>1 DEF SameWindow
  <2>2. Sorted(w) /\ Below(w, u)
    BY <1>1, <1>2, <2>1, WithinOrder
  <2>3. Within(f, t) = Within(r, t) /\ Within(r, t) \in Seq(Nat)
    BY <2>1, WithinShorter DEF SameWindow
  <2>4. Len(w) \in Nat /\ Len(Within(r, t)) \in Nat /\ Limit \in Nat
    BY <2>3
  <2>5. Len(w) <= Len(Within(r, t))
    BY <1>1, <1>2, <2>3
  <2>6. QED
    BY <2>2, <2>4, <2>5
<1>4. /\ Append(w, u) \in Seq(Nat) /\ Sorted(Append(w, u)) /\ Below(Append(w, u), u)
  BY <1>3, AppendFacts, AppendOrder
<1>5. Within(Append(w, u), u) = Append(w, u)
  <2>1. u - u < LoginWindow
    OBVIOUS
  <2>2. Within(Append(w, u), u) = Extended(Within(w, u), u, u)
    BY WithinFacts
  <2>3. Within(w, u) = w
    BY <1>1, <1>2
  <2>4. QED
    BY <2>1, <2>2, <2>3 DEF Extended
<1>6. Len(Append(w, u)) <= Limit
  <2>1. Len(Append(w, u)) = Len(w) + 1 /\ Len(w) \in Nat /\ Limit \in Nat
    BY AppendFacts
  <2>2. QED
    BY <1>3, <2>1
<1>7. SameWindow(Append(w, u), Append(w, u), u)
  BY <1>4, <1>5, <1>6 DEF SameWindow
<1>8. QED
  BY <1>1, <1>2, <1>6, <1>7

\* A key is purged whose last failure is a window old: there was none in the window.
LEMMA WindowIdle ==
    ASSUME NEW r, NEW f, NEW t \in Nat, SameWindow(r, f, t),
           r = << >> \/ t - r[Len(r)] >= LoginWindow
    PROVE  SameWindow(<< >>, f, t)
<1>1. r \in Seq(Nat) /\ Sorted(r)
  BY DEF SameWindow
<1>2. Within(r, t) = << >>
  <2>1. CASE r = << >>
    BY <2>1, WithinFacts
  <2>2. CASE r # << >>
    <3>1. Len(r) \in Nat /\ Len(r) \in 1 .. Len(r) /\ r[Len(r)] \in Nat
      BY <1>1, <2>2, SMTT(30)
    <3>2. Below(r, r[Len(r)])
      BY <1>1, <3>1 DEF Sorted, Below
    <3>3. ~(t - r[Len(r)] < LoginWindow)
      BY <2>2, <3>1
    <3>4. QED
      BY <1>1, <3>1, <3>2, <3>3, WithinOld
  <2>3. QED
    BY <2>1, <2>2
<1>3. Within(<< >>, t) = << >>
  BY WithinFacts
<1>4. Sorted(<< >>) /\ Below(<< >>, t) /\ << >> \in Seq(Nat)
  BY DEF Sorted, Below
<1>5. QED
  BY <1>2, <1>3, <1>4 DEF SameWindow
-----------------------------------------------------------------------------
(***************************************************************************)
(* The failures of all keys.                                               *)
(***************************************************************************)

FailuresCounted ==
    /\ now \in Nat
    /\ failed = [k \in Keys |-> failed[k]]
    /\ \A k \in Keys : SameWindow(Recorded(k), failed[k], now)
    /\ DOMAIN failures \subseteq Keys
    /\ \A k \in DOMAIN failures : Len(failures[k]) <= Limit

\* The clock goes on while no one logs in.
LEMMA FailuresPass ==
    ASSUME FailuresCounted, now' \in Nat, now <= now',
           failures' = failures, failed' = LastWindow(now') \/ UNCHANGED <<now, failed>>
    PROVE  FailuresCounted'
<1>1. now \in Nat /\ \A k \in Keys : Recorded(k)' = Recorded(k)
  BY DEF FailuresCounted, Recorded
<1>2. CASE failed' = LastWindow(now')
  <2>1. /\ failed' = [k \in Keys |-> failed'[k]]
        /\ \A k \in Keys : failed'[k] = Within(failed[k], now')
    BY <1>2 DEF LastWindow
  <2>2. ASSUME NEW k \in Keys
        PROVE  SameWindow(Recorded(k), failed'[k], now')
    BY <1>1, <2>1, WindowPasses DEF FailuresCounted
  <2>3. QED
    BY <1>1, <2>1, <2>2 DEF FailuresCounted
<1>3. CASE UNCHANGED <<now, failed>>
  BY <1>1, <1>3 DEF FailuresCounted
<1>4. QED
  BY <1>2, <1>3

\* A look at the limit prunes one key and counts nothing.
LEMMA CheckCounts ==
    ASSUME FailuresCounted, now' \in Nat, now <= now', NEW k \in Keys, CheckLogins(k)
    PROVE  FailuresCounted'
<1>1. now \in Nat /\ \A l \in Keys : SameWindow(Recorded(l), failed[l], now)
  BY DEF FailuresCounted
<1>2. /\ DOMAIN failures' = DOMAIN failures \cup {k}
      /\ failures'[k] = Within(Recorded(k), now)
      /\ \A l \in DOMAIN failures \ {k} : failures'[l] = failures[l]
  BY DEF CheckLogins, Put
<1>3. /\ failed' = [l \in Keys |-> failed'[l]]
      /\ \A l \in Keys : failed'[l] = Within(failed[l], now')
  BY DEF CheckLogins, LastWindow
<1>4. Recorded(k)' = Within(Recorded(k), now)
  BY <1>2 DEF Recorded
<1>5. ASSUME NEW l \in Keys
      PROVE  SameWindow(Recorded(l)', failed'[l], now')
  <2>1. CASE l = k
    BY <1>1, <1>3, <1>4, <2>1, WindowPruned
  <2>2. CASE l # k
    <3>1. Recorded(l)' = Recorded(l)
      BY <1>2, <2>2 DEF Recorded
    <3>2. QED
      BY <1>1, <1>3, <3>1, WindowPasses
  <2>3. QED
    BY <2>1, <2>2
<1>6. Len(failures'[k]) <= Limit
  BY <1>1, <1>2, WindowPruned
<1>7. QED
  BY <1>2, <1>3, <1>5, <1>6 DEF FailuresCounted

\* A failure below the limit is counted under its key, and the purge of others that
\* are idle loses none of the window.
LEMMA FailureCounts ==
    ASSUME FailuresCounted, now' \in Nat, now <= now', NEW k \in Keys,
           ~Limited(k, now), RecordLoginFailure(k, now')
    PROVE  FailuresCounted'
<1>1. now \in Nat /\ \A l \in Keys : SameWindow(Recorded(l), failed[l], now)
  BY DEF FailuresCounted
<1> DEFINE f == Put(failures, k, Append(Within(Recorded(k), now'), now'))
           r(l) == IF l \in DOMAIN f THEN f[l] ELSE << >>
<1>2. failures' = Purged(f, now')
  BY DEF RecordLoginFailure
<1>3. /\ failed' = [l \in Keys |-> failed'[l]]
      /\ failed'[k] = Append(Within(failed[k], now'), now')
      /\ \A l \in Keys \ {k} : failed'[l] = Within(failed[l], now')
  BY DEF RecordLoginFailure, LastWindow
<1>4. /\ DOMAIN f = DOMAIN failures \cup {k}
      /\ f[k] = Append(Within(Recorded(k), now'), now')
      /\ \A l \in DOMAIN failures \ {k} : f[l] = failures[l]
  BY DEF Put
<1> HIDE DEF f
<1>5. r(k) = Append(Within(Recorded(k), now'), now')
      /\ \A l \in Keys \ {k} : r(l) = Recorded(l)
  BY <1>4 DEF Recorded
<1>6. SameWindow(r(k), failed'[k], now') /\ Len(f[k]) <= Limit
  <2>1. Len(Within(Recorded(k), now)) < Limit
    <3>1. Recorded(k) \in Seq(Nat)
      BY <1>1 DEF SameWindow
    <3>2. Len(Within(Recorded(k), now)) \in Nat /\ Limit \in Nat
      BY <3>1, WithinShorter
    <3>3. QED
      BY <3>2 DEF Limited
  <2>2. QED
    BY <1>1, <1>3, <1>4, <1>5, <2>1, WindowGrows, SMTT(30)
<1>7. ASSUME NEW l \in Keys
      PROVE  SameWindow(r(l), failed'[l], now')
  <2>1. CASE l # k
    <3>1. SameWindow(Recorded(l), Within(failed[l], now'), now')
      BY <1>1, WindowPasses
    <3>2. QED
      BY <1>3, <1>5, <2>1, <3>1
  <2>2. QED
    BY <1>6, <2>1
<1>8. /\ DOMAIN failures' \subseteq DOMAIN f
      /\ \A l \in DOMAIN failures' : failures'[l] = f[l]
      /\ \A l \in DOMAIN f \ DOMAIN failures' : l \in Idle(f, now')
  BY <1>2 DEF Purged, Restrict
<1>9. ASSUME NEW l \in Keys
      PROVE  SameWindow(Recorded(l)', failed'[l], now')
  <2>1. CASE l \in DOMAIN failures'
    <3>1. Recorded(l)' = r(l)
      BY <1>8, <2>1 DEF Recorded
    <3>2. QED
      BY <1>7, <3>1
  <2>2. CASE l \notin DOMAIN failures' /\ l \notin DOMAIN f
    <3>1. Recorded(l)' = r(l)
      BY <1>8, <2>2 DEF Recorded
    <3>2. QED
      BY <1>7, <3>1
  <2>3. CASE l \in DOMAIN f \ DOMAIN failures'
    <3>1. Recorded(l)' = << >> /\ r(l) = f[l]
      BY <2>3 DEF Recorded
    <3>2. f[l] = << >> \/ now' - f[l][Len(f[l])] >= LoginWindow
      BY <1>8, <2>3 DEF Idle
    <3>3. SameWindow(f[l], failed'[l], now')
      BY <1>7, <3>1
    <3>4. SameWindow(<< >>, failed'[l], now')
      BY <3>2, <3>3, WindowIdle
    <3>5. QED
      BY <3>1, <3>4
  <2>4. QED
    BY <2>1, <2>2, <2>3
<1>10. \A l \in DOMAIN failures' : l \in Keys /\ Len(failures'[l]) <= Limit
  BY <1>4, <1>6, <1>8 DEF FailuresCounted
<1>11. QED
  BY <1>3, <1>9, <1>10 DEF FailuresCounted

\* A restart forgets what is counted and what happened alike.
LEMMA RestartCounts ==
    ASSUME now \in Nat, now' = now, failures' = Empty,
           failed' = [k \in Keys |-> << >>]
    PROVE  FailuresCounted'
<1>1. Within(<< >>, now) = << >>
  BY WithinFacts
<1>2. SameWindow(<< >>, << >>, now)
  BY <1>1 DEF SameWindow, Sorted, Below
<1>3. \A k \in Keys : Recorded(k)' = << >> /\ failed'[k] = << >>
  BY DEF Recorded, Empty
<1>4. QED
  BY <1>2, <1>3 DEF FailuresCounted, Empty

LEMMA NextCounts ==
    ASSUME Inv, FailuresCounted, [Next]_vars
    PROVE  FailuresCounted'
<1>1. /\ now \in Nat /\ now \in now .. MaxTime /\ TokensTyped
      /\ \A t \in now .. MaxTime : t \in Nat /\ now <= t
  BY DEF Inv, TokensTyped
<1>2. ASSUME NEW h \in Hosts, NEW n \in Names, NEW right \in BOOLEAN, Login(h, n, right)
      PROVE  FailuresCounted'
  <2>1. PICK k \in Keys : k = <<h, Fold[n]>>
    BY DEF Keys
  <2>2. now' \in Nat /\ now <= now'
    <3>1. now' = now \/ now' \in Later
      BY <1>2 DEF Login
    <3>2. QED
      BY <1>1, <3>1, Moments
  <2>3. CheckLogins(k) \/ (~Limited(k, now) /\ RecordLoginFailure(k, now'))
    BY <1>2, <2>1 DEF Login
  <2>4. QED
    BY <2>2, <2>3, CheckCounts, FailureCounts
<1>3. ASSUME NEW c \in Credentials, NEW trusted \in BOOLEAN, NEW at \in Times,
             Access(c, trusted, at) \/ Logout(c, trusted, at)
      PROVE  FailuresCounted'
  <2>1. now' = at.last /\ failures' = failures /\ failed' = LastWindow(now')
    BY <1>3 DEF Access, Logout
  <2>2. now' \in Nat /\ now <= now'
    BY <1>1, <2>1, Readings
  <2>3. QED
    BY <2>1, <2>2, FailuresPass
<1>4. ASSUME NEW n \in Names, CreateUser(n) \/ SwitchAccount(n)
      PROVE  FailuresCounted'
  <2>1. UNCHANGED <<now, failures, failed>>
    BY <1>4 DEF CreateUser, SwitchAccount, memory, history
  <2>2. QED
    BY <1>1, <2>1, FailuresPass
<1>5. CASE Tick
  <2>1. now' = now + 1 /\ failures' = failures /\ failed' = LastWindow(now')
    BY <1>5 DEF Tick, memory
  <2>2. now' \in Nat /\ now <= now'
    BY <1>1, <2>1
  <2>3. QED
    BY <2>1, <2>2, FailuresPass
<1>6. CASE Restart
  BY <1>1, <1>6, RestartCounts DEF Restart
<1>7. CASE UNCHANGED vars
  <2>1. UNCHANGED <<now, failures, failed>>
    BY <1>7 DEF vars, memory, history
  <2>2. QED
    BY <1>1, <2>1, FailuresPass
<1>8. QED
  BY <1>2, <1>3, <1>4, <1>5, <1>6, <1>7 DEF Next, Call

LEMMA StartsCounted ==
    ASSUME Init
    PROVE  FailuresCounted
<1>1. now \in Nat /\ now = 0 /\ failures = Empty /\ failed = [k \in Keys |-> << >>]
  BY DEF Init
<1>2. Within(<< >>, now) = << >>
  BY WithinFacts
<1>3. SameWindow(<< >>, << >>, now)
  BY <1>2 DEF SameWindow, Sorted, Below
<1>4. \A k \in Keys : Recorded(k) = << >> /\ failed[k] = << >>
  BY <1>1 DEF Recorded, Empty
<1>5. QED
  BY <1>1, <1>3, <1>4 DEF FailuresCounted, Empty

\* Lists that agree on the window give the limit the same answer.
LEMMA CountsTell ==
    ASSUME FailuresCounted
    PROVE  LimitCountsFailures
<1>1. ASSUME NEW k \in Keys
      PROVE  /\ Len(Within(failed[k], now)) <= Limit
             /\ Limited(k, now) <=> Len(Within(failed[k], now)) = Limit
  <2>1. SameWindow(Recorded(k), failed[k], now)
    BY DEF FailuresCounted
  <2>2. Len(Within(failed[k], now)) \in Nat /\ Limit \in Nat
    <3>1. Within(failed[k], now) \in Seq(Nat)
      BY <2>1, WithinShorter DEF SameWindow
    <3>2. QED
      BY <3>1
  <2>3. QED
    BY <2>1, <2>2 DEF SameWindow, Limited
<1>2. QED
  BY <1>1 DEF LimitCountsFailures
-----------------------------------------------------------------------------
(***************************************************************************)
(* Types.                                                                  *)
(***************************************************************************)

RecordsTyped ==
    /\ active \subseteq accounts /\ accounts \subseteq Names
    /\ \A j \in DOMAIN issued :
          issued[j] \in [owner : accounts, exp : 0 .. Seconds(MaxTime) + TTL]
    /\ DOMAIN lastLogged \subseteq Places
    /\ restarts \in 0 .. MaxRestarts /\ calls \in 0 .. MaxCalls

\* A token expires within the times there are.
LEMMA SecondsGrow ==
    ASSUME NEW t \in 0 .. MaxTime
    PROVE  Seconds(t) + TTL \in 0 .. Seconds(MaxTime) + TTL
<1>1. t \in Nat /\ MaxTime \in Nat /\ TTL \in Nat /\ t <= MaxTime
  OBVIOUS
<1>2. \A a, b \in Nat : a <= b => a \div 2 \in Nat /\ b \div 2 \in Nat /\ a \div 2 <= b \div 2
  OBVIOUS
<1>3. Seconds(t) \in Nat /\ Seconds(MaxTime) \in Nat /\ Seconds(t) <= Seconds(MaxTime)
  BY <1>1, <1>2 DEF Seconds
<1>4. QED
  BY <1>1, <1>3

\* The deduplication is of places.
LEMMA PlacesStay ==
    ASSUME DOMAIN lastLogged \subseteq Places, NEW p \in Places, NEW t
    PROVE  DOMAIN Stamped(p, t) \subseteq Places
<1>1. DOMAIN Put(lastLogged, p, t) \subseteq Places
  BY DEF Put
<1>2. \A f : DOMAIN Fresh(f, t) \subseteq DOMAIN f
  BY DEF Fresh, Restrict
<1>3. QED
  BY <1>1, <1>2 DEF Stamped

LEMMA RefusalTyped ==
    ASSUME DOMAIN lastLogged \subseteq Places, NEW c, NEW trusted, NEW at,
           Refusal(c, trusted, at)
    PROVE  DOMAIN lastLogged' \subseteq Places
  BY PlacesStay DEF Refusal, RecordRejection

LEMMA NextTyped ==
    ASSUME Inv, RecordsTyped, [Next]_vars
    PROVE  RecordsTyped'
<1>1. now \in 0 .. MaxTime /\ TokensTyped
  BY DEF Inv, TokensTyped
<1>2. CASE Call
  <2>1. calls' \in 0 .. MaxCalls
    BY <1>2 DEF Call, RecordsTyped
  <2>2. ASSUME NEW h \in Hosts, NEW n \in Names, NEW right \in BOOLEAN, Login(h, n, right)
        PROVE  RecordsTyped'
    <3>1. UNCHANGED <<accounts, active, lastLogged, restarts>>
      BY <2>2 DEF Login
    <3>2. CASE UNCHANGED issued
      BY <2>1, <3>1, <3>2 DEF RecordsTyped
    <3>3. CASE ~UNCHANGED issued
      <4>1. PICK j \in Jtis \ DOMAIN issued, t \in Later :
                    issued' = Put(issued, j, Token(n, t)) /\ n \in active
        BY <2>2, <3>3 DEF Login, Authenticates
      <4>2. t \in 0 .. MaxTime
        BY <1>1, Moments DEF TokensTyped
      <4>3. Token(n, t) \in [owner : accounts, exp : 0 .. Seconds(MaxTime) + TTL]
        BY <4>1, <4>2, SecondsGrow DEF Token, RecordsTyped
      <4>4. \A i \in DOMAIN issued' :
                issued'[i] \in [owner : accounts, exp : 0 .. Seconds(MaxTime) + TTL]
        BY <4>1, <4>3 DEF Put, RecordsTyped
      <4>5. QED
        BY <2>1, <3>1, <4>4 DEF RecordsTyped
    <3>4. QED
      BY <3>2, <3>3
  <2>3. ASSUME NEW c \in Credentials, NEW trusted \in BOOLEAN, NEW at \in Times,
               Access(c, trusted, at) \/ Logout(c, trusted, at)
        PROVE  RecordsTyped'
    <3>1. UNCHANGED <<accounts, active, issued, restarts>>
      BY <2>3 DEF Access, Logout, database
    <3>2. DOMAIN lastLogged' \subseteq Places
      <4>1. lastLogged' = lastLogged \/ Refusal(c, trusted, at)
        BY <2>3 DEF Access, Logout
      <4>2. QED
        BY <4>1, RefusalTyped DEF RecordsTyped
    <3>3. QED
      BY <2>1, <3>1, <3>2 DEF RecordsTyped
  <2>4. ASSUME NEW n \in Names, CreateUser(n) \/ SwitchAccount(n)
        PROVE  RecordsTyped'
    <3>1. UNCHANGED <<issued, lastLogged, restarts>>
      BY <2>4 DEF CreateUser, SwitchAccount, memory
    <3>2. active' \subseteq accounts' /\ accounts' \subseteq Names /\ accounts \subseteq accounts'
      BY <2>4 DEF CreateUser, SwitchAccount, RecordsTyped
    <3>3. \A j \in DOMAIN issued :
              issued[j] \in [owner : accounts', exp : 0 .. Seconds(MaxTime) + TTL]
      BY <3>2 DEF RecordsTyped
    <3>4. QED
      BY <2>1, <3>1, <3>2, <3>3 DEF RecordsTyped
  <2>5. QED
    BY <1>2, <2>2, <2>3, <2>4 DEF Call
<1>3. CASE Tick
  BY <1>3 DEF Tick, database, memory, RecordsTyped
<1>4. CASE Restart
  BY <1>4 DEF Restart, database, RecordsTyped, Empty
<1>5. CASE UNCHANGED vars
  BY <1>5 DEF vars, database, memory, RecordsTyped
<1>6. QED
  BY <1>2, <1>3, <1>4, <1>5 DEF Next
-----------------------------------------------------------------------------
(***************************************************************************)
(* The theorems.                                                           *)
(***************************************************************************)

LEMMA Starts ==
    ASSUME Init
    PROVE  Inv
<1> USE DEF Init, Empty
<1>1. TokensTyped /\ RowsKept
  BY DEF TokensTyped, RowsKept
<1>2. LinesKept /\ RevokedStaysOut
  BY DEF LinesKept, RevokedStaysOut
<1>3. QED
  BY <1>1, <1>2 DEF Inv

\* A token that a logout revoked never authenticates a request again
\* (UserStore.revoke_token and TokenManager.verify, users.py:161, 248).
THEOREM StaysOut == Spec => []RevokedStaysOut
<1>1. Inv => RevokedStaysOut
  BY DEF Inv
<1>2. Inv /\ [Next]_vars => Inv'
  BY NextKeeps
<1>3. QED
  BY <1>1, <1>2, Starts, PTL DEF Spec

\* Every rejection is covered by a line less than a window old, and two lines of
\* a place are a window apart (_should_audit_auth_failure, auth.py:107).
THEOREM Audited == Spec => RejectionsAudited
<1>1. Inv /\ [Next]_vars => Inv' /\ LinesApart
  BY NextKeeps
<1>2. Inv' /\ LinesApart =>
        \A p \in Places :
          /\ outcome'.kind = "rejected" /\ outcome'.place = p =>
                p \in DOMAIN lines' /\ outcome'.at - lines'[p] < AuditWindow
          /\ p \in DOMAIN lines /\ p \in DOMAIN lines' =>
                lines'[p] = lines[p] \/ lines'[p] - lines[p] >= AuditWindow
  BY DEF Inv, LinesKept, LinesApart
<1>3. QED
  BY <1>1, <1>2, Starts, PTL DEF Spec, RejectionsAudited

\* The login limit counts exactly the failed logins of the last window, and
\* never lets more than Limit of them in (_login_rate_limited and
\* _record_login_failure, api/auth.py).
THEOREM LimitCounts == Spec => []LimitCountsFailures
<1>1. FailuresCounted => LimitCountsFailures
  BY CountsTell
<1>2. Inv /\ FailuresCounted /\ [Next]_vars => (Inv /\ FailuresCounted)'
  BY NextKeeps, NextCounts
<1>3. Init => Inv /\ FailuresCounted
  BY Starts, StartsCounted
<1>4. QED
  BY <1>1, <1>2, <1>3, PTL DEF Spec

\* Every token has an owner with an account and every revocation a token, and
\* the dictionaries hold what they are meant to hold.
THEOREM Typed == Spec => []TypeOK
<1>1. Inv /\ FailuresCounted /\ RecordsTyped => TypeOK
  BY DEF Inv, TokensTyped, RowsKept, FailuresCounted, RecordsTyped, TypeOK
<1>2. Inv /\ FailuresCounted /\ RecordsTyped /\ [Next]_vars
         => (Inv /\ FailuresCounted /\ RecordsTyped)'
  BY NextKeeps, NextCounts, NextTyped
<1>3. Init => Inv /\ FailuresCounted /\ RecordsTyped
  <2>1. Init => RecordsTyped
    BY DEF Init, RecordsTyped, Empty
  <2>2. QED
    BY <2>1, Starts, StartsCounted
<1>4. QED
  BY <1>1, <1>2, <1>3, PTL DEF Spec
-----------------------------------------------------------------------------
HIDE AccountsAssumption
USE WatchConstants
-----------------------------------------------------------------------------
(***************************************************************************)
(* The tab: the inductive invariant.                                       *)
(***************************************************************************)

\* Nothing that tells the tab of t is under way in w.
Unasked(w, t) ==
    \/ watch[w].polls[t].at = "off"
    \/ watch[w].polls[t].at = "post" /\ watch[w].polls[t].answer # "running"

\* A task that is not registered is known to nobody.
NewUnknown ==
    \A t \in Tasks : status[t] = "new" =>
        t \notin stored /\ t \notin owed /\ \A w \in Watches : Unasked(w, t)

\* The upload of a registered task is alone with it, and its watch with the upload.
PostsAlone ==
    \A w \in Watches, t \in Tasks : watch[w].polls[t].at = "post" =>
        /\ \A u \in Tasks \ {t} : watch[w].polls[u].at = "off"
        /\ watch[w].polls[t].answer = "running" =>
              /\ t \notin stored /\ t \notin owed
              /\ \A v \in Watches \ {w} : Unasked(v, t)

\* A final answer, and the end of a poll in a watch that goes on, are earned.
Final(w, t) ==
    \/ watch[w].polls[t].at = "reply" /\ watch[w].polls[t].answer \in {"over", "404"}
    \/ watch[w].phase = "live" /\ watch[w].polls[t].at = "ended"

EndsEarned ==
    \A w \in Watches : \A t \in owed : Final(w, t) => status[t] \notin Unfinished

\* The watch of what is remembered is past its upload.
Past == {"ask", "reply", "ended"}

WatchedOn ==
    page = "kb" => \A t \in stored : \E w \in Watches :
        watch[w].phase = "live" /\ watch[w].polls[t].at \in Past

TabInv ==
    TabTypeOK /\ NewUnknown /\ PostsAlone /\ EndsEarned /\ NotLost /\ WatchedOn

WatchType == [phase : {"free", "live", "refresh", "left"}, polls : [Tasks -> Poll]]

\* The table moves, and nothing is known that was not: what every action but
\* BeginUpload and UploadAccepted does.
Moves ==
    /\ \A t \in Tasks : /\ status'[t] = "new" => status[t] = "new"
                        /\ status'[t] \in Unfinished => status[t] \in Unfinished
    /\ stored' \subseteq stored /\ owed' \subseteq owed
    /\ \A w \in Watches :
          \/ watch'[w] = watch[w]
          \/ \A t \in Tasks : /\ watch'[w].polls[t].at # "post"
                              /\ \/ watch'[w].polls[t].at = "off"
                                 \/ t \in stored \/ watch[w].polls[t].at \in Past

\* What the tab moves between its polls tells nobody of a task that is not
\* registered, and joins no upload.
LEMMA MovesKeep ==
    ASSUME TabInv, Moves
    PROVE  NewUnknown' /\ PostsAlone'
<1>1. NewUnknown'
  <2>1. ASSUME NEW t \in Tasks, status'[t] = "new"
        PROVE  t \notin stored' /\ t \notin owed' /\ \A w \in Watches : Unasked(w, t)'
    <3>1. t \notin stored /\ t \notin owed /\ \A w \in Watches : Unasked(w, t)
      BY <2>1 DEF Moves, TabInv, NewUnknown
    <3>2. ASSUME NEW w \in Watches
          PROVE  Unasked(w, t)'
      <4>1. Unasked(w, t)
        BY <3>1
      <4>2. CASE watch'[w] = watch[w]
        BY <4>1, <4>2 DEF Unasked
      <4>3. CASE watch'[w] # watch[w]
        <5>1. watch[w].polls[t].at \notin Past
          BY <4>1 DEF Unasked, Past
        <5>2. QED
          BY <3>1, <4>3, <5>1 DEF Moves, Unasked
      <4>4. QED
        BY <4>2, <4>3
    <3>3. QED
      BY <3>1, <3>2 DEF Moves
  <2>2. QED
    BY <2>1 DEF NewUnknown
<1>2. ASSUME NEW w \in Watches, NEW t \in Tasks, watch'[w].polls[t].at = "post"
      PROVE  /\ \A u \in Tasks \ {t} : watch'[w].polls[u].at = "off"
             /\ watch'[w].polls[t].answer = "running" =>
                   /\ t \notin stored' /\ t \notin owed'
                   /\ \A v \in Watches \ {w} : Unasked(v, t)'
  <2>1. watch'[w] = watch[w]
    BY <1>2 DEF Moves
  <2>2. \A u \in Tasks \ {t} : watch'[w].polls[u].at = "off"
    BY <1>2, <2>1 DEF TabInv, PostsAlone
  <2>3. ASSUME watch'[w].polls[t].answer = "running"
        PROVE  /\ t \notin stored' /\ t \notin owed'
               /\ \A v \in Watches \ {w} : Unasked(v, t)'
    <3>1. t \notin stored /\ t \notin owed /\ \A v \in Watches \ {w} : Unasked(v, t)
      BY <1>2, <2>1, <2>3 DEF TabInv, PostsAlone
    <3>2. ASSUME NEW v \in Watches \ {w}
          PROVE  Unasked(v, t)'
      <4>1. Unasked(v, t)
        BY <3>1
      <4>2. CASE watch'[v] = watch[v]
        BY <4>1, <4>2 DEF Unasked
      <4>3. CASE watch'[v] # watch[v]
        <5>1. watch[v].polls[t].at \notin Past
          BY <4>1 DEF Unasked, Past
        <5>2. QED
          BY <3>1, <4>3, <5>1 DEF Moves, Unasked
      <4>4. QED
        BY <4>2, <4>3
    <3>3. QED
      BY <3>1, <3>2 DEF Moves
  <2>4. QED
    BY <2>2, <2>3
<1>3. PostsAlone'
  BY <1>2 DEF PostsAlone
<1>4. QED
  BY <1>1, <1>3

\* Ends that are not earned anew, and nothing forgotten that still runs.
LEMMA EndsKeep ==
    ASSUME TabInv, Moves,
           \A w \in Watches : \A t \in owed' :
               Final(w, t)' => Final(w, t) \/ status'[t] \notin Unfinished,
           \A t \in owed' : t \in stored /\ status'[t] \in Unfinished => t \in stored'
    PROVE  EndsEarned' /\ NotLost'
<1>1. owed' \subseteq owed /\ owed \subseteq Tasks
  BY DEF Moves, TabInv, TabTypeOK
<1>2. \A t \in owed' : status'[t] \in Unfinished => status[t] \in Unfinished
  BY <1>1 DEF Moves
<1>3. EndsEarned'
  BY <1>1, <1>2 DEF TabInv, EndsEarned
<1>4. NotLost'
  BY <1>1, <1>2 DEF TabInv, NotLost
<1>5. QED
  BY <1>3, <1>4

\* An action that leaves the watches alone.
LEMMA Undisturbed ==
    ASSUME TabInv, TabTypeOK', UNCHANGED <<watch, stored, owed>>,
           \A t \in Tasks : /\ status'[t] = "new" => status[t] = "new"
                            /\ status'[t] \in Unfinished => status[t] \in Unfinished,
           page' = "kb" => page = "kb" \/ stored = {}
    PROVE  TabInv'
<1>1. Moves
  BY DEF Moves
<1>2. \A w, t : Final(w, t)' <=> Final(w, t)
  BY DEF Final
<1>3. EndsEarned' /\ NotLost'
  BY <1>1, <1>2, EndsKeep
<1>4. WatchedOn'
  BY DEF TabInv, WatchedOn
<1>5. QED
  BY <1>1, <1>3, <1>4, MovesKeep DEF TabInv
-----------------------------------------------------------------------------
(***************************************************************************)
(* Watches that change.                                                    *)
(***************************************************************************)

\* The watches and their polls, with their types.
LEMMA WatchFacts ==
    ASSUME TabTypeOK
    PROVE  /\ watch = [w \in Watches |-> watch[w]]
           /\ \A w \in Watches : watch[w] \in WatchType /\ watch[w].polls \in [Tasks -> Poll]
           /\ \A w \in Watches, t \in Tasks : watch[w].polls[t] \in Poll
<1>1. watch \in [Watches -> WatchType]
  BY DEF TabTypeOK, WatchType
<1>2. QED
  BY <1>1 DEF WatchType

\* The polls the actions make.
LEMMA KnownPolls ==
    /\ NoPoll \in Poll /\ NoPoll.at = "off"
    /\ \A n \in 0 .. FailureLimit :
          Asking(n) \in Poll /\ Asking(n).at = "ask"
    /\ [NoPoll EXCEPT !.at = "ended"] \in Poll
    /\ [NoPoll EXCEPT !.at = "ended"].at = "ended"
  BY DEF NoPoll, Asking, Poll, Answers

\* The watches the actions make.
LEMMA KnownWatches ==
    /\ NoWatch \in WatchType /\ NoWatch.phase = "free"
    /\ \A t \in Tasks : NoWatch.polls[t].at = "off"
    /\ \A ids \in SUBSET Tasks :
          /\ Watching(ids) \in WatchType /\ Watching(ids).phase = "live"
          /\ \A t \in Tasks : Watching(ids).polls[t].at = IF t \in ids THEN "ask" ELSE "off"
<1>1. 0 \in 0 .. FailureLimit
  OBVIOUS
<1>2. NoPoll \in Poll /\ NoPoll.at = "off" /\ Asking(0) \in Poll /\ Asking(0).at = "ask"
  BY <1>1, KnownPolls
<1>3. QED
  BY <1>2 DEF NoWatch, Watching, WatchType

\* One watch is replaced.
LEMMA OneWatch ==
    ASSUME TabTypeOK, NEW w \in Watches, NEW new \in WatchType,
           watch' = [watch EXCEPT ![w] = new]
    PROVE  /\ watch' \in [Watches -> WatchType]
           /\ watch'[w] = new
           /\ \A v \in Watches \ {w} : watch'[v] = watch[v]
<1>1. watch \in [Watches -> WatchType]
  BY DEF TabTypeOK, WatchType
<1>2. QED
  BY <1>1

\* One poll is.
LEMMA OnePoll ==
    ASSUME TabTypeOK, NEW w \in Watches, NEW t \in Tasks, NEW new \in Poll,
           watch' = [watch EXCEPT ![w].polls[t] = new]
    PROVE  /\ watch' \in [Watches -> WatchType]
           /\ watch'[w].phase = watch[w].phase /\ watch'[w].polls[t] = new
           /\ \A u \in Tasks \ {t} : watch'[w].polls[u] = watch[w].polls[u]
           /\ \A v \in Watches \ {w} : watch'[v] = watch[v]
<1> DEFINE polls == [watch[w].polls EXCEPT ![t] = new]
           one == [watch[w] EXCEPT !.polls = polls]
<1>1. watch[w] \in WatchType /\ watch[w].polls \in [Tasks -> Poll]
  BY WatchFacts
<1>2. /\ polls \in [Tasks -> Poll] /\ polls[t] = new
      /\ \A u \in Tasks \ {t} : polls[u] = watch[w].polls[u]
  BY <1>1
<1> HIDE DEF polls
<1>3. one \in WatchType /\ one.phase = watch[w].phase /\ one.polls = polls
  BY <1>1, <1>2 DEF WatchType
<1>4. watch' = [watch EXCEPT ![w] = one]
  BY DEF polls
<1> HIDE DEF one
<1>5. /\ watch' \in [Watches -> WatchType] /\ watch'[w] = one
      /\ \A v \in Watches \ {w} : watch'[v] = watch[v]
  BY <1>3, <1>4, OneWatch
<1>6. QED
  BY <1>2, <1>3, <1>5

\* A poll that is under way is alone with no upload.
LEMMA PollsNotPosts ==
    ASSUME TabInv, NEW w \in Watches, NEW t \in Tasks, watch[w].polls[t].at \in Past
    PROVE  \A u \in Tasks : watch[w].polls[u].at # "post"
  BY DEF TabInv, PostsAlone, Past
-----------------------------------------------------------------------------
(***************************************************************************)
(* Sign-in, sign-out, reloads.                                             *)
(***************************************************************************)

\* A watch that did not count is replaced by one that owes nothing: it asks for
\* what is remembered, or for nothing.
LEMMA Replaced ==
    ASSUME TabInv, TabTypeOK', UNCHANGED <<status, stored, owed>>,
           NEW w \in Watches, NEW ids \in SUBSET stored, NEW new,
           new = Watching(ids) \/ (new = NoWatch /\ ids = {}),
           watch' = [watch EXCEPT ![w] = new],
           page' = "kb" => \/ new = Watching(stored)
                           \/ /\ page = "kb"
                              /\ \A t \in stored :
                                    watch[w].phase # "live" \/ watch[w].polls[t].at \notin Past
    PROVE  TabInv'
<1>1. TabTypeOK /\ stored \subseteq Tasks /\ ids \subseteq Tasks
  BY DEF TabInv, TabTypeOK
<1>2. /\ new \in WatchType
      /\ \A t \in Tasks : new.polls[t].at = IF t \in ids THEN "ask" ELSE "off"
  BY <1>1, KnownWatches
<1>3. watch'[w] = new /\ \A v \in Watches \ {w} : watch'[v] = watch[v]
  BY <1>1, <1>2, OneWatch
<1>4. Moves
  BY <1>1, <1>2, <1>3 DEF Moves
<1>5. \A v \in Watches, t \in Tasks : Final(v, t)' => Final(v, t)
  <2>1. ASSUME NEW t \in Tasks
        PROVE  ~Final(w, t)'
    BY <1>2, <1>3 DEF Final
  <2>2. ASSUME NEW v \in Watches \ {w}, NEW t \in Tasks
        PROVE  Final(v, t)' => Final(v, t)
    BY <1>3 DEF Final
  <2>3. QED
    BY <2>1, <2>2
<1>6. owed' \subseteq Tasks
  BY DEF TabTypeOK
<1>7. EndsEarned' /\ NotLost'
  BY <1>4, <1>5, <1>6, EndsKeep
<1>8. WatchedOn'
  <2>1. ASSUME page' = "kb", NEW t \in stored
        PROVE  \E v \in Watches : watch'[v].phase = "live" /\ watch'[v].polls[t].at \in Past
    <3>1. CASE new = Watching(stored)
      <4>1. watch'[w].phase = "live" /\ watch'[w].polls[t].at = "ask"
        BY <1>1, <1>3, <3>1, KnownWatches
      <4>2. QED
        BY <4>1 DEF Past
    <3>2. CASE page = "kb" /\ \A u \in stored :
                   watch[w].phase # "live" \/ watch[w].polls[u].at \notin Past
      <4>1. PICK v \in Watches : watch[v].phase = "live" /\ watch[v].polls[t].at \in Past
        BY <3>2 DEF TabInv, WatchedOn
      <4>2. v # w
        BY <3>2, <4>1
      <4>3. QED
        BY <1>3, <4>1, <4>2
    <3>3. QED
      BY <2>1, <3>1, <3>2
  <2>2. QED
    BY <2>1 DEF WatchedOn
<1>9. QED
  BY <1>4, <1>7, <1>8, MovesKeep DEF TabInv

\* Resuming watches everything remembered.
LEMMA ResumeKeeps ==
    ASSUME TabInv, UNCHANGED <<status, owner, stored, owed>>, Resume,
           page' = "kb", user' \in Principals \cup {Nobody}
    PROVE  TabInv'
<1>1. TabTypeOK
  BY DEF TabInv
<1>2. CASE stored = {}
  <2>1. UNCHANGED <<uploading, watch>>
    BY <1>2 DEF Resume
  <2>2. TabTypeOK'
    BY <1>1, <2>1 DEF TabTypeOK
  <2>3. QED
    BY <1>2, <2>1, <2>2, Undisturbed
<1>3. CASE stored # {}
  <2>1. PICK w \in Watches : /\ uploading' = TRUE
                             /\ watch' = [watch EXCEPT ![w] = Watching(stored)]
    BY <1>3 DEF Resume
  <2>2. stored \in SUBSET Tasks
    BY <1>1 DEF TabTypeOK
  <2>3. Watching(stored) \in WatchType
    BY <2>2, KnownWatches
  <2>4. watch' \in [Watches -> WatchType]
    BY <1>1, <2>1, <2>3, OneWatch
  <2>5. TabTypeOK'
    BY <1>1, <2>1, <2>4 DEF TabTypeOK, WatchType
  <2>6. QED
    BY <2>1, <2>5, Replaced
<1>4. QED
  BY <1>2, <1>3

\* Signing in, or finding out who is signed in, resumes; losing the cookie changes
\* no poll.
LEMMA SessionKeeps ==
    ASSUME TabInv, (\E p \in Principals : SignIn(p)) \/ SignOut \/ Expire \/ Restore
    PROVE  TabInv'
<1>1. TabTypeOK
  BY DEF TabInv
<1>2. CASE \E p \in Principals : SignIn(p)
  BY <1>2, ResumeKeeps DEF SignIn
<1>3. CASE SignOut
  <2>1. TabTypeOK'
    BY <1>1, <1>3 DEF TabTypeOK, SignOut, tab
  <2>2. QED
    BY <1>3, <2>1, Undisturbed DEF SignOut, tab
<1>4. CASE Expire
  <2>1. TabTypeOK'
    BY <1>1, <1>4 DEF TabTypeOK, Expire, tab
  <2>2. QED
    BY <1>4, <2>1, Undisturbed DEF Expire, tab
<1>5. CASE Restore
  <2>1. CASE user # Nobody /\ page' = "kb" /\ Resume
    BY <1>1, <1>5, <2>1, ResumeKeeps DEF Restore, TabTypeOK
  <2>2. CASE page' = "login" /\ UNCHANGED <<uploading, watch>>
    <3>1. TabTypeOK'
      BY <1>1, <1>5, <2>2 DEF TabTypeOK, Restore
    <3>2. QED
      BY <1>5, <2>2, <3>1, Undisturbed DEF Restore
  <2>3. QED
    BY <1>5, <2>1, <2>2 DEF Restore
<1>6. QED
  BY <1>2, <1>3, <1>4, <1>5

\* A reload ends every watch; what is remembered stays, and nothing is on the page.
LEMMA ReloadKeeps ==
    ASSUME TabInv, Reload
    PROVE  TabInv'
<1>1. TabTypeOK /\ owed \subseteq Tasks
  BY DEF TabInv, TabTypeOK
<1>2. /\ UNCHANGED <<status, owner, user, stored, owed>>
      /\ watch' = [w \in Watches |-> NoWatch] /\ page' = "loading" /\ uploading' = FALSE
  BY DEF Reload
<1>3. watch' \in [Watches -> WatchType]
  BY <1>2, KnownWatches
<1>4. TabTypeOK'
  BY <1>1, <1>2, <1>3 DEF TabTypeOK, WatchType
<1>5. \A w \in Watches, t \in Tasks : watch'[w].phase = "free" /\ watch'[w].polls[t].at = "off"
  BY <1>2, KnownWatches
<1>6. Moves
  BY <1>2, <1>5 DEF Moves
<1>7. \A w \in Watches, t \in Tasks : ~Final(w, t)'
  BY <1>5 DEF Final
<1>8. EndsEarned' /\ NotLost'
  BY <1>1, <1>2, <1>6, <1>7, EndsKeep
<1>9. WatchedOn'
  BY <1>2 DEF WatchedOn
<1>10. QED
  BY <1>4, <1>6, <1>8, <1>9, MovesKeep DEF TabInv
-----------------------------------------------------------------------------
(***************************************************************************)
(* Uploads.                                                                *)
(***************************************************************************)

\* A task is registered for an upload in a watch of its own.
LEMMA BeginKeeps ==
    ASSUME TabInv, NEW w \in Watches, NEW t \in Tasks, BeginUpload(w, t)
    PROVE  TabInv'
<1>1. TabTypeOK /\ owed \subseteq Tasks /\ stored \subseteq Tasks
  BY DEF TabInv, TabTypeOK
<1>2. /\ UNCHANGED <<user, page, stored, owed>> /\ uploading' = TRUE
      /\ watch[w].phase = "free" /\ status[t] = "new"
  BY DEF BeginUpload, cookie, IsFree
<1>3. PICK answer \in {"running", "failed"} :
        /\ \/ answer = "running" /\ user # Nobody /\ Register(t) /\ owner' = [owner EXCEPT ![t] = user]
           \/ answer = "failed" /\ UNCHANGED <<status, owner>>
        /\ watch' = [watch EXCEPT ![w] =
              [phase |-> "live",
               polls |-> [NoWatch.polls EXCEPT ![t] =
                            [at |-> "post", fails |-> 0, answer |-> answer]]]]
  BY DEF BeginUpload
<1> DEFINE new == [phase |-> "live",
                   polls |-> [NoWatch.polls EXCEPT ![t] =
                                [at |-> "post", fails |-> 0, answer |-> answer]]]
<1>4. /\ new \in WatchType /\ new.phase = "live"
      /\ new.polls[t].at = "post" /\ new.polls[t].answer = answer
      /\ \A u \in Tasks \ {t} : new.polls[u].at = "off"
  <2>1. [at |-> "post", fails |-> 0, answer |-> answer] \in Poll
    BY <1>3 DEF Poll, Answers
  <2>2. NoWatch.polls \in [Tasks -> Poll] /\ \A u \in Tasks : NoWatch.polls[u].at = "off"
    BY KnownWatches DEF WatchType
  <2>3. QED
    BY <2>1, <2>2 DEF WatchType
<1> HIDE DEF new
<1>5. watch' = [watch EXCEPT ![w] = new]
  BY <1>3 DEF new
<1>6. /\ watch' \in [Watches -> WatchType] /\ watch'[w] = new
      /\ \A v \in Watches \ {w} : watch'[v] = watch[v]
  BY <1>1, <1>4, <1>5, OneWatch
<1>7. /\ status' \in [Tasks -> Statuses] /\ owner' \in [Tasks -> Principals \cup {Nobody}]
      /\ \A u \in Tasks \ {t} : status'[u] = status[u]
      /\ answer = "running" => status'[t] = "pending"
      /\ answer = "failed" => status'[t] = "new"
  <2>1. status \in [Tasks -> Statuses] /\ "pending" \in Statuses
    BY <1>1 DEF TabTypeOK, Statuses, Unfinished
  <2>2. owner \in [Tasks -> Principals \cup {Nobody}] /\ user \in Principals \cup {Nobody}
    BY <1>1 DEF TabTypeOK
  <2>3. CASE answer = "running" /\ Register(t) /\ owner' = [owner EXCEPT ![t] = user]
    <3>1. status' = [status EXCEPT ![t] = "pending"]
      BY <2>3 DEF Register
    <3>2. QED
      BY <2>1, <2>2, <2>3, <3>1
  <2>4. CASE answer = "failed" /\ UNCHANGED <<status, owner>>
    BY <1>2, <2>1, <2>2, <2>4
  <2>5. QED
    BY <1>3, <2>3, <2>4
<1>8. TabTypeOK'
  BY <1>1, <1>2, <1>6, <1>7 DEF TabTypeOK, WatchType
<1>9. t \notin stored /\ t \notin owed /\ \A v \in Watches : Unasked(v, t)
  BY <1>2 DEF TabInv, NewUnknown
<1>10. \A v \in Watches \ {w}, u \in Tasks : Unasked(v, u)' <=> Unasked(v, u)
  BY <1>6 DEF Unasked
<1>11. /\ \A u \in Tasks \ {t} : Unasked(w, u)'
       /\ Unasked(w, t)' <=> answer # "running"
  BY <1>4, <1>6 DEF Unasked
<1>12. NewUnknown'
  BY <1>2, <1>7, <1>9, <1>10, <1>11 DEF TabInv, NewUnknown
<1>13. PostsAlone'
  <2>1. ASSUME NEW v \in Watches, NEW u \in Tasks, watch'[v].polls[u].at = "post"
        PROVE  /\ \A x \in Tasks \ {u} : watch'[v].polls[x].at = "off"
               /\ watch'[v].polls[u].answer = "running" =>
                     /\ u \notin stored' /\ u \notin owed'
                     /\ \A x \in Watches \ {v} : Unasked(x, u)'
    <3>1. CASE v = w
      <4>1. u = t
        BY <1>4, <1>6, <2>1, <3>1
      <4>2. QED
        BY <1>2, <1>4, <1>6, <1>9, <1>10, <3>1, <4>1
    <3>2. CASE v # w
      <4>1. watch'[v] = watch[v]
        BY <1>6, <3>2
      <4>2. /\ \A x \in Tasks \ {u} : watch[v].polls[x].at = "off"
            /\ watch[v].polls[u].answer = "running" =>
                  /\ u \notin stored /\ u \notin owed
                  /\ \A x \in Watches \ {v} : Unasked(x, u)
        BY <2>1, <4>1 DEF TabInv, PostsAlone
      <4>3. watch[v].polls[u].answer = "running" => u # t
        BY <1>9, <2>1, <4>1 DEF Unasked
      <4>4. watch[v].polls[u].answer = "running" =>
               \A x \in Watches \ {v} : Unasked(x, u)'
        BY <1>10, <1>11, <4>2, <4>3
      <4>5. QED
        BY <1>2, <4>1, <4>2, <4>4
    <3>3. QED
      BY <3>1, <3>2
  <2>2. QED
    BY <2>1 DEF PostsAlone
<1>14. EndsEarned' /\ NotLost'
  <2>1. \A u \in owed : u # t /\ status'[u] = status[u]
    BY <1>1, <1>7, <1>9
  <2>2. \A v \in Watches : \A u \in owed : Final(v, u)' => Final(v, u)
    <3>1. \A u \in owed : ~Final(w, u)'
      BY <1>1, <1>4, <1>6, <1>9 DEF Final
    <3>2. \A v \in Watches \ {w} : \A u \in owed : Final(v, u)' => Final(v, u)
      BY <1>6 DEF Final
    <3>3. QED
      BY <3>1, <3>2
  <2>3. EndsEarned'
    BY <1>2, <2>1, <2>2 DEF TabInv, EndsEarned
  <2>4. NotLost'
    BY <1>2, <2>1 DEF TabInv, NotLost
  <2>5. QED
    BY <2>3, <2>4
<1>15. WatchedOn'
  <2>1. ASSUME page = "kb", NEW u \in stored
        PROVE  \E v \in Watches : watch'[v].phase = "live" /\ watch'[v].polls[u].at \in Past
    <3>1. PICK v \in Watches : watch[v].phase = "live" /\ watch[v].polls[u].at \in Past
      BY <2>1 DEF TabInv, WatchedOn
    <3>2. v # w
      BY <1>2, <3>1
    <3>3. QED
      BY <1>6, <3>1, <3>2
  <2>2. QED
    BY <1>2, <2>1 DEF WatchedOn
<1>16. QED
  BY <1>8, <1>12, <1>13, <1>14, <1>15 DEF TabInv

\* The answer to an upload makes its task remembered and polled in one step.
LEMMA AcceptedKeeps ==
    ASSUME TabInv, NEW w \in Watches, NEW t \in Tasks, UploadAccepted(w, t)
    PROVE  TabInv'
<1>1. TabTypeOK /\ owed \subseteq Tasks /\ stored \subseteq Tasks
  BY DEF TabInv, TabTypeOK
<1>2. /\ UNCHANGED <<status, owner, user, page, uploading>>
      /\ watch[w].polls[t].at = "post" /\ watch[w].polls[t].answer = "running"
      /\ stored' = stored \cup {t} /\ owed' = owed \cup {t}
      /\ watch' = [watch EXCEPT ![w] = Watching({t})]
  BY DEF UploadAccepted, cookie
<1>3. /\ Watching({t}) \in WatchType /\ Watching({t}).phase = "live"
      /\ \A u \in Tasks : Watching({t}).polls[u].at = IF u = t THEN "ask" ELSE "off"
  <2>1. {t} \in SUBSET Tasks
    OBVIOUS
  <2>2. QED
    BY <2>1, KnownWatches
<1>4. /\ watch' \in [Watches -> WatchType] /\ watch'[w] = Watching({t})
      /\ \A v \in Watches \ {w} : watch'[v] = watch[v]
  BY <1>1, <1>2, <1>3, OneWatch
<1>5. TabTypeOK'
  BY <1>1, <1>2, <1>4 DEF TabTypeOK, WatchType
<1>6. /\ status[t] # "new"
      /\ \A u \in Tasks \ {t} : watch[w].polls[u].at = "off"
      /\ \A v \in Watches \ {w} : Unasked(v, t)
  <2>1. ~Unasked(w, t)
    BY <1>2 DEF Unasked
  <2>2. status[t] # "new"
    BY <2>1 DEF TabInv, NewUnknown
  <2>3. QED
    BY <1>2, <2>2 DEF TabInv, PostsAlone
<1>7. /\ \A u \in Tasks \ {t} : Unasked(w, u)' /\ Unasked(w, u)
      /\ \A v \in Watches \ {w}, u \in Tasks : Unasked(v, u)' <=> Unasked(v, u)
  BY <1>3, <1>4, <1>6 DEF Unasked
<1>8. NewUnknown'
  BY <1>2, <1>6, <1>7 DEF TabInv, NewUnknown
<1>9. PostsAlone'
  <2>1. ASSUME NEW v \in Watches, NEW u \in Tasks, watch'[v].polls[u].at = "post"
        PROVE  /\ \A x \in Tasks \ {u} : watch'[v].polls[x].at = "off"
               /\ watch'[v].polls[u].answer = "running" =>
                     /\ u \notin stored' /\ u \notin owed'
                     /\ \A x \in Watches \ {v} : Unasked(x, u)'
    <3>1. v # w
      BY <1>3, <1>4, <2>1
    <3>2. watch'[v] = watch[v]
      BY <1>4, <3>1
    <3>3. /\ \A x \in Tasks \ {u} : watch[v].polls[x].at = "off"
          /\ watch[v].polls[u].answer = "running" =>
                /\ u \notin stored /\ u \notin owed
                /\ \A x \in Watches \ {v} : Unasked(x, u)
      BY <2>1, <3>2 DEF TabInv, PostsAlone
    <3>4. watch[v].polls[u].answer = "running" => u # t
      BY <1>6, <2>1, <3>1, <3>2 DEF Unasked
    <3>5. QED
      BY <1>2, <1>7, <3>2, <3>3, <3>4
  <2>2. QED
    BY <2>1 DEF PostsAlone
<1>10. EndsEarned'
  <2>1. ASSUME NEW v \in Watches, NEW u \in owed', Final(v, u)'
        PROVE  status'[u] \notin Unfinished
    <3>1. u \in Tasks
      BY <1>1, <1>2
    <3>2. v # w
      BY <1>3, <1>4, <2>1, <3>1 DEF Final
    <3>3. Final(v, u)
      BY <1>4, <2>1, <3>2 DEF Final
    <3>4. u # t
      BY <1>6, <3>2, <3>3 DEF Final, Unasked
    <3>5. QED
      BY <1>2, <3>3, <3>4 DEF TabInv, EndsEarned
  <2>2. QED
    BY <2>1 DEF EndsEarned
<1>11. NotLost'
  BY <1>2 DEF TabInv, NotLost
<1>12. WatchedOn'
  <2>1. ASSUME page = "kb", NEW u \in stored'
        PROVE  \E v \in Watches : watch'[v].phase = "live" /\ watch'[v].polls[u].at \in Past
    <3>1. CASE u = t
      <4>1. watch'[w].phase = "live" /\ watch'[w].polls[u].at \in Past
        BY <1>3, <1>4, <3>1 DEF Past
      <4>2. QED
        BY <4>1
    <3>2. CASE u # t
      <4>1. u \in stored /\ u \in Tasks
        BY <1>1, <1>2, <3>2
      <4>2. PICK v \in Watches : watch[v].phase = "live" /\ watch[v].polls[u].at \in Past
        BY <2>1, <4>1 DEF TabInv, WatchedOn
      <4>3. v # w
        BY <1>6, <3>2, <4>1, <4>2 DEF Past
      <4>4. QED
        BY <1>4, <4>2, <4>3
    <3>3. QED
      BY <3>1, <3>2
  <2>2. QED
    BY <1>2, <2>1 DEF WatchedOn
<1>13. QED
  BY <1>5, <1>8, <1>9, <1>10, <1>11, <1>12 DEF TabInv

\* A watch that is no longer live, or whose page is gone, may go.
LEMMA EmptyWatch ==
    ASSUME TabInv, NEW w \in Watches, watch' = [watch EXCEPT ![w] = NoWatch],
           UNCHANGED <<status, owner, user, stored, owed>>, uploading' \in BOOLEAN,
           page' = "login" \/ page' = page,
           \/ page' = "login"
           \/ watch[w].phase # "live"
           \/ \A t \in Tasks : watch[w].polls[t].at \notin Past
    PROVE  TabInv'
<1>1. TabTypeOK /\ stored \subseteq Tasks
  BY DEF TabInv, TabTypeOK
<1>2. NoWatch \in WatchType
  BY KnownWatches
<1>3. watch' \in [Watches -> WatchType]
  BY <1>1, <1>2, OneWatch
<1>4. TabTypeOK'
  BY <1>1, <1>3 DEF TabTypeOK, WatchType
<1>5. page' = "kb" => /\ page = "kb"
                      /\ \A t \in stored : watch[w].phase # "live" \/ watch[w].polls[t].at \notin Past
  BY <1>1
<1>6. {} \in SUBSET stored
  OBVIOUS
<1>7. QED
  BY <1>4, <1>5, <1>6, Replaced

\* An upload that failed leaves an empty watch.
LEMMA FailedKeeps ==
    ASSUME TabInv, NEW w \in Watches, NEW t \in Tasks, UploadFailed(w, t)
    PROVE  TabInv'
<1>1. watch[w].polls[t].at = "post"
  BY DEF UploadFailed
<1>2. \A u \in Tasks : watch[w].polls[u].at \notin Past
  BY <1>1 DEF TabInv, PostsAlone, Past
<1>3. QED
  BY <1>2, EmptyWatch DEF UploadFailed

LEMMA RefreshKeeps ==
    ASSUME TabInv, NEW w \in Watches, Refresh(w)
    PROVE  TabInv'
  BY EmptyWatch DEF Refresh
-----------------------------------------------------------------------------
(***************************************************************************)
(* Polls.                                                                  *)
(***************************************************************************)

\* One watch goes on: its polls were under way, what becomes final is earned,
\* and what stays remembered stays watched.
LEMMA GoesOn ==
    ASSUME TabInv, TabTypeOK', NEW w \in Watches, NEW new \in WatchType,
           watch' = [watch EXCEPT ![w] = new],
           \A u \in Tasks : /\ new.polls[u].at # "post"
                            /\ new.polls[u].at = "off" \/ watch[w].polls[u].at \in Past,
           \A u \in Tasks : /\ status'[u] = "new" => status[u] = "new"
                            /\ status'[u] \in Unfinished => status[u] \in Unfinished,
           stored' \subseteq stored, owed' \subseteq owed,
           \A u \in owed' : Final(w, u)' => Final(w, u) \/ status'[u] \notin Unfinished,
           \A u \in owed' : u \in stored /\ status'[u] \in Unfinished => u \in stored',
           page' = "kb" =>
               /\ page = "kb"
               /\ \A u \in stored' : watch[w].phase = "live" /\ watch[w].polls[u].at \in Past
                                        => new.phase = "live" /\ new.polls[u].at \in Past
    PROVE  TabInv'
<1>1. TabTypeOK /\ owed \subseteq Tasks
  BY DEF TabInv, TabTypeOK
<1>2. watch'[w] = new /\ \A v \in Watches \ {w} : watch'[v] = watch[v]
  BY <1>1, OneWatch
<1>3. Moves
  BY <1>2 DEF Moves
<1>4. \A v \in Watches : \A u \in owed' :
         Final(v, u)' => Final(v, u) \/ status'[u] \notin Unfinished
  <2>1. \A v \in Watches \ {w} : \A u \in owed' : Final(v, u)' => Final(v, u)
    BY <1>2 DEF Final
  <2>2. QED
    BY <2>1
<1>5. EndsEarned' /\ NotLost'
  BY <1>3, <1>4, EndsKeep
<1>6. WatchedOn'
  <2>1. ASSUME page' = "kb", NEW u \in stored'
        PROVE  \E v \in Watches : watch'[v].phase = "live" /\ watch'[v].polls[u].at \in Past
    <3>1. PICK v \in Watches : watch[v].phase = "live" /\ watch[v].polls[u].at \in Past
      BY <2>1 DEF TabInv, WatchedOn
    <3>2. watch'[v].phase = "live" /\ watch'[v].polls[u].at \in Past
      BY <1>2, <2>1, <3>1
    <3>3. QED
      BY <3>2
  <2>2. QED
    BY <2>1 DEF WatchedOn
<1>7. QED
  BY <1>3, <1>5, <1>6, MovesKeep DEF TabInv

\* A watch with one poll replaced.
With(w, t, p) == [watch[w] EXCEPT !.polls = [@ EXCEPT ![t] = p]]

\* A watch with one poll changed.
LEMMA WithFacts ==
    ASSUME TabTypeOK
    PROVE  \A v \in Watches, b \in Tasks, q \in Poll :
              /\ With(v, b, q) \in WatchType /\ With(v, b, q).phase = watch[v].phase
              /\ With(v, b, q).polls[b] = q
              /\ \A u \in Tasks \ {b} : With(v, b, q).polls[u] = watch[v].polls[u]
<1>1. ASSUME NEW v \in Watches, NEW b \in Tasks, NEW q \in Poll
      PROVE  /\ With(v, b, q) \in WatchType /\ With(v, b, q).phase = watch[v].phase
             /\ With(v, b, q).polls[b] = q
             /\ \A u \in Tasks \ {b} : With(v, b, q).polls[u] = watch[v].polls[u]
  <2>1. watch[v] \in WatchType /\ watch[v].polls \in [Tasks -> Poll]
    BY WatchFacts
  <2>2. [watch[v].polls EXCEPT ![b] = q] \in [Tasks -> Poll]
    BY <2>1
  <2>3. QED
    BY <2>1, <2>2 DEF With, WatchType
<1>2. QED
  BY <1>1

\* The watch of a poll under way has no upload.
LEMMA Under ==
    ASSUME TabInv, NEW w \in Watches, NEW t \in Tasks, watch[w].polls[t].at \in Past
    PROVE  \A u \in Tasks : watch[w].polls[u].at = "off" \/ watch[w].polls[u].at \in Past
<1>1. \A u \in Tasks : watch[w].polls[u].at \in {"off", "post", "ask", "reply", "ended"}
  BY WatchFacts DEF TabInv, Poll
<1>2. QED
  BY <1>1, PollsNotPosts DEF Past

\* What the tables of Register, Trim and Restart have in common.
LEMMA TrimMoves ==
    ASSUME TabTypeOK, NEW t \in Tasks, Trim(t)
    PROVE  /\ status' \in [Tasks -> Statuses]
           /\ \A u \in Tasks : status'[u] \in {status[u], "gone"}
           /\ status'[t] = status[t]
<1>1. PICK gone \in SUBSET Finished : t \notin gone /\ status' = Trimmed(gone)
  BY DEF Trim, Trims
<1>2. status \in [Tasks -> Statuses] /\ "gone" \in Statuses
  BY DEF TabTypeOK, Statuses
<1>3. QED
  BY <1>1, <1>2 DEF Trimmed

\* The server answers what is true when it is asked: a final answer is of a task that
\* is over. What the poll trims was over, too.
LEMMA AskKeeps ==
    ASSUME TabInv, NEW w \in Watches, NEW t \in Tasks, Ask(w, t)
    PROVE  TabInv'
<1>1. TabTypeOK /\ owed \subseteq Tasks
  BY DEF TabInv, TabTypeOK
<1>2. watch[w].polls[t].at = "ask" /\ UNCHANGED <<owner, user, page, stored, uploading>>
  BY DEF Ask, cookie
<1>3. PICK answer \in Answers :
        /\ watch' = [watch EXCEPT ![w].polls[t] =
                        [@ EXCEPT !.at = "reply", !.answer = answer]]
        /\ \/ answer = "failed" /\ UNCHANGED <<status, owed>>
           \/ user = Nobody /\ answer = "401" /\ UNCHANGED <<status, owed>>
           \/ /\ user # Nobody
              /\ answer = IF ~MaySee(t) THEN "404"
                          ELSE IF status[t] \in Verdicts THEN "over" ELSE "running"
              /\ Trim(t)
              /\ owed' = IF user = owner[t] THEN owed ELSE owed \ {t}
  BY DEF Ask
<1> DEFINE p == [watch[w].polls[t] EXCEPT !.at = "reply", !.answer = answer]
<1>4. p \in Poll /\ p.at = "reply" /\ p.answer = answer
  <2>1. watch[w].polls[t] \in Poll
    BY <1>1, WatchFacts
  <2>2. QED
    BY <2>1 DEF Poll
<1>5. watch' = [watch EXCEPT ![w].polls[t] = p]
  BY <1>3
<1> HIDE DEF p
<1>6. PICK new \in WatchType :
        /\ watch' = [watch EXCEPT ![w] = new] /\ new.phase = watch[w].phase
        /\ new.polls[t] = p /\ \A u \in Tasks \ {t} : new.polls[u] = watch[w].polls[u]
  <2>1. /\ With(w, t, p) \in WatchType /\ With(w, t, p).phase = watch[w].phase
        /\ With(w, t, p).polls[t] = p
        /\ \A u \in Tasks \ {t} : With(w, t, p).polls[u] = watch[w].polls[u]
    BY <1>1, <1>4, WithFacts
  <2>2. [watch EXCEPT ![w].polls[t] = p] = [watch EXCEPT ![w] = With(w, t, p)]
    BY DEF With
  <2>3. QED
    BY <1>5, <2>1, <2>2
<1>7. /\ status' \in [Tasks -> Statuses]
      /\ \A u \in Tasks : status'[u] \in {status[u], "gone"}
      /\ status'[t] = status[t] /\ owed' \subseteq owed
  <2>1. status \in [Tasks -> Statuses]
    BY <1>1 DEF TabTypeOK
  <2>2. QED
    BY <1>1, <1>3, <2>1, TrimMoves
<1>8. TabTypeOK'
  <2>1. watch' \in [Watches -> WatchType]
    BY <1>1, <1>6, OneWatch
  <2>2. QED
    BY <1>1, <1>2, <1>7, <2>1 DEF TabTypeOK, WatchType
<1>9. \A u \in Tasks : /\ status'[u] = "new" => status[u] = "new"
                       /\ status'[u] \in Unfinished => status[u] \in Unfinished
  BY <1>7 DEF Unfinished
<1>10. \A u \in Tasks : watch[w].polls[u].at = "off" \/ watch[w].polls[u].at \in Past
  BY <1>2, Under DEF Past
<1>11. \A u \in Tasks : /\ new.polls[u].at # "post"
                        /\ new.polls[u].at = "off" \/ watch[w].polls[u].at \in Past
  BY <1>2, <1>4, <1>6, <1>10 DEF Past
<1>12. watch'[w] = new
  BY <1>1, <1>6, OneWatch
<1>13. \A u \in owed' : Final(w, u)' => Final(w, u) \/ status'[u] \notin Unfinished
  <2>1. ASSUME NEW u \in owed', u # t
        PROVE  Final(w, u)' => Final(w, u)
    BY <1>1, <1>6, <1>7, <1>12, <2>1 DEF Final
  <2>2. ASSUME t \in owed', Final(w, t)'
        PROVE  status'[t] \notin Unfinished
    <3>1. answer \in {"over", "404"}
      BY <1>4, <1>6, <1>12, <2>2 DEF Final
    <3>2. user = owner[t] /\ (status[t] \in Verdicts \/ status[t] \in {"new", "gone"})
      BY <1>3, <2>2, <3>1 DEF MaySee
    <3>3. QED
      BY <1>7, <3>2 DEF Unfinished
  <2>3. QED
    BY <2>1, <2>2
<1>14. \A u \in Tasks : watch[w].phase = "live" /\ watch[w].polls[u].at \in Past
                           => new.phase = "live" /\ new.polls[u].at \in Past
  BY <1>4, <1>6 DEF Past
<1>15. stored' \subseteq Tasks
  BY <1>8 DEF TabTypeOK
<1>16. QED
  BY <1>2, <1>6, <1>7, <1>8, <1>9, <1>11, <1>13, <1>14, <1>15, GoesOn

\* A poll that asks again stays in its watch.
LEMMA AsksAgain ==
    ASSUME TabInv, NEW w \in Watches, NEW t \in Tasks, watch[w].polls[t].at \in Past,
           NEW n \in 0 .. FailureLimit, watch' = [watch EXCEPT ![w].polls[t] = Asking(n)],
           UNCHANGED <<status, owner, user, page, stored, uploading, owed>>
    PROVE  TabInv'
<1>1. TabTypeOK /\ owed \subseteq Tasks /\ stored \subseteq Tasks
  BY DEF TabInv, TabTypeOK
<1>2. Asking(n) \in Poll /\ Asking(n).at = "ask"
  BY KnownPolls
<1>3. PICK new \in WatchType :
        /\ watch' = [watch EXCEPT ![w] = new] /\ new.phase = watch[w].phase
        /\ new.polls[t] = Asking(n)
        /\ \A u \in Tasks \ {t} : new.polls[u] = watch[w].polls[u]
  <2>1. /\ With(w, t, Asking(n)) \in WatchType /\ With(w, t, Asking(n)).phase = watch[w].phase
        /\ With(w, t, Asking(n)).polls[t] = Asking(n)
        /\ \A u \in Tasks \ {t} : With(w, t, Asking(n)).polls[u] = watch[w].polls[u]
    BY <1>1, <1>2, WithFacts
  <2>2. watch' = [watch EXCEPT ![w] = With(w, t, Asking(n))]
    BY DEF With
  <2>3. QED
    BY <2>1, <2>2
<1>4. watch' \in [Watches -> WatchType] /\ watch'[w] = new
  BY <1>1, <1>3, OneWatch
<1>5. TabTypeOK'
  BY <1>1, <1>4 DEF TabTypeOK, WatchType
<1>6. \A u \in Tasks : watch[w].polls[u].at = "off" \/ watch[w].polls[u].at \in Past
  BY Under
<1>7. \A u \in Tasks : /\ new.polls[u].at # "post"
                       /\ new.polls[u].at = "off" \/ watch[w].polls[u].at \in Past
  BY <1>2, <1>3, <1>6 DEF Past
<1>8. \A u \in owed : Final(w, u)' => Final(w, u)
  BY <1>1, <1>2, <1>3, <1>4 DEF Final
<1>9. \A u \in Tasks : watch[w].phase = "live" /\ watch[w].polls[u].at \in Past
                          => new.phase = "live" /\ new.polls[u].at \in Past
  BY <1>2, <1>3 DEF Past
<1>10. QED
  BY <1>1, <1>3, <1>5, <1>7, <1>8, <1>9, GoesOn

Ended == [NoPoll EXCEPT !.at = "ended"]

\* The last poll of a live watch to end forgets what the watch was about, all of it
\* over by then; another one forgets nothing.
LEMMA EndKeeps ==
    ASSUME TabInv, NEW w \in Watches, NEW t \in Tasks, watch[w].polls[t].at = "reply",
           PollEnds(w, t), UNCHANGED <<status, owner, user, page, uploading>>,
           owed' \subseteq owed, t \in owed' => status[t] \notin Unfinished
    PROVE  TabInv'
<1>1. TabTypeOK /\ owed \subseteq Tasks /\ stored \subseteq Tasks
  BY DEF TabInv, TabTypeOK
<1>2. Ended \in Poll /\ Ended.at = "ended"
  BY KnownPolls DEF Ended
<1> DEFINE polls == [watch[w].polls EXCEPT ![t] = Ended]
           open == \E u \in Tasks : polls[u].at \in {"ask", "reply"}
<1>3. /\ watch' = [watch EXCEPT ![w] =
                      IF open THEN [@ EXCEPT !.polls = polls]
                      ELSE IF @.phase = "left" THEN NoWatch
                      ELSE [phase |-> "refresh", polls |-> polls]]
      /\ stored' = IF ~open /\ watch[w].phase = "live" THEN StoredAfter(w, TRUE) ELSE stored
  BY DEF PollEnds, Ended
<1>4. /\ watch[w] \in WatchType /\ watch[w].polls \in [Tasks -> Poll]
  BY <1>1, WatchFacts
<1>5. /\ polls \in [Tasks -> Poll] /\ polls[t] = Ended
      /\ \A u \in Tasks \ {t} : polls[u] = watch[w].polls[u]
  BY <1>2, <1>4
<1>6. open <=> \E u \in Tasks : polls[u].at \in {"ask", "reply"}
  OBVIOUS
<1> HIDE DEF polls, open
<1>7. \A u \in Tasks : watch[w].polls[u].at = "off" \/ watch[w].polls[u].at \in Past
  BY Under DEF Past
<1>8. PICK new \in WatchType :
        /\ watch' = [watch EXCEPT ![w] = new]
        /\ new = NoWatch \/ new.polls = polls
        /\ open => new.phase = watch[w].phase /\ new.polls = polls
        /\ ~open => new.phase # "live"
  <2>1. CASE open
    <3>1. [watch[w] EXCEPT !.polls = polls] \in WatchType
      BY <1>4, <1>5 DEF WatchType
    <3>2. /\ [watch[w] EXCEPT !.polls = polls].phase = watch[w].phase
          /\ [watch[w] EXCEPT !.polls = polls].polls = polls
      BY <1>4 DEF WatchType
    <3>3. watch' = [watch EXCEPT ![w] = [watch[w] EXCEPT !.polls = polls]]
      BY <1>3, <2>1
    <3>4. QED
      BY <2>1, <3>1, <3>2, <3>3
  <2>2. CASE ~open /\ watch[w].phase = "left"
    <3>1. watch' = [watch EXCEPT ![w] = NoWatch]
      BY <1>3, <2>2
    <3>2. QED
      BY <2>2, <3>1, KnownWatches
  <2>3. CASE ~open /\ watch[w].phase # "left"
    <3>1. watch' = [watch EXCEPT ![w] = [phase |-> "refresh", polls |-> polls]]
      BY <1>3, <2>3
    <3>2. [phase |-> "refresh", polls |-> polls] \in WatchType
      BY <1>5 DEF WatchType
    <3>3. QED
      BY <2>3, <3>1, <3>2
  <2>4. QED
    BY <2>1, <2>2, <2>3
<1>9. watch' \in [Watches -> WatchType] /\ watch'[w] = new
  BY <1>1, <1>8, OneWatch
<1>10. stored' \subseteq stored
  BY <1>3 DEF StoredAfter
<1>11. TabTypeOK'
  BY <1>1, <1>9, <1>10 DEF TabTypeOK, WatchType
<1>12. \A u \in Tasks : /\ new.polls[u].at # "post"
                        /\ new.polls[u].at = "off" \/ watch[w].polls[u].at \in Past
  <2>1. CASE new = NoWatch
    BY <2>1, KnownWatches
  <2>2. CASE new.polls = polls
    BY <1>2, <1>5, <1>7, <2>2 DEF Past
  <2>3. QED
    BY <1>8, <2>1, <2>2
<1>13. \A u \in owed' : Final(w, u)' => Final(w, u) \/ status'[u] \notin Unfinished
  <2>1. ASSUME NEW u \in owed', Final(w, u)'
        PROVE  Final(w, u) \/ status'[u] \notin Unfinished
    <3>1. u \in Tasks
      BY <1>1
    <3>2. CASE u = t
      BY <3>2
    <3>3. CASE u # t /\ new = NoWatch
      BY <1>9, <2>1, <3>1, <3>3, KnownWatches DEF Final
    <3>4. CASE u # t /\ new.polls = polls
      <4>1. new.polls[u] = watch[w].polls[u]
        BY <1>5, <3>1, <3>4
      <4>2. new.phase = "live" => watch[w].phase = "live"
        BY <1>8
      <4>3. QED
        BY <1>9, <2>1, <4>1, <4>2 DEF Final
    <3>5. QED
      BY <1>8, <3>2, <3>3, <3>4
  <2>2. QED
    BY <2>1
<1>14. \A u \in owed' : u \in stored /\ status'[u] \in Unfinished => u \in stored'
  <2>1. ASSUME NEW u \in owed', u \in stored, u \notin stored'
        PROVE  status'[u] \notin Unfinished
    <3>1. u \in Tasks
      BY <1>1
    <3>2. ~open /\ watch[w].phase = "live" /\ u \in TasksOf(w)
      BY <1>3, <2>1 DEF StoredAfter, Forgets
    <3>3. CASE u = t
      BY <3>3
    <3>4. CASE u # t
      <4>1. watch[w].polls[u].at \notin {"ask", "reply"}
        BY <1>5, <1>6, <3>1, <3>2, <3>4
      <4>2. watch[w].polls[u].at = "ended"
        BY <1>7, <3>1, <3>2, <4>1 DEF TasksOf, Past
      <4>3. Final(w, u)
        BY <3>2, <4>2 DEF Final
      <4>4. QED
        BY <4>3 DEF TabInv, EndsEarned
    <3>5. QED
      BY <3>3, <3>4
  <2>2. QED
    BY <2>1
<1>15. \A u \in stored' : watch[w].phase = "live" /\ watch[w].polls[u].at \in Past
                             => new.phase = "live" /\ new.polls[u].at \in Past
  <2>1. ASSUME NEW u \in stored', watch[w].phase = "live", watch[w].polls[u].at \in Past
        PROVE  new.phase = "live" /\ new.polls[u].at \in Past
    <3>1. u \in Tasks
      BY <1>1, <1>10
    <3>2. u \in TasksOf(w)
      BY <2>1, <3>1 DEF TasksOf, Past
    <3>3. open
      BY <1>3, <2>1, <3>2 DEF StoredAfter, Forgets
    <3>4. QED
      BY <1>2, <1>5, <1>8, <2>1, <3>1, <3>3 DEF Past
  <2>2. QED
    BY <2>1
<1>16. QED
  BY <1>8, <1>10, <1>11, <1>12, <1>13, <1>14, <1>15, GoesOn

\* An answer ends the poll, or makes it ask again, by what it says.
LEMMA ReplyKeeps ==
    ASSUME TabInv, NEW w \in Watches, NEW t \in Tasks, Reply(w, t)
    PROVE  TabInv'
<1>1. watch[w].polls[t] \in Poll
  BY WatchFacts DEF TabInv
<1>2. /\ UNCHANGED <<status, owner, user>>
      /\ watch[w].polls[t].at = "reply" /\ watch[w].polls[t].at \in Past
  BY DEF Reply, Past
<1>3. CASE /\ watch[w].polls[t].answer \in {"running", "404"}
           /\ watch' = [watch EXCEPT ![w].polls[t] = Asking(0)]
           /\ UNCHANGED <<page, stored, uploading, owed>>
  <2>1. 0 \in 0 .. FailureLimit
    OBVIOUS
  <2>2. QED
    BY <1>2, <1>3, <2>1, AsksAgain
<1>4. CASE /\ ~GivesUp(watch[w].polls[t])
           /\ watch' = [watch EXCEPT ![w].polls[t] = Asking(watch[w].polls[t].fails + 1)]
           /\ UNCHANGED <<page, stored, uploading, owed>>
  <2>1. watch[w].polls[t].fails + 1 \in 0 .. FailureLimit
    BY <1>1, <1>4 DEF GivesUp, Poll
  <2>2. QED
    BY <1>2, <1>4, <2>1, AsksAgain
<1>5. CASE PollEnds(w, t) /\ owed' = owed \ {t} /\ UNCHANGED <<page, uploading>>
  BY <1>2, <1>5, EndKeeps
<1>6. CASE /\ IsFinal(watch[w].polls[t].answer)
           /\ PollEnds(w, t) /\ UNCHANGED <<page, uploading, owed>>
  <2>1. Final(w, t)
    BY <1>2, <1>6 DEF Final, IsFinal
  <2>2. t \in owed => status[t] \notin Unfinished
    BY <2>1 DEF TabInv, EndsEarned
  <2>3. QED
    BY <1>2, <1>6, <2>2, EndKeeps
<1>7. QED
  BY <1>3, <1>4, <1>5, <1>6 DEF Reply

\* A 401 rejects the watch and the page gives way to the login form; what was
\* watched stays remembered.
LEMMA SignedOutKeeps ==
    ASSUME TabInv, NEW w \in Watches, NEW t \in Tasks, SignedOut(w, t)
    PROVE  TabInv'
<1>1. TabTypeOK /\ owed \subseteq Tasks /\ stored \subseteq Tasks
  BY DEF TabInv, TabTypeOK
<1>2. Ended \in Poll /\ Ended.at = "ended"
  BY KnownPolls DEF Ended
<1> DEFINE rest == [watch[w].polls EXCEPT ![t] = Ended]
           open == \E u \in Tasks : rest[u].at \in {"ask", "reply"}
<1>3. /\ watch[w].polls[t].at = "reply"
      /\ watch' = [watch EXCEPT ![w] = IF open THEN [phase |-> "left", polls |-> rest] ELSE NoWatch]
      /\ page' = "login" /\ UNCHANGED <<status, owner, user, owed>>
      /\ stored' = stored /\ uploading' \in BOOLEAN
  BY <1>1 DEF SignedOut, Ended, Leaves, StoredAfter, Forgets, TabTypeOK
<1>4. watch[w].polls \in [Tasks -> Poll]
  BY <1>1, WatchFacts
<1>5. /\ rest \in [Tasks -> Poll] /\ rest[t] = Ended
      /\ \A u \in Tasks \ {t} : rest[u] = watch[w].polls[u]
  BY <1>2, <1>4
<1> HIDE DEF rest, open
<1>6. PICK new \in WatchType :
        /\ watch' = [watch EXCEPT ![w] = new] /\ new.phase # "live"
        /\ new = NoWatch \/ new.polls = rest
  <2>1. [phase |-> "left", polls |-> rest] \in WatchType
    BY <1>5 DEF WatchType
  <2>2. QED
    BY <1>3, <2>1, KnownWatches
<1>7. watch' \in [Watches -> WatchType] /\ watch'[w] = new
  BY <1>1, <1>6, OneWatch
<1>8. TabTypeOK'
  BY <1>1, <1>3, <1>7 DEF TabTypeOK, WatchType
<1>9. \A u \in Tasks : watch[w].polls[u].at = "off" \/ watch[w].polls[u].at \in Past
  BY <1>3, Under DEF Past
<1>10. \A u \in Tasks : /\ new.polls[u].at # "post"
                        /\ new.polls[u].at = "off" \/ watch[w].polls[u].at \in Past
  <2>1. CASE new = NoWatch
    BY <2>1, KnownWatches
  <2>2. CASE new.polls = rest
    BY <1>2, <1>3, <1>5, <1>9, <2>2 DEF Past
  <2>3. QED
    BY <1>6, <2>1, <2>2
<1>11. \A u \in owed' : Final(w, u)' => Final(w, u)
  <2>1. ASSUME NEW u \in owed', Final(w, u)'
        PROVE  Final(w, u)
    <3>1. u \in Tasks /\ new.polls[u].at = "reply" /\ new.polls[u].answer \in {"over", "404"}
      BY <1>1, <1>3, <1>6, <1>7, <2>1 DEF Final
    <3>2. new # NoWatch
      BY <3>1, KnownWatches
    <3>3. u # t /\ new.polls[u] = watch[w].polls[u]
      BY <1>2, <1>5, <1>6, <3>1, <3>2
    <3>4. QED
      BY <3>1, <3>3 DEF Final
  <2>2. QED
    BY <2>1
<1>12. QED
  BY <1>3, <1>6, <1>8, <1>10, <1>11, GoesOn
-----------------------------------------------------------------------------
(***************************************************************************)
(* The server, and all steps.                                              *)
(***************************************************************************)

\* A task goes on to its end, and a restarted server knows none.
LEMMA ServerKeeps ==
    ASSUME TabInv, (\E t \in Tasks : ServerStep(t)) \/ ServerRestarts
    PROVE  TabInv'
<1>1. TabTypeOK /\ status \in [Tasks -> Statuses]
  BY DEF TabInv, TabTypeOK
<1>2. UNCHANGED <<owner, user, page, stored, uploading, watch, owed>>
  BY DEF ServerStep, ServerRestarts, cookie, tab
<1>3. /\ status' \in [Tasks -> Statuses]
      /\ \A u \in Tasks : /\ status'[u] = "new" => status[u] = "new"
                          /\ status'[u] \in Unfinished => status[u] \in Unfinished
  <2>1. CASE \E t \in Tasks : ServerStep(t)
    <3>1. PICK t \in Tasks, verdict \in Verdicts : status' = [status EXCEPT ![t] = verdict]
      BY <2>1 DEF ServerStep, Conclude
    <3>2. verdict \in Statuses /\ verdict # "new" /\ verdict \notin Unfinished
      BY DEF Statuses, Unfinished
    <3>3. QED
      BY <1>1, <3>1, <3>2
  <2>2. CASE ServerRestarts
    <3>1. PICK waiting \in SUBSET {t \in Tasks : status[t] = "new"} :
              status' = [t \in Tasks |-> IF t \in waiting THEN "new" ELSE "gone"]
      BY <2>2 DEF ServerRestarts, TableRestart
    <3>2. QED
      BY <3>1 DEF Statuses, Unfinished
  <2>3. QED
    BY <2>1, <2>2
<1>4. TabTypeOK'
  BY <1>1, <1>2, <1>3 DEF TabTypeOK
<1>5. QED
  BY <1>2, <1>3, <1>4, Undisturbed

LEMMA TabNextKeeps ==
    ASSUME TabInv, [TabNext]_tabVars
    PROVE  TabInv'
<1>1. ASSUME NEW w \in Watches, NEW t \in Tasks,
             BeginUpload(w, t) \/ PostStep(w, t) \/ PollStep(w, t)
      PROVE  TabInv'
  BY <1>1, BeginKeeps, AcceptedKeeps, FailedKeeps, AskKeeps, ReplyKeeps, SignedOutKeeps
     DEF PostStep, PollStep
<1>2. CASE UNCHANGED tabVars
  <2>1. TabTypeOK'
    BY <1>2 DEF TabInv, TabTypeOK, tabVars
  <2>2. QED
    BY <1>2, <2>1, Undisturbed DEF tabVars
<1>3. QED
  BY <1>1, <1>2, SessionKeeps, ReloadKeeps, RefreshKeeps, ServerKeeps DEF TabNext

LEMMA TabStarts ==
    ASSUME TabInit
    PROVE  TabInv
<1>1. /\ status = [t \in Tasks |-> "new"] /\ owner = [t \in Tasks |-> Nobody]
      /\ user = Nobody /\ page = "loading" /\ stored = {} /\ owed = {}
      /\ uploading = FALSE /\ watch = [w \in Watches |-> NoWatch]
  BY DEF TabInit, TableInit
<1>2. \A w \in Watches : watch[w] \in WatchType /\ \A t \in Tasks : watch[w].polls[t].at = "off"
  BY <1>1, KnownWatches
<1>3. watch \in [Watches -> WatchType]
  BY <1>1, KnownWatches
<1>4. TabTypeOK
  BY <1>1, <1>3 DEF TabTypeOK, WatchType, Statuses
<1>5. NewUnknown /\ PostsAlone
  BY <1>1, <1>2 DEF NewUnknown, PostsAlone, Unasked
<1>6. EndsEarned /\ NotLost /\ WatchedOn
  BY <1>1 DEF EndsEarned, NotLost, WatchedOn
<1>7. QED
  BY <1>4, <1>5, <1>6 DEF TabInv

\* Every variable of the tab has its type, those of the table of its server included.
THEOREM TabTyped == TabSpec => []TabTypeOK
<1>1. TabInv => TabTypeOK
  BY DEF TabInv
<1>2. TabInv /\ [TabNext]_tabVars => TabInv'
  BY TabNextKeeps
<1>3. QED
  BY <1>1, <1>2, TabStarts, PTL DEF TabSpec

\* What a tab has been told of stays in its sessionStorage until it is over
\* (watchTasks and forgetTaskIds, knowledge.ts:65, 128).
THEOREM TasksNotLost == TabSpec => []NotLost
<1>1. TabInv => NotLost
  BY DEF TabInv
<1>2. TabInv /\ [TabNext]_tabVars => TabInv'
  BY TabNextKeeps
<1>3. QED
  BY <1>1, <1>2, TabStarts, PTL DEF TabSpec

\* While the page is there, everything remembered is watched
\* (resumeUploadTasks, knowledge.ts:161, and the 401s of App.tsx:18).
THEOREM StoredWatched == TabSpec => []Watched
<1>1. TabInv => Watched
  <2>1. ASSUME TabInv, page = "kb", NEW t \in stored
        PROVE  \E w \in Watches : watch[w].phase = "live" /\ t \in TasksOf(w)
    <3>1. PICK w \in Watches : watch[w].phase = "live" /\ watch[w].polls[t].at \in Past
      BY <2>1 DEF TabInv, WatchedOn
    <3>2. t \in Tasks
      BY <2>1 DEF TabInv, TabTypeOK
    <3>3. t \in TasksOf(w)
      BY <3>1, <3>2 DEF TasksOf, Past
    <3>4. QED
      BY <3>1, <3>3
  <2>2. QED
    BY <2>1 DEF Watched
<1>2. TabInv /\ [TabNext]_tabVars => TabInv'
  BY TabNextKeeps
<1>3. QED
  BY <1>1, <1>2, TabStarts, PTL DEF TabSpec
-----------------------------------------------------------------------------
HIDE WatchConstants
USE HealthConstants
-----------------------------------------------------------------------------
(***************************************************************************)
(* The health check: the inductive invariant.                              *)
(***************************************************************************)

\* The saved incident of c is the one the ledger shows open.
Agrees(c) ==
    /\ IsOpen(c) <=> saved[c] # None
    /\ IsOpen(c) => saved[c].first = ledger[c].id /\ saved[c].last = ledger[c].at

\* No event is younger than the run, and the run no younger than the clock.
EventsDated ==
    /\ run.at <= clock
    /\ \A c \in Checks : ledger[c] # None => ledger[c].at <= run.at

\* What no fault has touched agrees, but for what the run under way appended.
SavedAgrees ==
    \A c \in Checks \ torn :
        run.phase \notin {"alerts", "recoveries"} \/ c \notin Appended => Agrees(c)

Running == run.phase \in {"alerts", "recoveries"}

\* The run under way goes by what was saved; checks not yet looked at, and those
\* that are well, have no entry, and what is appended is accounted for.
Waiting == IF run.phase = "alerts" THEN run.todo ELSE {}
Closed == IF run.phase = "recoveries" THEN Recovered \ run.todo ELSE {}

RunAccounts ==
    Running =>
        /\ run.at > 0
        /\ run.todo \subseteq IF run.phase = "alerts" THEN run.critical ELSE Recovered
        /\ \A c \in Checks \ torn : run.prior[c] = saved[c]
        /\ \A c \in run.critical \ Waiting :
              /\ run.next[c] # None
              /\ IF c \in Appended
                 THEN /\ ledger[c].event = "alert" /\ ledger[c].id = run.next[c].first
                      /\ run.next[c].last = run.at
                 ELSE run.next[c] = run.prior[c]
        /\ \A c \in (Checks \ run.critical) \cup Waiting : run.next[c] = None
        /\ \A c \in Closed : c \in Appended /\ ledger[c].event = "recovery"
        /\ Appended \subseteq (run.critical \ Waiting) \cup Closed

\* A run that ended has decided.
RunDecided ==
    run.phase \in {"idle", "send"} /\ run.at > 0 =>
        \A c \in Checks \ torn : IsOpen(c) <=> c \in run.critical

\* The run found the slow requests that were there when it began.
Since == IF run.at > Window THEN run.at - Window ELSE 0

SlowFound ==
    /\ \A i \in DOMAIN access : access[i].at <= clock
    /\ run.at > 0 =>
          /\ SlowIn(Since, run.at - 1) >= MinSlow => "slow_requests" \in run.critical
          /\ "slow_requests" \in run.critical => SlowIn(Since, run.at) >= MinSlow

HealthInv ==
    HealthTypeOK /\ EventsDated /\ SavedAgrees /\ RunAccounts /\ RunDecided /\ SlowFound
-----------------------------------------------------------------------------
\* What the incidents and events that there are have.
LEMMA NotNone ==
    ASSUME HealthTypeOK, NEW c \in Checks
    PROVE  /\ saved[c] # None => saved[c] \in Incident
           /\ run.prior[c] # None => run.prior[c] \in Incident
           /\ run.next[c] # None => run.next[c] \in Incident
           /\ ledger[c] # None => ledger[c] \in Event
BY DEF HealthTypeOK

\* An event or an incident is not the mark of there being none.
LEMMA NoneIsNeither == None \notin Incident /\ None \notin Event
<1>1. Incident \subseteq [first : Nat, last : Nat]
    BY DEF Incident, Ticks
<1>2. Event \subseteq [event : {"alert", "recovery"}, id : Nat, at : Nat]
    BY DEF Event, Ticks
<1> QED BY <1>1, <1>2

\* What the access log holds.
LEMMA AccessTyped ==
    ASSUME HealthTypeOK, NEW i \in DOMAIN access
    PROVE  access[i] \in [at : Ticks, kind : Served]
<1>1. access \in Seq([at : Ticks, kind : Served])
    BY DEF HealthTypeOK
<1>2. i \in 1..Len(access)
    BY <1>1
<1> QED BY <1>1, <1>2, ElementOfSeq

\* The number of slow requests in a window is a number.
LEMMA SlowIsFinite ==
    ASSUME NEW S, HealthTypeOK, S \subseteq DOMAIN access
    PROVE  IsFiniteSet(S) /\ Cardinality(S) \in Nat
<1>1. DOMAIN access = 1..Len(access) /\ Len(access) \in Nat
    BY DEF HealthTypeOK
<1>2. IsFiniteSet(1..Len(access))
    BY <1>1, FS_Interval
<1>3. IsFiniteSet(S)
    BY <1>1, <1>2, FS_Subset
<1> QED BY <1>3, FS_CardinalityType
-----------------------------------------------------------------------------
LEMMA HealthStarts == HealthInit => HealthInv
<1> SUFFICES ASSUME HealthInit PROVE HealthInv
    OBVIOUS
<1> USE DEF HealthInit, NoRun
<1>1. PICK legacy \in {{}, {"ready"}} :
          /\ saved = Legacy(legacy)
          /\ ledger = [c \in Checks |->
                          IF c \in legacy THEN [event |-> "alert", id |-> 0, at |-> 0]
                          ELSE None]
    OBVIOUS
<1>2. 0 \in Ticks /\ [first |-> 0, last |-> 0] \in Incident
      /\ [event |-> "alert", id |-> 0, at |-> 0] \in Event
    BY DEF Ticks, Incident, Event
<1>3. saved \in [Checks -> Incident \cup {None}] /\ ledger \in [Checks -> Event \cup {None}]
    BY <1>1, <1>2 DEF Legacy
<1>4. HealthTypeOK
    BY <1>2, <1>3 DEF HealthTypeOK
<1>5. EventsDated
    BY <1>1 DEF EventsDated
<1>6. SavedAgrees
    BY <1>1, <1>2, NoneIsNeither DEF SavedAgrees, Agrees, IsOpen, Legacy
<1>7. RunAccounts /\ RunDecided /\ SlowFound
    BY DEF RunAccounts, Running, RunDecided, SlowFound
<1> QED BY <1>4, <1>5, <1>6, <1>7 DEF HealthInv
-----------------------------------------------------------------------------
\* What the service does meanwhile leaves the run and its files alone.
LEMMA FilesKeep ==
    ASSUME HealthInv, UNCHANGED <<saved, ledger, run, torn>>, clock <= clock', clock' \in Ticks
    PROVE  EventsDated' /\ SavedAgrees' /\ RunAccounts' /\ RunDecided'
<1>1. EventsDated'
    <2>1. run.at <= clock'
        <3>1. run.at \in Nat /\ clock \in Nat /\ clock' \in Nat
            BY DEF HealthInv, HealthTypeOK, Ticks
        <3>2. run.at <= clock
            BY DEF HealthInv, EventsDated
        <3> QED BY <3>1, <3>2
    <2> QED BY <2>1 DEF HealthInv, EventsDated
<1>2. SavedAgrees'
    BY DEF HealthInv, SavedAgrees, Agrees, IsOpen, Appended
<1>3. RunAccounts'
    BY DEF HealthInv, RunAccounts, Running, Waiting, Closed, Recovered, Appended
<1>4. RunDecided'
    BY DEF HealthInv, RunDecided, IsOpen
<1> QED BY <1>1, <1>2, <1>3, <1>4

\* Time makes no request slow.
LEMMA SlowKeeps ==
    ASSUME HealthInv, UNCHANGED <<access, run>>, clock <= clock', clock' \in Ticks
    PROVE  SlowFound'
<1>1. \A i \in DOMAIN access : access[i].at <= clock'
    <2> SUFFICES ASSUME NEW i \in DOMAIN access PROVE access[i].at <= clock'
        OBVIOUS
    <2>2. access[i] \in [at : Ticks, kind : Served]
        BY AccessTyped DEF HealthInv
    <2>3. access[i].at \in Nat /\ clock \in Nat /\ clock' \in Nat
        BY <2>2 DEF HealthInv, HealthTypeOK, Ticks
    <2> QED BY <2>3 DEF HealthInv, SlowFound
<1> QED BY <1>1 DEF HealthInv, SlowFound, SlowIn, Since

\* A request that ends now adds to what the window holds up to now, and nothing to
\* what it held before.
LEMMA ServeKeeps == HealthInv /\ (\E kind \in Served : Serve(kind)) => HealthInv'
<1> SUFFICES ASSUME HealthInv, NEW kind \in Served, Serve(kind) PROVE HealthInv'
    OBVIOUS
<1> DEFINE new == [at |-> clock, kind |-> kind]
<1>1. UNCHANGED <<saved, ledger, run, torn, clock, faults, service, disk, backups, errors>>
      /\ access' = Append(access, new) /\ events' = events + 1 /\ events < MaxEvents
    BY DEF Serve, Elsewhere, Happens
<1>2. HealthTypeOK
    BY DEF HealthInv
<1>3. /\ clock \in Ticks /\ clock \in Nat /\ new \in [at : Ticks, kind : Served]
      /\ access \in Seq([at : Ticks, kind : Served]) /\ run.at \in Nat /\ Since \in Nat
    BY <1>2 DEF HealthTypeOK, Ticks, Since
<1>4. access' \in Seq([at : Ticks, kind : Served])
    BY <1>1, <1>3, SMTT(30)
<1>5. HealthTypeOK'
    BY <1>1, <1>2, <1>4 DEF HealthTypeOK
<1>6. EventsDated' /\ SavedAgrees' /\ RunAccounts' /\ RunDecided'
    BY <1>1, <1>3, FilesKeep
<1>7. /\ DOMAIN access' = 1..(Len(access) + 1) /\ DOMAIN access = 1..Len(access)
      /\ Len(access) \in Nat /\ \A i \in DOMAIN access : access'[i] = access[i]
      /\ access'[Len(access) + 1] = new
    BY <1>1, <1>3, SMTT(30)
<1> HIDE DEF new
<1>8. \A i \in DOMAIN access' : access'[i].at <= clock
    <2>1. new.at = clock
        BY DEF new
    <2> SUFFICES ASSUME NEW i \in DOMAIN access' PROVE access'[i].at <= clock
        OBVIOUS
    <2>2. i \in DOMAIN access \/ i = Len(access) + 1
        BY <1>7
    <2> QED BY <2>1, <2>2, <1>3, <1>7 DEF HealthInv, SlowFound
<1> DEFINE From(a, to) == {i \in DOMAIN a :
              /\ a[i].at \in Since..to
              /\ \/ a[i].kind.route = "request" /\ (a[i].kind.long \/ a[i].kind.slowModel)
                 \/ a[i].kind.route = "sse" /\ a[i].kind.slowModel
              /\ a[i].kind.outcome \in {"ok", "error"}}
<1>9. \A to \in Int : /\ SlowIn(Since, to) = Cardinality(From(access, to))
                    /\ From(access, to) \subseteq From(access', to)
    BY <1>7, SMTT(30) DEF SlowIn
<1>10. /\ SlowIn(Since, run.at)' = Cardinality(From(access', run.at))
       /\ SlowIn(Since, run.at - 1)' = Cardinality(From(access', run.at - 1))
    BY <1>1 DEF SlowIn, Since
<1>11. run.at > 0 => SlowIn(Since, run.at - 1)' = SlowIn(Since, run.at - 1)
    <2> SUFFICES ASSUME run.at > 0 PROVE SlowIn(Since, run.at - 1)' = SlowIn(Since, run.at - 1)
        OBVIOUS
    <2>1. run.at <= clock
        BY DEF HealthInv, EventsDated
    <2>2. access'[Len(access) + 1].at \notin Since..(run.at - 1)
        BY <2>1, <1>3, <1>7, SMTT(30) DEF new
    <2>3. From(access', run.at - 1) \subseteq From(access, run.at - 1)
        BY <2>2, <1>7, SMTT(30)
    <2> HIDE DEF From
    <2>4. run.at - 1 \in Int
        BY <1>3
    <2>5. /\ SlowIn(Since, run.at - 1) = Cardinality(From(access, run.at - 1))
          /\ From(access, run.at - 1) \subseteq From(access', run.at - 1)
        BY <2>4, <1>9
    <2>6. From(access', run.at - 1) = From(access, run.at - 1)
        BY <2>3, <2>5
    <2> QED BY <2>5, <2>6, <1>10
<1>12. /\ SlowIn(Since, run.at)' >= SlowIn(Since, run.at)
       /\ SlowIn(Since, run.at) \in Nat /\ SlowIn(Since, run.at)' \in Nat
    <2>1. From(access', run.at) \subseteq DOMAIN access'
        OBVIOUS
    <2> HIDE DEF From
    <2>2. IsFiniteSet(1..(Len(access) + 1))
        BY <1>7, FS_Interval
    <2>3. IsFiniteSet(From(access', run.at))
        BY <2>1, <2>2, <1>7, FS_Subset
    <2>4. From(access, run.at) \subseteq From(access', run.at)
        BY <1>3, <1>9
    <2>5. /\ Cardinality(From(access, run.at)) <= Cardinality(From(access', run.at))
          /\ Cardinality(From(access, run.at)) \in Nat
          /\ Cardinality(From(access', run.at)) \in Nat
        BY <2>3, <2>4, FS_Subset, FS_CardinalityType
    <2> QED BY <2>5, <1>3, <1>9, <1>10, SMTT(30)
<1>13. SlowFound'
    BY <1>1, <1>8, <1>11, <1>12, SMTT(30) DEF HealthInv, SlowFound, Since
<1> QED BY <1>5, <1>6, <1>13 DEF HealthInv
-----------------------------------------------------------------------------
\* The other things that happen, and time, leave the requests alone as well.
LEMMA WorldKeeps ==
    HealthInv /\ ((\E call \in Calls \cup {None} : LogAuthFailure(call)) \/ ServiceChanges
                  \/ DiskChanges \/ BackupsChange) => HealthInv'
<1> SUFFICES ASSUME HealthInv, (\E call \in Calls \cup {None} : LogAuthFailure(call))
                               \/ ServiceChanges \/ DiskChanges \/ BackupsChange
             PROVE  HealthInv'
    OBVIOUS
<1>1. HealthTypeOK /\ clock \in Ticks /\ clock <= clock
    <2>1. HealthTypeOK /\ clock \in Ticks
        BY DEF HealthInv, HealthTypeOK
    <2> QED BY <2>1 DEF Ticks
<1>2. UNCHANGED <<Elsewhere, access>> /\ events < MaxEvents /\ events' = events + 1
    BY DEF LogAuthFailure, ServiceChanges, DiskChanges, BackupsChange, Happens
<1>3. events' \in 0..MaxEvents
    BY <1>1, <1>2 DEF HealthTypeOK
<1>4. /\ service' \in Services /\ disk' \in {"enough", "failing"} /\ backups' \subseteq Ticks
      /\ errors' \subseteq [at : Ticks, call : Calls \cup {None}]
    <2>1. CASE \E call \in Calls \cup {None} : LogAuthFailure(call)
        BY <2>1, <1>1 DEF LogAuthFailure, HealthTypeOK
    <2>2. CASE ServiceChanges
        BY <2>2, <1>1 DEF ServiceChanges, HealthTypeOK
    <2>3. CASE DiskChanges
        BY <2>3, <1>1 DEF DiskChanges, HealthTypeOK
    <2>4. CASE BackupsChange
        BY <2>4, <1>1 DEF BackupsChange, HealthTypeOK
    <2> QED BY <2>1, <2>2, <2>3, <2>4
<1>5. HealthTypeOK'
    BY <1>1, <1>2, <1>3, <1>4 DEF HealthTypeOK, Elsewhere
<1>6. UNCHANGED <<saved, ledger, run, torn, access>> /\ clock <= clock' /\ clock' \in Ticks
    BY <1>1, <1>2 DEF Elsewhere
<1>7. EventsDated' /\ SavedAgrees' /\ RunAccounts' /\ RunDecided'
    BY <1>6, FilesKeep
<1>8. SlowFound'
    BY <1>6, SlowKeeps
<1> QED BY <1>5, <1>7, <1>8 DEF HealthInv

\* The clock goes on.
LEMMA ClockKeeps == HealthInv /\ (ClockTicks \/ UNCHANGED healthVars) => HealthInv'
<1> SUFFICES ASSUME HealthInv, ClockTicks \/ UNCHANGED healthVars PROVE HealthInv'
    OBVIOUS
<1>1. HealthTypeOK /\ clock \in Ticks
    BY DEF HealthInv, HealthTypeOK
<1>2. UNCHANGED <<world, saved, ledger, run, torn, faults>>
    BY DEF ClockTicks, healthVars, world
<1>3. clock <= clock' /\ clock' \in Ticks
    BY <1>1 DEF ClockTicks, healthVars, Ticks
<1>4. HealthTypeOK'
    BY <1>1, <1>2, <1>3 DEF HealthTypeOK, world
<1>5. UNCHANGED <<saved, ledger, run, torn, access>>
    BY <1>2 DEF world
<1>6. EventsDated' /\ SavedAgrees' /\ RunAccounts' /\ RunDecided'
    BY <1>3, <1>5, FilesKeep
<1>7. SlowFound'
    BY <1>3, <1>5, SlowKeeps
<1> QED BY <1>4, <1>6, <1>7 DEF HealthInv
-----------------------------------------------------------------------------
\* The requests the check weighs are the slow ones of the window, and those
\* before the present moment are among them.
LEMMA WeighsTheSlow ==
    ASSUME HealthInv, NEW from, from = IF clock > Window THEN clock - Window ELSE 0
    PROVE  /\ SlowIn(from, clock - 1) >= MinSlow => SlowCritical
           /\ SlowCritical => SlowIn(from, clock) >= MinSlow
<1> DEFINE Weighed == {i \in Requests : IsSlow(access[i].kind)}
           From(to) == {i \in DOMAIN access :
              /\ access[i].at \in from..to
              /\ \/ access[i].kind.route = "request"
                    /\ (access[i].kind.long \/ access[i].kind.slowModel)
                 \/ access[i].kind.route = "sse" /\ access[i].kind.slowModel
              /\ access[i].kind.outcome \in {"ok", "error"}}
<1>1. access \in Seq([at : Ticks, kind : Served]) /\ clock \in Nat /\ Window \in Nat
      /\ MinSlow \in Nat /\ from \in Nat
    BY SMTT(30) DEF HealthInv, HealthTypeOK, Ticks
<1>2. \A i \in DOMAIN access : /\ access[i].at \in Nat /\ access[i].at <= clock
                               /\ access[i].kind \in Kinds
    <2> SUFFICES ASSUME NEW i \in DOMAIN access
                 PROVE  access[i].at \in Nat /\ access[i].at <= clock /\ access[i].kind \in Kinds
        OBVIOUS
    <2>1. access[i] \in [at : Ticks, kind : Served]
        BY AccessTyped DEF HealthInv
    <2> QED BY <2>1 DEF HealthInv, SlowFound, Ticks
<1>3. \A i \in DOMAIN access : Recent(access[i].at) <=> access[i].at >= from
    BY <1>1, <1>2, SMTT(30) DEF Recent
<1>4. \A kind \in Kinds :
          /\ kind.route # "/metrics" <=> kind.route \in {"request", "sse"}
          /\ kind.outcome # "interrupted" <=> kind.outcome \in {"ok", "error"}
    BY DEF Kinds
<1>5. \A i \in DOMAIN access :
          i \in Weighed <=>
              /\ access[i].at \in from..clock
              /\ \/ access[i].kind.route = "request"
                    /\ (access[i].kind.long \/ access[i].kind.slowModel)
                 \/ access[i].kind.route = "sse" /\ access[i].kind.slowModel
              /\ access[i].kind.outcome \in {"ok", "error"}
    BY <1>1, <1>2, <1>3, <1>4 DEF Requests, Counts, IsSlow
<1>6. Weighed = From(clock)
    BY <1>5 DEF Requests
<1>7. From(clock - 1) \subseteq From(clock)
    BY <1>1, <1>2
<1>8. From(clock) \subseteq DOMAIN access
    OBVIOUS
<1>9. SlowIn(from, clock) = Cardinality(From(clock))
      /\ SlowIn(from, clock - 1) = Cardinality(From(clock - 1))
    BY DEF SlowIn
<1>10. SlowCritical <=> Cardinality(Weighed) >= MinSlow
    BY DEF SlowCritical
<1> HIDE DEF Weighed, From
<1>11. IsFiniteSet(From(clock))
    BY <1>8, SlowIsFinite DEF HealthInv
<1>12. Cardinality(From(clock - 1)) <= Cardinality(From(clock))
       /\ Cardinality(From(clock)) \in Nat /\ Cardinality(From(clock - 1)) \in Nat
    BY <1>7, <1>11, FS_Subset, FS_CardinalityType
<1> QED BY <1>1, <1>6, <1>9, <1>10, <1>12

\* A run begins later than any event, so it has appended none, and has found what
\* the window holds.
LEMMA StartKeeps == HealthInv /\ StartRun => HealthInv'
<1> SUFFICES ASSUME HealthInv, StartRun PROVE HealthInv'
    OBVIOUS
<1>1. HealthTypeOK
    BY DEF HealthInv
<1>2. PICK prior \in {saved, [c \in Checks |-> None]} :
          /\ run' = [NoRun EXCEPT !.phase = "alerts", !.at = clock, !.prior = prior,
                                  !.critical = Critical, !.todo = Critical]
          /\ torn' = torn \cup {c \in Checks : prior[c] # saved[c]}
          /\ faults' = IF prior = saved THEN faults ELSE faults + 1
    BY DEF StartRun
<1>3. /\ run.phase \in {"idle", "died"} /\ run.at < clock /\ faults' <= MaxFaults
      /\ UNCHANGED <<clock, world, saved, ledger>>
    BY DEF StartRun
<1>4. Critical \subseteq Checks /\ prior \in [Checks -> Incident \cup {None}]
    BY <1>1 DEF Critical, HealthTypeOK
<1>5. /\ run'.phase = "alerts" /\ run'.at = clock /\ run'.prior = prior
      /\ run'.critical = Critical /\ run'.todo = Critical
      /\ run'.next = [c \in Checks |-> None]
    BY <1>2 DEF NoRun
<1>6. run.at \in Nat /\ clock \in Nat /\ clock \in Ticks /\ clock > 0
    BY <1>1, <1>3 DEF HealthTypeOK, Ticks
<1>7. HealthTypeOK'
    <2>1. faults' \in 0..MaxFaults
        BY <1>1, <1>2, <1>3 DEF HealthTypeOK
    <2>2. torn' \subseteq Checks
        BY <1>1, <1>2 DEF HealthTypeOK
    <2>3. run' \in [phase : {"idle", "alerts", "recoveries", "save", "send", "died"},
                    at : Ticks, critical : SUBSET Checks, todo : SUBSET Checks,
                    prior : [Checks -> Incident \cup {None}],
                    next : [Checks -> Incident \cup {None}]]
        BY <1>2, <1>4, <1>6 DEF NoRun
    <2> QED BY <2>1, <2>2, <2>3, <1>1, <1>3 DEF HealthTypeOK, world
<1>8. \A c \in Checks : ledger[c] # None => ledger[c].at \in Nat /\ ledger[c].at < clock
    <2> SUFFICES ASSUME NEW c \in Checks, ledger[c] # None
                 PROVE  ledger[c].at \in Nat /\ ledger[c].at < clock
        OBVIOUS
    <2>1. ledger[c] \in Event
        BY <1>1, NotNone
    <2> QED BY <2>1, <1>3, <1>6 DEF HealthInv, EventsDated, Event, Ticks
<1>9. Appended' = {}
    BY <1>3, <1>5, <1>6, <1>8 DEF Appended
<1>10. EventsDated'
    BY <1>3, <1>5, <1>6, <1>8 DEF EventsDated
<1>11. SavedAgrees'
    BY <1>2, <1>3 DEF HealthInv, SavedAgrees, Agrees, IsOpen
<1>12. RunAccounts'
    <2>1. \A c \in Checks \ torn' : run'.prior[c] = saved'[c]
        BY <1>2, <1>3, <1>5
    <2>2. Waiting' = Critical /\ Closed' = {}
        BY <1>5 DEF Waiting, Closed
    <2> QED BY <2>1, <2>2, <1>4, <1>5, <1>6, <1>9 DEF RunAccounts
<1>13. RunDecided'
    BY <1>5 DEF RunDecided
<1>14. SlowFound'
    <2>1. Since' = IF clock > Window THEN clock - Window ELSE 0
        BY <1>5 DEF Since
    <2>2. SlowIn(Since', clock - 1) >= MinSlow => SlowCritical
        BY <2>1, WeighsTheSlow
    <2>3. SlowCritical => SlowIn(Since', clock) >= MinSlow
        BY <2>1, WeighsTheSlow
    <2>4. "slow_requests" \in Critical <=> SlowCritical
        BY DEF Critical, Checks
    <2>5. access' = access /\ clock' = clock
        BY <1>3 DEF world
    <2>6. SlowIn(Since, run.at - 1)' = SlowIn(Since', clock - 1)
          /\ SlowIn(Since, run.at)' = SlowIn(Since', clock)
        BY <2>5, <1>5 DEF SlowIn
    <2> QED BY <2>2, <2>3, <2>4, <2>5, <2>6, <1>5 DEF HealthInv, SlowFound
<1> QED BY <1>7, <1>10, <1>11, <1>12, <1>13, <1>14 DEF HealthInv
-----------------------------------------------------------------------------
\* What every step of a run leaves as it is.
RunGoesOn ==
    /\ UNCHANGED <<clock, world, faults>>
    /\ run'.at = run.at /\ run'.critical = run.critical /\ run'.prior = run.prior

\* A step of a run changes neither requests nor what it found.
LEMMA SlowFoundGoesOn == HealthInv /\ RunGoesOn => SlowFound'
BY DEF HealthInv, RunGoesOn, world, SlowFound, SlowIn, Since

\* One alert leaves what the other checks have.
LEMMA AlertFacts ==
    ASSUME HealthInv, NEW c \in Checks, RaiseAlert(c)
    PROVE  /\ run.phase = "alerts" /\ c \in run.todo /\ c \in run.critical
           /\ c \notin Appended /\ run.at \in Ticks
           /\ RunGoesOn /\ UNCHANGED <<saved, torn>>
           /\ run'.phase = "alerts" /\ run'.todo = run.todo \ {c}
           /\ run'.next \in [Checks -> Incident \cup {None}]
           /\ ledger' \in [Checks -> Event \cup {None}]
           /\ \A d \in Checks \ {c} : run'.next[d] = run.next[d] /\ ledger'[d] = ledger[d]
           /\ run'.next[c] # None
           /\ \/ /\ ledger'[c] = [event |-> "alert", id |-> IncidentOf(c).first, at |-> run.at]
                 /\ ledger'[c] # None
                 /\ run'.next[c].first = IncidentOf(c).first /\ run'.next[c].last = run.at
                 /\ ShouldNotify(c)
              \/ ledger'[c] = ledger[c] /\ run'.next[c] = run.prior[c]
<1>1. HealthTypeOK /\ run.phase = "alerts" /\ c \in run.todo
    BY DEF HealthInv, RaiseAlert
<1>2. c \in run.critical /\ Waiting = run.todo /\ Closed = {} /\ c \notin Appended
    BY <1>1 DEF HealthInv, RunAccounts, Running, Waiting, Closed
<1>3. run.at \in Ticks
    BY <1>1 DEF HealthTypeOK
<1>4. IncidentOf(c) \in Incident /\ None \notin Incident
    BY <1>1, <1>3, NotNone, NoneIsNeither DEF IncidentOf, Incident
<1>5. UNCHANGED <<clock, world, saved, torn, faults>>
    BY DEF RaiseAlert
<1>6. CASE ShouldNotify(c)
    <2>1. /\ ledger' = [ledger EXCEPT ![c] =
                             [event |-> "alert", id |-> IncidentOf(c).first, at |-> run.at]]
          /\ run' = [run EXCEPT !.todo = @ \ {c},
                                !.next[c] = [IncidentOf(c) EXCEPT !.last = run.at]]
        BY <1>6 DEF RaiseAlert
    <2> DEFINE event == [event |-> "alert", id |-> IncidentOf(c).first, at |-> run.at]
               incident == [IncidentOf(c) EXCEPT !.last = run.at]
    <2>2. event \in Event
        BY <1>3, <1>4 DEF Event, Incident
    <2>3. incident \in Incident /\ incident.first = IncidentOf(c).first /\ incident.last = run.at
        BY <1>3, <1>4 DEF Incident
    <2>4. ledger' = [ledger EXCEPT ![c] = event]
        BY <2>1
    <2>5. run' = [run EXCEPT !.todo = @ \ {c}, !.next[c] = incident]
        BY <2>1
    <2> HIDE DEF event, incident
    <2>6. ledger' \in [Checks -> Event \cup {None}] /\ ledger'[c] = event
          /\ \A d \in Checks \ {c} : ledger'[d] = ledger[d]
        BY <2>2, <2>4, <1>1 DEF HealthTypeOK
    <2>7. /\ run'.todo = run.todo \ {c} /\ run'.next = [run.next EXCEPT ![c] = incident]
          /\ run'.phase = run.phase /\ run'.at = run.at /\ run'.critical = run.critical
          /\ run'.prior = run.prior
        BY <2>5, <1>1 DEF HealthTypeOK
    <2>8. run'.next \in [Checks -> Incident \cup {None}] /\ run'.next[c] = incident
          /\ \A d \in Checks \ {c} : run'.next[d] = run.next[d]
        BY <2>3, <2>7, <1>1 DEF HealthTypeOK
    <2>9. incident # None /\ event # None
        BY <2>2, <2>3, <1>4, NoneIsNeither
    <2> QED BY <2>3, <2>6, <2>7, <2>8, <2>9, <1>1, <1>2, <1>3, <1>5, <1>6 DEF event, RunGoesOn
<1>7. CASE ~ShouldNotify(c)
    <2>1. /\ run' = [run EXCEPT !.todo = @ \ {c}, !.next[c] = IncidentOf(c)]
          /\ UNCHANGED ledger
        BY <1>7 DEF RaiseAlert
    <2>2. IncidentOf(c) = run.prior[c] /\ IncidentOf(c) # None
        BY <1>4, <1>7 DEF ShouldNotify, IncidentOf
    <2>3. /\ run'.todo = run.todo \ {c} /\ run'.next = [run.next EXCEPT ![c] = IncidentOf(c)]
          /\ run'.phase = run.phase /\ run'.at = run.at /\ run'.critical = run.critical
          /\ run'.prior = run.prior
        BY <2>1, <1>1 DEF HealthTypeOK
    <2>4. run'.next \in [Checks -> Incident \cup {None}] /\ run'.next[c] = IncidentOf(c)
          /\ \A d \in Checks \ {c} : run'.next[d] = run.next[d]
        BY <2>3, <1>1, <1>4 DEF HealthTypeOK
    <2>5. ledger' = ledger /\ ledger \in [Checks -> Event \cup {None}]
        BY <2>1, <1>1 DEF HealthTypeOK
    <2> QED BY <2>2, <2>3, <2>4, <2>5, <1>1, <1>2, <1>3, <1>5 DEF RunGoesOn
<1> QED BY <1>6, <1>7

\* An alert, or the decision that it is too early for one, settles the next state of
\* its check.
LEMMA AlertKeeps == \A c \in Checks : HealthInv /\ RaiseAlert(c) => HealthInv'
<1> SUFFICES ASSUME NEW c \in Checks, HealthInv, RaiseAlert(c) PROVE HealthInv'
    OBVIOUS
<1>1. HealthTypeOK
    BY DEF HealthInv
<1>2. /\ run.phase = "alerts" /\ c \in run.todo /\ c \in run.critical
      /\ c \notin Appended /\ run.at \in Ticks
      /\ RunGoesOn /\ UNCHANGED <<saved, torn>>
      /\ run'.phase = "alerts" /\ run'.todo = run.todo \ {c}
      /\ run'.next \in [Checks -> Incident \cup {None}]
      /\ ledger' \in [Checks -> Event \cup {None}]
      /\ \A d \in Checks \ {c} : run'.next[d] = run.next[d] /\ ledger'[d] = ledger[d]
      /\ run'.next[c] # None
      /\ \/ /\ ledger'[c] = [event |-> "alert", id |-> IncidentOf(c).first, at |-> run.at]
            /\ ledger'[c] # None
            /\ run'.next[c].first = IncidentOf(c).first /\ run'.next[c].last = run.at
            /\ ShouldNotify(c)
         \/ ledger'[c] = ledger[c] /\ run'.next[c] = run.prior[c]
    BY AlertFacts
<1>3. run'.at = run.at /\ run'.critical = run.critical /\ run'.prior = run.prior
      /\ clock' = clock
    BY <1>2 DEF RunGoesOn
<1>4. HealthTypeOK'
    <2>1. run' \in [phase : {"idle", "alerts", "recoveries", "save", "send", "died"},
                    at : Ticks, critical : SUBSET Checks, todo : SUBSET Checks,
                    prior : [Checks -> Incident \cup {None}],
                    next : [Checks -> Incident \cup {None}]]
        <3>1. \E todo \in SUBSET Checks : \E next : run' = [run EXCEPT !.todo = todo, !.next = next]
            BY <1>1 DEF RaiseAlert, HealthTypeOK
        <3> QED BY <3>1, <1>1, <1>2 DEF HealthTypeOK
    <2> QED BY <2>1, <1>1, <1>2 DEF HealthTypeOK, RunGoesOn, world
<1>5. /\ Appended \subseteq Appended' /\ Appended' \subseteq Appended \cup {c}
      /\ Waiting = run.todo /\ Waiting' = run.todo \ {c} /\ Closed = {} /\ Closed' = {}
    BY <1>2, <1>3 DEF Appended, Waiting, Closed
<1>6. EventsDated'
    <2>1. \A d \in Checks : ledger'[d] # None => ledger'[d].at <= run.at
        <3> SUFFICES ASSUME NEW d \in Checks, ledger'[d] # None PROVE ledger'[d].at <= run.at
            OBVIOUS
        <3>1. CASE d # c
            BY <3>1, <1>2 DEF HealthInv, EventsDated
        <3>2. CASE d = c /\ ledger'[c] = ledger[c]
            BY <3>2 DEF HealthInv, EventsDated
        <3>3. CASE d = c /\ ledger'[c].at = run.at
            BY <3>3, <1>2 DEF Ticks
        <3> QED BY <3>1, <3>2, <3>3, <1>2
    <2> QED BY <2>1, <1>3 DEF HealthInv, EventsDated
<1>7. SavedAgrees'
    <2> SUFFICES ASSUME NEW d \in Checks \ torn, d \notin Appended' PROVE Agrees(d)'
        BY <1>2 DEF SavedAgrees
    <2>1. ledger'[d] = ledger[d] /\ saved' = saved
        <3>1. CASE d # c
            BY <3>1, <1>2
        <3>2. CASE d = c
            <4>1. c \in Appended' \/ ledger'[c] = ledger[c]
                <5>1. ASSUME ledger'[c].at = run.at, ledger'[c] # None
                      PROVE  c \in Appended'
                    BY <5>1, <1>3 DEF Appended
                <5> QED BY <5>1, <1>2
            <4> QED BY <4>1, <3>2, <1>2
        <3> QED BY <3>1, <3>2
    <2>2. Agrees(d)
        BY <1>5, <1>2 DEF HealthInv, SavedAgrees
    <2> QED BY <2>1, <2>2 DEF Agrees, IsOpen
<1>8. RunAccounts'
    <2>1. RunAccounts /\ Running /\ Running'
        BY <1>2 DEF HealthInv, Running
    <2>2. /\ run'.at > 0
          /\ run'.todo \subseteq run'.critical
          /\ \A d \in Checks \ torn' : run'.prior[d] = saved'[d]
        BY <2>1, <1>2, <1>3 DEF RunAccounts
    <2>3. \A d \in run.critical \ Waiting' :
              /\ run'.next[d] # None
              /\ IF d \in Appended'
                 THEN /\ ledger'[d].event = "alert" /\ ledger'[d].id = run'.next[d].first
                      /\ run'.next[d].last = run.at
                 ELSE run'.next[d] = run.prior[d]
        <3> SUFFICES ASSUME NEW d \in run.critical \ Waiting'
                     PROVE  /\ run'.next[d] # None
                            /\ IF d \in Appended'
                               THEN /\ ledger'[d].event = "alert"
                                    /\ ledger'[d].id = run'.next[d].first
                                    /\ run'.next[d].last = run.at
                               ELSE run'.next[d] = run.prior[d]
            OBVIOUS
        <3>1. CASE d # c
            <4>1. d \in run.critical \ Waiting /\ d \in Checks /\ (d \in Appended' <=> d \in Appended)
                BY <3>1, <1>1, <1>2, <1>3, <1>5 DEF HealthTypeOK
            <4> QED BY <4>1, <3>1, <2>1, <1>2 DEF RunAccounts
        <3>2. CASE d = c /\ ledger'[c] = ledger[c] /\ run'.next[c] = run.prior[c]
            <4>1. c \notin Appended'
                BY <3>2, <1>2, <1>3 DEF Appended
            <4> QED BY <4>1, <3>2, <1>2
        <3>3. CASE d = c /\ ledger'[c] = [event |-> "alert", id |-> IncidentOf(c).first, at |-> run.at]
                   /\ ledger'[c] # None
                   /\ run'.next[c].first = IncidentOf(c).first /\ run'.next[c].last = run.at
            <4>1. c \in Appended'
                BY <3>3, <1>2, <1>3 DEF Appended
            <4> QED BY <4>1, <3>3, <1>2
        <3> QED BY <3>1, <3>2, <3>3, <1>2
    <2>4. \A d \in (Checks \ run.critical) \cup Waiting' : run'.next[d] = None
        <3> SUFFICES ASSUME NEW d \in (Checks \ run.critical) \cup Waiting' PROVE run'.next[d] = None
            OBVIOUS
        <3>1. d \in Checks \ {c} /\ d \in (Checks \ run.critical) \cup Waiting
            BY <1>1, <1>2, <1>5 DEF HealthTypeOK
        <3> QED BY <3>1, <2>1, <1>2 DEF RunAccounts
    <2>5. Appended' \subseteq (run.critical \ Waiting') \cup Closed'
        BY <2>1, <1>2, <1>5 DEF RunAccounts
    <2> QED BY <2>2, <2>3, <2>4, <2>5, <1>2, <1>3, <1>5 DEF RunAccounts
<1>9. RunDecided'
    BY <1>2 DEF RunDecided
<1>10. SlowFound'
    BY <1>2, SlowFoundGoesOn
<1> QED BY <1>4, <1>6, <1>7, <1>8, <1>9, <1>10 DEF HealthInv
-----------------------------------------------------------------------------
\* When every alert is decided, nothing is closed yet.
LEMMA AlertsDoneKeeps == HealthInv /\ AlertsDone => HealthInv'
<1> SUFFICES ASSUME HealthInv, AlertsDone PROVE HealthInv'
    OBVIOUS
<1>1. HealthTypeOK /\ RunAccounts
    BY DEF HealthInv
<1>2. /\ run.phase = "alerts" /\ run.todo = {} /\ UNCHANGED <<clock, world, saved, ledger, torn, faults>>
      /\ run' = [run EXCEPT !.phase = "recoveries", !.todo = Recovered]
    BY DEF AlertsDone
<1>3. /\ run'.phase = "recoveries" /\ run'.todo = Recovered /\ run'.at = run.at
      /\ run'.critical = run.critical /\ run'.prior = run.prior /\ run'.next = run.next
    BY <1>1, <1>2 DEF HealthTypeOK
<1>4. Recovered \subseteq Checks
    BY DEF Recovered
<1>5. HealthTypeOK'
    BY <1>1, <1>2, <1>4 DEF HealthTypeOK, world
<1>6. /\ Appended' = Appended /\ Recovered' = Recovered /\ Waiting = {} /\ Waiting' = {}
      /\ Closed = {} /\ Closed' = {} /\ RunGoesOn
    BY <1>2, <1>3 DEF Appended, Recovered, Waiting, Closed, RunGoesOn
<1>7. EventsDated' /\ SavedAgrees'
    BY <1>2, <1>3, <1>6 DEF HealthInv, EventsDated, SavedAgrees, Agrees, IsOpen
<1>8. RunAccounts'
    BY <1>1, <1>2, <1>3, <1>6 DEF RunAccounts, Running
<1>9. RunDecided'
    BY <1>3 DEF RunDecided
<1>10. SlowFound'
    BY <1>6, SlowFoundGoesOn
<1> QED BY <1>5, <1>7, <1>8, <1>9, <1>10 DEF HealthInv

\* A recovery is recorded of a check that was critical, and has no event yet.
LEMMA RecoveryFacts ==
    ASSUME HealthInv, NEW c \in Checks, RecordRecovery(c)
    PROVE  /\ run.phase = "recoveries" /\ c \in Recovered /\ c \notin Appended
           /\ run.prior[c] \in Incident
           /\ RunGoesOn /\ UNCHANGED <<saved, torn>>
           /\ run' = [run EXCEPT !.todo = run.todo \ {c}]
           /\ ledger' = [ledger EXCEPT ![c] =
                            [event |-> "recovery", id |-> run.prior[c].first, at |-> run.at]]
           /\ [event |-> "recovery", id |-> run.prior[c].first, at |-> run.at] \in Event
<1>1. HealthTypeOK /\ RunAccounts /\ run.phase = "recoveries" /\ c \in run.todo
    BY DEF HealthInv, RecordRecovery
<1>2. c \in Recovered /\ Closed = Recovered \ run.todo /\ c \notin run.critical
    BY <1>1 DEF RunAccounts, Running, Closed, Recovered
<1>3. c \notin Appended
    BY <1>1, <1>2 DEF RunAccounts, Running
<1>4. run.prior[c] \in Incident /\ run.at \in Ticks
    BY <1>1, <1>2 DEF Recovered, HealthTypeOK
<1>5. [event |-> "recovery", id |-> run.prior[c].first, at |-> run.at] \in Event
    BY <1>4 DEF Incident, Event
<1>6. RunGoesOn
    BY <1>1 DEF RecordRecovery, RunGoesOn, HealthTypeOK
<1> QED BY <1>1, <1>2, <1>3, <1>4, <1>5, <1>6 DEF RecordRecovery

\* A recovery closes its check in the ledger; the next state has none of it.
LEMMA RecoveryKeeps == \A c \in Checks : HealthInv /\ RecordRecovery(c) => HealthInv'
<1> SUFFICES ASSUME NEW c \in Checks, HealthInv, RecordRecovery(c) PROVE HealthInv'
    OBVIOUS
<1> DEFINE event == [event |-> "recovery", id |-> run.prior[c].first, at |-> run.at]
<1>1. HealthTypeOK /\ RunAccounts
    BY DEF HealthInv
<1>2. /\ run.phase = "recoveries" /\ c \in Recovered /\ c \notin Appended
      /\ RunGoesOn /\ UNCHANGED <<saved, torn>>
      /\ run' = [run EXCEPT !.todo = run.todo \ {c}]
      /\ ledger' = [ledger EXCEPT ![c] = event] /\ event \in Event
    BY RecoveryFacts
<1>3. /\ run'.phase = "recoveries" /\ run'.todo = run.todo \ {c} /\ run'.at = run.at
      /\ run'.critical = run.critical /\ run'.prior = run.prior /\ run'.next = run.next
      /\ clock' = clock
    BY <1>1, <1>2 DEF HealthTypeOK, RunGoesOn
<1>4. event # None /\ event.event = "recovery" /\ event.at = run.at
    BY <1>2, NoneIsNeither
<1> HIDE DEF event
<1>5. ledger' \in [Checks -> Event \cup {None}] /\ ledger'[c] = event
      /\ \A d \in Checks \ {c} : ledger'[d] = ledger[d]
    BY <1>1, <1>2 DEF HealthTypeOK
<1>6. HealthTypeOK'
    <2>1. run' \in [phase : {"idle", "alerts", "recoveries", "save", "send", "died"},
                    at : Ticks, critical : SUBSET Checks, todo : SUBSET Checks,
                    prior : [Checks -> Incident \cup {None}],
                    next : [Checks -> Incident \cup {None}]]
        BY <1>1, <1>2 DEF HealthTypeOK
    <2> QED BY <2>1, <1>1, <1>2, <1>5 DEF HealthTypeOK, RunGoesOn, world
<1>7. /\ Appended' = Appended \cup {c} /\ Recovered' = Recovered
      /\ Waiting = {} /\ Waiting' = {}
      /\ Closed = Recovered \ run.todo /\ Closed' = Recovered \ (run.todo \ {c})
    BY <1>2, <1>3, <1>4, <1>5 DEF Appended, Recovered, Waiting, Closed
<1>8. EventsDated'
    <2>1. run.at \in Nat
        BY <1>1 DEF HealthTypeOK, Ticks
    <2>2. \A d \in Checks : ledger'[d] # None => ledger'[d].at <= run.at
        BY <2>1, <1>4, <1>5 DEF HealthInv, EventsDated
    <2> QED BY <2>2, <1>3 DEF HealthInv, EventsDated
<1>9. SavedAgrees'
    <2> SUFFICES ASSUME NEW d \in Checks \ torn, d \notin Appended' PROVE Agrees(d)'
        BY <1>2 DEF SavedAgrees
    <2>1. Agrees(d) /\ ledger'[d] = ledger[d]
        BY <1>5, <1>7 DEF HealthInv, SavedAgrees
    <2> QED BY <2>1, <1>2 DEF Agrees, IsOpen
<1>10. RunAccounts'
    <2>1. /\ run.at > 0 /\ run.todo \subseteq Recovered
          /\ \A d \in Checks \ torn : run.prior[d] = saved[d]
          /\ \A d \in run.critical : /\ run.next[d] # None
                                     /\ IF d \in Appended
                                        THEN /\ ledger[d].event = "alert"
                                             /\ ledger[d].id = run.next[d].first
                                             /\ run.next[d].last = run.at
                                        ELSE run.next[d] = run.prior[d]
          /\ \A d \in Checks \ run.critical : run.next[d] = None
          /\ \A d \in Closed : d \in Appended /\ ledger[d].event = "recovery"
          /\ Appended \subseteq run.critical \cup Closed
        BY <1>1, <1>2, <1>7 DEF RunAccounts, Running
    <2>2. \A d \in run.critical :
              d # c /\ d \in Checks /\ (d \in Appended' <=> d \in Appended) /\ ledger'[d] = ledger[d]
        BY <1>1, <1>2, <1>5, <1>7 DEF Recovered, HealthTypeOK
    <2>3. \A d \in Closed' : d \in Appended' /\ ledger'[d].event = "recovery"
        <3> SUFFICES ASSUME NEW d \in Closed' PROVE d \in Appended' /\ ledger'[d].event = "recovery"
            OBVIOUS
        <3>1. d \in Checks
            BY <1>7 DEF Recovered
        <3>2. d = c \/ d \in Closed
            BY <1>7
        <3> QED BY <3>1, <3>2, <2>1, <1>4, <1>5, <1>7
    <2>4. Appended' \subseteq run.critical \cup Closed'
        BY <2>1, <1>2, <1>7
    <2> QED BY <2>1, <2>2, <2>3, <2>4, <1>2, <1>3, <1>7 DEF RunAccounts
<1>11. RunDecided'
    BY <1>3 DEF RunDecided
<1>12. SlowFound'
    BY <1>2, SlowFoundGoesOn
<1> QED BY <1>6, <1>8, <1>9, <1>10, <1>11, <1>12 DEF HealthInv
-----------------------------------------------------------------------------
\* When all is recorded, what is to be saved is what the ledger shows open.
LEMMA NextAgrees ==
    ASSUME HealthInv, run.phase = "recoveries", run.todo = {},
           NEW c \in Checks, c \in Appended \/ c \notin torn
    PROVE  /\ IsOpen(c) <=> run.next[c] # None
           /\ IsOpen(c) => run.next[c].first = ledger[c].id /\ run.next[c].last = ledger[c].at
           /\ IsOpen(c) <=> c \in run.critical
<1>1. RunAccounts /\ Running /\ Waiting = {} /\ Closed = Recovered
    BY DEF HealthInv, Running, Waiting, Closed
<1>2. /\ c \in run.critical => /\ run.next[c] # None
                               /\ IF c \in Appended
                                  THEN /\ ledger[c].event = "alert"
                                       /\ ledger[c].id = run.next[c].first
                                       /\ run.next[c].last = run.at
                                  ELSE run.next[c] = run.prior[c]
      /\ c \notin run.critical => run.next[c] = None
      /\ c \in Recovered => c \in Appended /\ ledger[c].event = "recovery"
      /\ c \in Appended => c \in run.critical \/ c \in Recovered
      /\ c \notin torn => run.prior[c] = saved[c]
    BY <1>1 DEF RunAccounts
<1>3. CASE c \in Appended
    BY <1>2, <1>3 DEF IsOpen, Appended, Recovered
<1>4. CASE c \notin Appended
    <2>1. Agrees(c) /\ run.prior[c] = saved[c]
        BY <1>2, <1>4 DEF HealthInv, SavedAgrees
    <2>2. c \in run.critical \/ saved[c] = None
        BY <2>1, <1>2, <1>4 DEF Recovered
    <2> QED BY <2>1, <2>2, <1>2, <1>4 DEF Agrees
<1> QED BY <1>3, <1>4

\* What is saved is what the ledger shows.
LEMMA SaveKeeps == HealthInv /\ SaveState => HealthInv'
<1> SUFFICES ASSUME HealthInv, SaveState PROVE HealthInv'
    OBVIOUS
<1>1. HealthTypeOK
    BY DEF HealthInv
<1>2. /\ run.phase = "recoveries" /\ run.todo = {} /\ saved' = run.next
      /\ torn' = torn \ Appended /\ UNCHANGED <<clock, world, ledger, faults>>
    BY DEF SaveState
<1>3. PICK phase \in {"idle", "send"} : run' = [run EXCEPT !.phase = phase]
    BY DEF SaveState
<1>4. /\ run'.phase \in {"idle", "send"} /\ run'.at = run.at /\ run'.critical = run.critical
      /\ run'.prior = run.prior
    BY <1>1, <1>3 DEF HealthTypeOK
<1>5. HealthTypeOK'
    BY <1>1, <1>2, <1>3 DEF HealthTypeOK, world
<1>6. \A c \in Checks \ torn' : /\ Agrees(c)'
                                /\ IsOpen(c)' <=> c \in run'.critical
    <2> SUFFICES ASSUME NEW c \in Checks \ torn'
                 PROVE  Agrees(c)' /\ (IsOpen(c)' <=> c \in run'.critical)
        OBVIOUS
    <2>1. c \in Checks /\ (c \in Appended \/ c \notin torn)
        BY <1>2
    <2>2. /\ IsOpen(c) <=> run.next[c] # None
          /\ IsOpen(c) => run.next[c].first = ledger[c].id /\ run.next[c].last = ledger[c].at
          /\ IsOpen(c) <=> c \in run.critical
        BY <2>1, <1>2, NextAgrees
    <2>3. IsOpen(c)' <=> IsOpen(c)
        BY <1>2 DEF IsOpen
    <2> QED BY <2>2, <2>3, <1>2, <1>4 DEF Agrees
<1>7. EventsDated'
    BY <1>2, <1>4 DEF HealthInv, EventsDated
<1>8. SavedAgrees' /\ RunDecided'
    BY <1>6 DEF SavedAgrees, RunDecided
<1>9. RunAccounts'
    BY <1>4 DEF RunAccounts, Running
<1>10. SlowFound'
    BY <1>2, <1>4, SlowFoundGoesOn DEF RunGoesOn
<1> QED BY <1>5, <1>7, <1>8, <1>9, <1>10 DEF HealthInv

\* The webhook changes nothing that lasts.
LEMMA SendKeeps == HealthInv /\ SendWebhook => HealthInv'
<1> SUFFICES ASSUME HealthInv, SendWebhook PROVE HealthInv'
    OBVIOUS
<1>1. HealthTypeOK
    BY DEF HealthInv
<1>2. /\ run.phase = "send" /\ run' = [run EXCEPT !.phase = "idle"]
      /\ UNCHANGED <<clock, world, saved, ledger, torn, faults>>
    BY DEF SendWebhook
<1>3. /\ run'.phase = "idle" /\ run'.at = run.at /\ run'.critical = run.critical
      /\ run'.prior = run.prior
    BY <1>1, <1>2 DEF HealthTypeOK
<1>4. HealthTypeOK'
    BY <1>1, <1>2 DEF HealthTypeOK, world
<1>5. EventsDated' /\ RunDecided'
    BY <1>2, <1>3 DEF HealthInv, EventsDated, RunDecided, IsOpen
<1>6. SavedAgrees'
    BY <1>2 DEF HealthInv, SavedAgrees, Agrees, IsOpen
<1>7. RunAccounts'
    BY <1>3 DEF RunAccounts, Running
<1>8. SlowFound'
    BY <1>2, <1>3, SlowFoundGoesOn DEF RunGoesOn
<1> QED BY <1>4, <1>5, <1>6, <1>7, <1>8 DEF HealthInv

\* A run that dies takes from the saved state what it wrote the ledger about.
LEMMA DieKeeps == HealthInv /\ Die => HealthInv'
<1> SUFFICES ASSUME HealthInv, Die PROVE HealthInv'
    OBVIOUS
<1>1. HealthTypeOK
    BY DEF HealthInv
<1>2. /\ faults < MaxFaults /\ faults' = faults + 1 /\ UNCHANGED <<clock, world, saved, ledger>>
      /\ torn' = IF run.phase = "send" THEN torn ELSE torn \cup Appended
      /\ run' = [run EXCEPT !.phase = "died", !.todo = {}]
    BY DEF Die
<1>3. run'.phase = "died" /\ run'.at = run.at /\ run'.critical = run.critical
    BY <1>1, <1>2 DEF HealthTypeOK
<1>4. HealthTypeOK'
    <2>1. faults' \in 0..MaxFaults
        BY <1>1, <1>2 DEF HealthTypeOK
    <2>2. torn' \subseteq Checks
        BY <1>1, <1>2 DEF HealthTypeOK, Appended
    <2>3. run' \in [phase : {"idle", "alerts", "recoveries", "save", "send", "died"},
                    at : Ticks, critical : SUBSET Checks, todo : SUBSET Checks,
                    prior : [Checks -> Incident \cup {None}],
                    next : [Checks -> Incident \cup {None}]]
        BY <1>1, <1>2 DEF HealthTypeOK
    <2> QED BY <2>1, <2>2, <2>3, <1>1, <1>2 DEF HealthTypeOK, world
<1>5. EventsDated'
    BY <1>2, <1>3 DEF HealthInv, EventsDated
<1>6. SavedAgrees'
    <2> SUFFICES ASSUME NEW c \in Checks \ torn' PROVE Agrees(c)'
        BY DEF SavedAgrees
    <2>1. Agrees(c)
        BY <1>2 DEF HealthInv, SavedAgrees
    <2> QED BY <2>1, <1>2 DEF Agrees, IsOpen
<1>7. RunAccounts' /\ RunDecided'
    BY <1>3 DEF RunAccounts, Running, RunDecided
<1>8. SlowFound'
    BY <1>2, <1>3 DEF HealthInv, SlowFound, SlowIn, Since, world
<1> QED BY <1>4, <1>5, <1>6, <1>7, <1>8 DEF HealthInv
-----------------------------------------------------------------------------
LEMMA HealthNextKeeps == HealthInv /\ [HealthNext]_healthVars => HealthInv'
<1> SUFFICES ASSUME HealthInv, [HealthNext]_healthVars PROVE HealthInv'
    OBVIOUS
<1>1. CASE \E c \in Checks : RaiseAlert(c) \/ RecordRecovery(c)
    BY <1>1, AlertKeeps, RecoveryKeeps
<1>2. CASE StartRun \/ AlertsDone \/ SaveState \/ SendWebhook \/ Die
    BY <1>2, StartKeeps, AlertsDoneKeeps, SaveKeeps, SendKeeps, DieKeeps
<1>3. CASE \E kind \in Served : Serve(kind)
    BY <1>3, ServeKeeps
<1>4. CASE (\E call \in Calls \cup {None} : LogAuthFailure(call)) \/ ServiceChanges
           \/ DiskChanges \/ BackupsChange
    BY <1>4, WorldKeeps
<1>5. CASE ClockTicks \/ UNCHANGED healthVars
    BY <1>5, ClockKeeps
<1> QED BY <1>1, <1>2, <1>3, <1>4, <1>5 DEF HealthNext

LEMMA HealthInductive == HealthSpec => []HealthInv
BY HealthStarts, HealthNextKeeps, PTL DEF HealthSpec

\* Every variable of the health check has its type; in particular the runs
\* that fail are no more than the faults there may be.
THEOREM HealthTyped == HealthSpec => []HealthTypeOK
<1>1. HealthInv => HealthTypeOK
    BY DEF HealthInv
<1> QED BY <1>1, HealthInductive, PTL

\* Between runs the ledger and the saved state tell the same story: the
\* incidents open in one are open in the other, under the same id, and after a
\* run that ended they are those of the checks it found critical, whatever died
\* before; only for checks a dying run had written about can the two part
\* (health_check.py:556-606).
THEOREM LedgerAgrees == HealthSpec => []LedgerMatchesState
<1>1. HealthInv => LedgerMatchesState
    BY DEF HealthInv, LedgerMatchesState, SavedAgrees, Agrees, RunDecided
<1> QED BY <1>1, HealthInductive, PTL

\* A run that ended has the slow-request incident open exactly when the window
\* held enough requests that were slow by themselves
\* (health_check.py:241-335).
THEOREM AlarmsEarned == HealthSpec => []SlowAlarmsEarned
<1>1. HealthInv => SlowAlarmsEarned
    BY DEF HealthInv, SlowAlarmsEarned, RunDecided, SlowFound, Since, Checks
<1> QED BY <1>1, HealthInductive, PTL

\* An alert that is appended opens an incident when none is open, and goes on
\* with the open one, a cooldown later, when one is.
LEMMA AlertContinues ==
    ASSUME HealthInv, NEW c \in Checks \ torn, RaiseAlert(c), ledger'[c] # ledger[c]
    PROVE  Continues(ledger[c], ledger'[c])
<1>1. /\ run.phase = "alerts" /\ c \notin Appended /\ ShouldNotify(c) /\ run.at \in Ticks
      /\ ledger'[c] = [event |-> "alert", id |-> IncidentOf(c).first, at |-> run.at]
    BY AlertFacts
<1>2. ledger'[c].event = "alert" /\ ledger'[c].id = IncidentOf(c).first /\ ledger'[c].at = run.at
    BY <1>1
<1>3. Agrees(c) /\ run.prior[c] = saved[c]
    BY <1>1 DEF HealthInv, SavedAgrees, RunAccounts, Running
<1>4. ledger[c] # None => ledger[c].event \in {"alert", "recovery"}
    <2>1. ledger[c] # None => ledger[c] \in Event
        BY NotNone DEF HealthInv
    <2> QED BY <2>1 DEF Event
<1>5. CASE run.prior[c] = None
    <2>1. IncidentOf(c).first = run.at
        BY <1>5 DEF IncidentOf
    <2>2. ledger[c] = None \/ ledger[c].event = "recovery"
        BY <1>3, <1>4, <1>5 DEF Agrees, IsOpen
    <2> QED BY <2>1, <2>2, <1>2 DEF Continues
<1>6. CASE run.prior[c] # None
    <2>1. /\ IncidentOf(c) = saved[c] /\ IsOpen(c) /\ saved[c].first = ledger[c].id
          /\ saved[c].last = ledger[c].at /\ run.at >= saved[c].last + Cooldown
        BY <1>1, <1>3, <1>6 DEF IncidentOf, Agrees, ShouldNotify
    <2> QED BY <2>1, <1>2 DEF Continues, IsOpen
<1> QED BY <1>5, <1>6

\* A recovery closes the incident that is open.
LEMMA RecoveryContinues ==
    ASSUME HealthInv, NEW c \in Checks \ torn, RecordRecovery(c)
    PROVE  Continues(ledger[c], ledger'[c])
<1>1. /\ run.phase = "recoveries" /\ c \in Recovered /\ c \notin Appended
      /\ ledger' = [ledger EXCEPT ![c] =
                       [event |-> "recovery", id |-> run.prior[c].first, at |-> run.at]]
    BY RecoveryFacts
<1>2. ledger'[c] = [event |-> "recovery", id |-> run.prior[c].first, at |-> run.at]
    BY <1>1 DEF HealthInv, HealthTypeOK
<1>3. Agrees(c) /\ run.prior[c] = saved[c] /\ saved[c] # None
    BY <1>1 DEF HealthInv, SavedAgrees, RunAccounts, Running, Recovered
<1> QED BY <1>2, <1>3 DEF Continues, Agrees, IsOpen

\* The ledger tells one story of every check no fault has touched: alerts of an
\* incident come a cooldown apart under one id, a recovery closes the incident
\* the last alert is about, and none begins before the last one is closed
\* (health_check.py:563-606).
THEOREM StoryTold == HealthSpec => LedgerStory
<1> DEFINE Told == \A c \in Checks \ torn :
                      ledger'[c] # ledger[c] => Continues(ledger[c], ledger'[c])
<1>1. HealthInv /\ [HealthNext]_healthVars => [Told]_healthVars
    <2> SUFFICES ASSUME HealthInv, HealthNext, NEW c \in Checks \ torn, ledger'[c] # ledger[c]
                 PROVE  Continues(ledger[c], ledger'[c])
        OBVIOUS
    <2>1. PICK d \in Checks : RaiseAlert(d) \/ RecordRecovery(d)
        BY DEF HealthNext, StartRun, AlertsDone, SaveState, SendWebhook, Die, Serve,
               LogAuthFailure, ServiceChanges, DiskChanges, BackupsChange, ClockTicks, Elsewhere
    <2>2. d = c
        <3>1. ASSUME d # c, RaiseAlert(d) PROVE FALSE
            BY <3>1, AlertFacts
        <3>2. ASSUME d # c, RecordRecovery(d) PROVE FALSE
            <4>1. ledger' = [ledger EXCEPT ![d] =
                                [event |-> "recovery", id |-> run.prior[d].first, at |-> run.at]]
                BY <3>2, RecoveryFacts
            <4>2. ledger'[c] = ledger[c]
                BY <4>1, <3>2 DEF HealthInv, HealthTypeOK
            <4> QED BY <4>2
        <3> QED BY <2>1, <3>1, <3>2
    <2>3. CASE RaiseAlert(c)
        BY <2>3, AlertContinues
    <2>4. CASE RecordRecovery(c)
        BY <2>4, RecoveryContinues
    <2> QED BY <2>1, <2>2, <2>3, <2>4
<1> QED BY <1>1, HealthInductive, PTL DEF HealthSpec, LedgerStory
=============================================================================
