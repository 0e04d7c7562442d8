--------------------------- MODULE BackupStoreProofs ---------------------------
(***************************************************************************)
(* What backups and restores promise, for any number of backups kept,      *)
(* crashes and writes, and any length of time.                             *)
(***************************************************************************)
EXTENDS BackupStore, FiniteSetTheorems, WellFoundedInduction, TLAPS

\* The locals of the command, at the steps that read them.
CmdInv ==
    /\ cmd.step # "idle" /\ cmd.step # "putBack" => cmd.name \in Names
    /\ cmd.step = "copy" => live \in Content
    /\ cmd.step \in {"publish", "moveAway", "moveIn"} => cmd.data \in Content
    /\ cmd.step \in {"stage", "moveAway", "moveIn"} => complete[cmd.name] # None
    /\ cmd.step = "putBack" => cmd.stamp \in 0..MaxTime

\* A new backup is the newest one, and whole when it is recorded.
NewestInv ==
    /\ \A n \in Complete : n[1] < clock
    /\ cmd.step \in {"copy", "publish"} =>
          /\ cmd.name[1] <= clock
          /\ \A n \in Complete : n[1] < cmd.name[1]
    /\ cmd.step = "publish" => cmd.name[1] < clock
    /\ cmd.step \in {"retain", "remove", "record"} =>
          /\ Sound(cmd.name)
          /\ \A n \in Complete : n # cmd.name => n[1] < cmd.name[1]

\* The backups whose names sort after that of n.
Later(n) == {m \in Complete : Before(n, m)}
\* Those retention keeps.
Kept == {n \in Complete : Cardinality(Later(n)) < Keep}

\* Retention removes from the oldest on, and only what is not kept: what is
\* kept has lost files by decay alone.
RetentionInv ==
    /\ \A n \in Kept : complete[n].whole \/ n \in rotten
    /\ cmd.step = "remove" =>
          /\ cmd.doomed \subseteq Complete \ Kept
          /\ \A n \in cmd.doomed, m \in Complete : Before(m, n) => m \in cmd.doomed

BackupInv == TypeOK /\ CmdInv /\ NewestInv /\ RetentionInv /\ Recoverable
-----------------------------------------------------------------------------
(***************************************************************************)
(* Types.                                                                  *)
(***************************************************************************)
\* A backup that loses files, or its write-ahead logs, is still one.
LEMMA Marred ==
    ASSUME NEW b \in Backup
    PROVE  /\ [b EXCEPT !.whole = FALSE] \in Backup \ {None}
           /\ [b EXCEPT !.journal = "lost"] \in Backup \ {None}
           /\ [b EXCEPT !.journal = "lost"].whole = b.whole
BY NoBackup DEF Backup

LEMMA TypeNext ==
    ASSUME TypeOK, CmdInv, [Next]_vars
    PROVE  TypeOK'
<1> USE BackupConstants
        DEF TypeOK, CmdInv, Command, Steps, Idle, Content, Versions, Backup, Complete, At, Go,
            service, store, world, data
<1>1. CASE BeginCreate
  BY <1>1 DEF BeginCreate, NextName
<1>2. CASE CopyData
  BY <1>2 DEF CopyData, Copyable
<1>3. CASE FailCreate
  BY <1>3 DEF FailCreate
<1>4. CASE Publish
  BY <1>4 DEF Publish
<1>5. CASE Retain
  BY <1>5 DEF Retain, Obsolete
<1>6. CASE BeginRemove
  <2>1. PICK n \in Complete : complete' = [complete EXCEPT ![n] = [complete[n] EXCEPT !.whole = FALSE]]
    BY <1>6 DEF BeginRemove
  <2>2. complete' \in [Names -> Backup \cup {None}]
    <3>1. complete[n] \in Backup
      OBVIOUS
    <3>2. [complete[n] EXCEPT !.whole = FALSE] \in Backup
      BY <3>1, Marred
    <3> HIDE DEF Backup
    <3> QED
      BY <2>1, <3>2
  <2> QED
    BY <1>6, <2>2 DEF BeginRemove
<1>7. CASE EndRemove
  <2>1. cmd' \in Command
    <3>1. PICK n : cmd' = [cmd EXCEPT !.doomed = @ \ {n},
                                      !.step = IF cmd.doomed = {n} THEN "record" ELSE "remove"]
      BY <1>7 DEF EndRemove
    <3>2. CASE cmd.doomed = {n}
      BY <3>1, <3>2
    <3>3. CASE cmd.doomed # {n}
      BY <3>1, <3>3
    <3> QED
      BY <3>2, <3>3
  <2>2. complete' \in [Names -> Backup \cup {None}]
    BY <1>7 DEF EndRemove
  <2> QED
    BY <1>7, <2>1, <2>2 DEF EndRemove
<1>8. CASE Record
  BY <1>8 DEF Record, Vouch
<1>9. CASE VerifyBackup
  BY <1>9 DEF VerifyBackup, Vouch, Sound
<1>10. CASE BeginRestore
  <2>1. PICK n \in Names : Vouch(n) /\ cmd' = [Idle EXCEPT !.step = "stage", !.name = n]
    BY <1>10 DEF BeginRestore
  <2>2. cmd' \in Command /\ ledger' \in [at : 0..MaxTime, name : Names]
    BY <2>1 DEF Vouch
  <2> QED
    BY <1>10, <2>2 DEF BeginRestore
<1>11. CASE Stage
  BY <1>11 DEF Stage
<1>12. CASE MoveAway
  BY <1>12 DEF MoveAway
<1>13. CASE MoveIn
  BY <1>13 DEF MoveIn
<1>14. CASE FailMoveIn
  BY <1>14 DEF FailMoveIn
<1>15. CASE PutBack
  BY <1>15 DEF PutBack
<1>16. CASE GiveUp
  BY <1>16 DEF GiveUp
<1>17. CASE StartService
  <2>1. CASE live \in {None, LogsOnly}
    <3>1. written' \in Versions /\ live' \in Content /\ current' \in Versions
      BY <1>17, <2>1 DEF StartService
    <3> QED
      BY <1>17, <3>1 DEF StartService
  <2>2. CASE live \notin {None, LogsOnly}
    BY <1>17, <2>2 DEF StartService
  <2> QED
    BY <2>1, <2>2
<1>18. CASE WriteData
  BY <1>18 DEF WriteData
<1>19. CASE StopService
  BY <1>19 DEF StopService
<1>20. CASE KillService
  BY <1>20 DEF KillService
<1>21. CASE SaveAlertState
  BY <1>21 DEF SaveAlertState
<1>22. CASE Decay
  <2>1. PICK n \in Complete : complete' = [complete EXCEPT ![n] = [complete[n] EXCEPT !.whole = FALSE]]
    BY <1>22 DEF Decay
  <2>2. complete' \in [Names -> Backup \cup {None}]
    <3>1. complete[n] \in Backup
      OBVIOUS
    <3>2. [complete[n] EXCEPT !.whole = FALSE] \in Backup
      BY <3>1, Marred
    <3> HIDE DEF Backup
    <3> QED
      BY <2>1, <3>2
  <2> QED
    BY <1>22, <2>2 DEF Decay
<1>23. CASE DecayJournal
  <2>1. PICK n \in Complete : complete' = [complete EXCEPT ![n] = [complete[n] EXCEPT !.journal = "lost"]]
    BY <1>23 DEF DecayJournal
  <2>2. complete' \in [Names -> Backup \cup {None}]
    <3>1. complete[n] \in Backup
      OBVIOUS
    <3>2. [complete[n] EXCEPT !.journal = "lost"] \in Backup
      BY <3>1, Marred
    <3> HIDE DEF Backup
    <3> QED
      BY <2>1, <3>2
  <2> QED
    BY <1>23, <2>2 DEF DecayJournal
<1>24. CASE Tick
  BY <1>24 DEF Tick
<1>25. CASE Crash
  BY <1>25 DEF Crash
<1>26. CASE UNCHANGED vars
  BY <1>26 DEF vars
<1> QED
  BY <1>1, <1>2, <1>3, <1>4, <1>5, <1>6, <1>7, <1>8, <1>9, <1>10, <1>11, <1>12, <1>13, <1>14, <1>15, <1>16, <1>17, <1>18, <1>19, <1>20, <1>21, <1>22, <1>23, <1>24, <1>25, <1>26
     DEF Next, Create, Restore
-----------------------------------------------------------------------------
(***************************************************************************)
(* The locals of the command.                                              *)
(***************************************************************************)
\* A step of anyone but the command.
Bystander == \/ StartService \/ WriteData \/ StopService \/ KillService \/ SaveAlertState
             \/ Decay \/ DecayJournal \/ Tick \/ UNCHANGED vars

\* Backups come and go through the command only.
LEMMA SameBackups ==
    ASSUME TypeOK, Bystander \/ BeginRemove
    PROVE  Complete' = Complete
<1> USE NoBackup DEF TypeOK, Bystander, Complete, Backup
<1>1. CASE BeginRemove \/ Decay
  <2>1. PICK n \in Complete : complete' = [complete EXCEPT ![n] = [complete[n] EXCEPT !.whole = FALSE]]
    <3>1. CASE BeginRemove
      BY <3>1 DEF BeginRemove, Command
    <3>2. CASE Decay
      BY <3>2 DEF Decay
    <3> QED
      BY <1>1, <3>1, <3>2
  <2>2. [complete[n] EXCEPT !.whole = FALSE] # None
    BY Marred
  <2> QED
    BY <2>1, <2>2
<1>2. CASE DecayJournal
  <2>1. PICK n \in Complete : complete' = [complete EXCEPT ![n] = [complete[n] EXCEPT !.journal = "lost"]]
    BY <1>2 DEF DecayJournal
  <2>2. [complete[n] EXCEPT !.journal = "lost"] # None
    BY Marred
  <2> QED
    BY <2>1, <2>2
<1>3. ASSUME UNCHANGED complete
      PROVE  Complete' = Complete
  BY <1>3
<1> QED
  BY <1>1, <1>2, <1>3
     DEF StartService, WriteData, StopService, KillService, SaveAlertState, Tick, vars, store

\* While a command runs, bystanders do not change backups at all, nor a data
\* directory that holds something.
LEMMA Exclusive ==
    ASSUME TypeOK, Bystander, ~At("idle")
    PROVE  /\ UNCHANGED <<complete, cmd>>
           /\ live' = live \/ live = None \/ live' \in Versions
<1> USE DEF store, data, world, service
<1>1. CASE WriteData
  BY <1>1, BackupConstants DEF WriteData, TypeOK, Versions
<1> QED
  BY <1>1 DEF Bystander, StartService, StopService, KillService, SaveAlertState, Decay,
              DecayJournal, Tick, vars

LEMMA CmdNext ==
    ASSUME TypeOK, CmdInv, [Next]_vars
    PROVE  CmdInv'
<1> USE DEF TypeOK, CmdInv, Command, Steps, Idle, Content, Complete, At, Go, service, store,
            world, data
<1>1. CASE BeginCreate
  BY <1>1 DEF BeginCreate, Copyable
<1>2. CASE CopyData
  BY <1>2 DEF CopyData
<1>3. CASE FailCreate \/ Record \/ MoveIn \/ PutBack \/ GiveUp \/ Crash
  BY <1>3 DEF FailCreate, Record, MoveIn, PutBack, GiveUp, Crash
<1>4. CASE Publish \/ BeginRemove
  BY <1>4 DEF Publish, BeginRemove
<1>5. CASE Retain
  <2>1. cmd'.name = cmd.name /\ cmd'.step \in {"record", "remove"} /\ cmd.name \in Names
    BY <1>5 DEF Retain
  <2> QED
    BY <2>1
<1>6. CASE EndRemove
  <2>1. PICK n : cmd' = [cmd EXCEPT !.doomed = @ \ {n},
                                    !.step = IF cmd.doomed = {n} THEN "record" ELSE "remove"]
    BY <1>6 DEF EndRemove
  <2>2. cmd'.name = cmd.name /\ cmd'.step \in {"record", "remove"} /\ cmd.name \in Names
    BY <1>6, <2>1 DEF EndRemove
  <2> QED
    BY <2>2
<1>7. CASE VerifyBackup
  BY <1>7 DEF VerifyBackup
<1>8. CASE BeginRestore
  <2>1. PICK n \in Names : complete[n] # None /\ cmd' = [Idle EXCEPT !.step = "stage", !.name = n]
    BY <1>8 DEF BeginRestore, Sound
  <2>2. UNCHANGED complete
    BY <1>8 DEF BeginRestore
  <2> QED
    BY <2>1, <2>2
<1>9. CASE Stage
  <2>1. complete[cmd.name] \in Backup
    BY <1>9 DEF Stage
  <2>2. cmd'.data \in Content
    BY <1>9, <2>1 DEF Stage, Backup
  <2>3. cmd'.step \in {"moveIn", "moveAway"} /\ cmd'.name = cmd.name
    BY <1>9 DEF Stage
  <2> QED
    BY <1>9, <2>2, <2>3 DEF Stage
<1>10. CASE MoveAway
  BY <1>10 DEF MoveAway
<1>11. CASE FailMoveIn
  BY <1>11 DEF FailMoveIn
<1>12. CASE Bystander /\ At("idle")
  <2>1. UNCHANGED cmd
    BY <1>12 DEF Bystander, StartService, WriteData, StopService, KillService, SaveAlertState,
                 Decay, DecayJournal, Tick, vars
  <2> QED
    BY <1>12, <2>1
<1>13. CASE Bystander /\ ~At("idle")
  <2>1. /\ UNCHANGED <<complete, cmd>>
        /\ live' = live \/ live = None \/ live' \in Versions
    BY <1>13, Exclusive
  <2>2. live \in Content => live # None
    <3>1. None \notin Nat /\ None \notin {Damaged, Behind}
      BY BackupConstants
    <3> QED
      BY <3>1, BackupConstants DEF Versions
  <2> QED
    BY <2>1, <2>2
<1> QED
  BY <1>1, <1>2, <1>3, <1>4, <1>5, <1>6, <1>7, <1>8, <1>9, <1>10, <1>11, <1>12, <1>13
     DEF Next, Create, Restore, Bystander
-----------------------------------------------------------------------------
(***************************************************************************)
(* The newest backup.                                                      *)
(***************************************************************************)
\* A step that leaves the set of backups, and those that are whole while a
\* command runs, and the command itself unless it ends.
LEMMA NewestKept ==
    ASSUME TypeOK, CmdInv, NewestInv, Complete' = Complete, clock' \in Nat, clock <= clock',
           \/ UNCHANGED cmd /\ (At("idle") \/ UNCHANGED complete)
           \/ cmd'.step \in {"idle", "stage", "moveAway", "moveIn", "putBack"}
    PROVE  NewestInv'
<1> USE BackupConstants DEF TypeOK, Names
<1>1. \A n \in Complete : n[1] \in Nat
  BY DEF Complete
<1>2. \A n \in Complete' : n[1] < clock'
  BY <1>1 DEF NewestInv
<1>3. CASE cmd'.step \in {"idle", "stage", "moveAway", "moveIn", "putBack"}
  BY <1>2, <1>3 DEF NewestInv
<1>4. CASE UNCHANGED <<cmd, complete>> /\ ~At("idle") /\ cmd.name \in Names
  BY <1>2, <1>4 DEF NewestInv, Sound
<1> QED
  BY <1>3, <1>4 DEF At, CmdInv, Command, Steps

\* There are finitely many backups.
LEMMA LaterFinite ==
    /\ IsFiniteSet(Names) /\ IsFiniteSet(Complete)
    /\ \A n : IsFiniteSet(Later(n)) /\ Cardinality(Later(n)) \in Nat
<1>1. IsFiniteSet(Names)
  <2>1. IsFiniteSet(0..MaxTime) /\ IsFiniteSet(0..MaxCrashes)
    BY BackupConstants, FS_Interval
  <2> QED
    BY <2>1, FS_Product DEF Names
<1>2. IsFiniteSet(Complete)
  BY <1>1, FS_Subset DEF Complete
<1>3. \A n : Later(n) \subseteq Complete
  BY DEF Later
<1> QED
  BY <1>1, <1>2, <1>3, FS_Subset, FS_CardinalityType

\* The newest backup is kept.
LEMMA NewestIsKept ==
    ASSUME TypeOK, NewestInv, At("retain") \/ At("remove"), cmd.name \in Names
    PROVE  cmd.name \in Kept
<1>1. cmd.name \in Complete /\ \A n \in Complete : n # cmd.name => n[1] < cmd.name[1]
  BY DEF NewestInv, At, Sound, Complete
<1>2. Later(cmd.name) = {}
  <2>1. \A n \in Complete : n[1] \in Nat /\ n[2] \in Nat
    BY BackupConstants DEF Complete, Names
  <2> QED
    BY <1>1, <2>1 DEF Later, Before
<1> QED
  BY <1>1, <1>2, FS_EmptySet, BackupConstants DEF Kept

\* A new backup remains the newest, and is whole when it is recorded.
LEMMA NewestNext ==
    ASSUME TypeOK, CmdInv, NewestInv, RetentionInv, [Next]_vars
    PROVE  NewestInv'
<1>0. /\ clock \in Nat /\ \A n \in Complete : n[1] \in Nat /\ n[1] < clock
      /\ ~At("idle") /\ ~At("putBack") => cmd.name \in Names /\ cmd.name[1] \in Nat
  BY BackupConstants DEF TypeOK, NewestInv, Complete, Names, CmdInv, At
<1> USE DEF At, Go, Idle, service, store, world, data
<1>1. CASE BeginCreate
  <2>1. PICK n \in Names : /\ n[1] = clock
                           /\ cmd' = [Idle EXCEPT !.step = "copy", !.name = n]
    BY <1>1 DEF BeginCreate, NextName
  <2>2. UNCHANGED <<complete, clock>>
    BY <1>1 DEF BeginCreate
  <2> QED
    BY <1>0, <2>1, <2>2 DEF NewestInv, Complete
<1>2. CASE CopyData
  <2>1. /\ cmd.step = "copy" /\ cmd'.step = "publish" /\ cmd'.name = cmd.name
        /\ clock > cmd.name[1] /\ UNCHANGED <<complete, clock>>
    BY <1>2 DEF CopyData, TypeOK, Command
  <2> QED
    BY <1>0, <2>1 DEF NewestInv, Complete
<1>3. CASE Publish
  <2>1. /\ cmd.step = "publish" /\ cmd'.step = "retain" /\ cmd'.name = cmd.name
        /\ cmd.name \in Names /\ UNCHANGED clock
    BY <1>0, <1>3 DEF Publish, TypeOK, Command
  <2>2. PICK b \in Backup : b.whole = TRUE /\ complete' = [complete EXCEPT ![cmd.name] = b]
    <3>1. [data |-> cmd.data, whole |-> TRUE,
           journal |-> IF journal THEN "kept" ELSE "none"] \in Backup
      BY <2>1 DEF CmdInv, Backup
    <3> QED
      BY <1>3, <3>1 DEF Publish
  <2>3. Complete' = Complete \cup {cmd.name} /\ Sound(cmd.name)'
    BY <2>1, <2>2, NoBackup DEF Complete, TypeOK, Sound
  <2> QED
    BY <1>0, <2>1, <2>3 DEF NewestInv, Sound
<1>4. CASE Retain
  <2>1. /\ cmd.step = "retain" /\ cmd'.step \in {"record", "remove"} /\ cmd'.name = cmd.name
        /\ UNCHANGED <<complete, clock>>
    BY <1>4 DEF Retain, TypeOK, Command
  <2> QED
    BY <1>0, <2>1 DEF NewestInv, Complete, Sound
<1>5. CASE BeginRemove \/ EndRemove
  <2>1. /\ cmd.step = "remove" /\ cmd'.step \in {"remove", "record"} /\ cmd'.name = cmd.name
        /\ UNCHANGED clock
    BY <1>5 DEF BeginRemove, EndRemove, TypeOK, Command
  <2>2. \E n \in cmd.doomed : \E b : complete' = [complete EXCEPT ![n] = b]
    BY <1>5 DEF BeginRemove, EndRemove
  <2>3. cmd.name \notin cmd.doomed /\ cmd.name \in Names
    BY <1>0, <2>1, NewestIsKept DEF RetentionInv
  <2>4. complete'[cmd.name] = complete[cmd.name]
    BY <2>2, <2>3 DEF TypeOK
  <2>5. Complete' \subseteq Complete
    <3>1. CASE BeginRemove
      BY <3>1, SameBackups
    <3>2. CASE EndRemove
      BY <3>2 DEF EndRemove, Complete, TypeOK
    <3> QED
      BY <1>5, <3>1, <3>2
  <2> QED
    BY <1>0, <2>1, <2>4, <2>5 DEF NewestInv, Sound
<1>6. CASE \/ FailCreate \/ Record \/ VerifyBackup \/ Restore \/ GiveUp \/ Crash
  <2>1. UNCHANGED <<complete, clock>>
    BY <1>6 DEF FailCreate, Record, VerifyBackup, Restore, BeginRestore, Stage, MoveAway, MoveIn,
                FailMoveIn, PutBack, GiveUp, Crash
  <2>2. \/ UNCHANGED cmd /\ At("idle")
        \/ cmd'.step \in {"idle", "stage", "moveAway", "moveIn", "putBack"}
    <3>1. CASE BeginRestore
      BY <3>1 DEF BeginRestore
    <3>2. CASE Stage \/ MoveAway
      BY <3>2 DEF Stage, MoveAway, TypeOK, Command
    <3>3. CASE FailMoveIn
      BY <3>3 DEF FailMoveIn, TypeOK, Command
    <3> QED
      BY <1>6, <3>1, <3>2, <3>3
         DEF FailCreate, Record, VerifyBackup, Restore, MoveIn, PutBack, GiveUp, Crash
  <2> QED
    BY <1>0, <2>1, <2>2, NewestKept DEF Complete
<1>7. CASE Bystander
  <2>1. clock' \in Nat /\ clock <= clock'
    BY <1>0, <1>7, BackupConstants
       DEF Bystander, StartService, WriteData, StopService, KillService, SaveAlertState,
           Decay, DecayJournal, Tick, vars
  <2>2. UNCHANGED cmd /\ (At("idle") \/ UNCHANGED complete)
    BY <1>7 DEF Bystander, StartService, WriteData, StopService, KillService, SaveAlertState,
                Decay, DecayJournal, Tick, vars
  <2> QED
    BY <1>7, <2>1, <2>2, NewestKept, SameBackups
<1> QED
  BY <1>1, <1>2, <1>3, <1>4, <1>5, <1>6, <1>7 DEF Next, Create, Bystander
-----------------------------------------------------------------------------
(***************************************************************************)
(* Retention.                                                              *)
(***************************************************************************)
\* Names are ordered strictly.
LEMMA Order ==
    /\ \A m, n \in Names : ~(Before(m, n) /\ Before(n, m))
    /\ \A l, m, n \in Names : Before(l, m) /\ Before(m, n) => Before(l, n)
BY BackupConstants DEF Names, Before

\* A part of a finite set has no more elements than the set.
LEMMA LaterGrows ==
    ASSUME NEW S, NEW T, S \subseteq T, IsFiniteSet(T)
    PROVE  Cardinality(S) <= Cardinality(T) /\ Cardinality(S) \in Nat /\ Cardinality(T) \in Nat
BY FS_Subset, FS_CardinalityType

\* What retention means to remove is all that it does not keep, and nothing
\* that is older than that is kept.
LEMMA ObsoleteIsOld ==
    /\ Obsolete = Complete \ Kept
    /\ \A n \in Obsolete, m \in Complete : Before(m, n) => m \in Obsolete
<1>1. Obsolete = Complete \ Kept
  BY LaterFinite, BackupConstants DEF Obsolete, Kept, Later
<1>2. ASSUME NEW n \in Obsolete, NEW m \in Complete, Before(m, n)
      PROVE  m \in Obsolete
  <2>1. Later(n) \subseteq Later(m)
    BY <1>2, Order DEF Later, Obsolete, Complete
  <2>2. /\ Cardinality(Later(n)) <= Cardinality(Later(m))
        /\ Cardinality(Later(n)) \in Nat /\ Cardinality(Later(m)) \in Nat
    BY <2>1, LaterFinite, LaterGrows
  <2> QED
    BY <2>2, BackupConstants DEF Obsolete, Later
<1> QED
  BY <1>1, <1>2

\* The backups remain, and no other than a decayed one that is kept loses files.
LEMMA RetentionKept ==
    ASSUME RetentionInv, Complete' = Complete, rotten \subseteq rotten',
           \A n \in Kept : complete'[n].whole = complete[n].whole \/ n \in rotten',
           UNCHANGED cmd \/ cmd'.step # "remove"
    PROVE  RetentionInv'
<1>1. Kept' = Kept
  BY DEF Kept, Later
<1> QED
  BY <1>1 DEF RetentionInv

LEMMA RetentionNext ==
    ASSUME TypeOK, CmdInv, RetentionInv, [Next]_vars
    PROVE  RetentionInv'
<1> USE DEF At, Go, Idle, service, store, world, data
<1>1. CASE Publish
  <2>1. /\ cmd'.step = "retain" /\ cmd.name \in Names /\ UNCHANGED rotten
    BY <1>1 DEF Publish, TypeOK, Command, CmdInv, world
  <2>2. PICK b \in Backup : b.whole = TRUE /\ complete' = [complete EXCEPT ![cmd.name] = b]
    <3>1. [data |-> cmd.data, whole |-> TRUE,
           journal |-> IF journal THEN "kept" ELSE "none"] \in Backup
      BY <1>1 DEF Publish, CmdInv, Backup
    <3> QED
      BY <1>1, <3>1 DEF Publish
  <2>3. Complete' = Complete \cup {cmd.name}
    BY <2>1, <2>2, NoBackup DEF Complete, TypeOK
  <2>4. Kept' \subseteq Kept \cup {cmd.name}
    <3>1. IsFiniteSet(Complete')
      BY <2>3, LaterFinite, FS_AddElement
    <3> SUFFICES ASSUME NEW n \in Kept', n # cmd.name
                 PROVE  n \in Kept
      OBVIOUS
    <3>2. n \in Complete /\ Cardinality({m \in Complete' : Before(n, m)}) < Keep
      BY <2>3 DEF Kept, Later
    <3>3. Later(n) \subseteq {m \in Complete' : Before(n, m)}
      BY <2>3 DEF Later
    <3>4. IsFiniteSet({m \in Complete' : Before(n, m)})
      BY <3>1, FS_Subset
    <3>5. /\ Cardinality(Later(n)) <= Cardinality({m \in Complete' : Before(n, m)})
          /\ Cardinality(Later(n)) \in Nat
          /\ Cardinality({m \in Complete' : Before(n, m)}) \in Nat
      BY <3>3, <3>4, LaterGrows
    <3> QED
      BY <3>2, <3>5, BackupConstants DEF Kept
  <2>5. \A n \in Kept' : complete'[n].whole \/ n \in rotten'
    <3>1. complete'[cmd.name].whole = TRUE
      BY <2>1, <2>2 DEF TypeOK
    <3>2. \A n \in Kept : n # cmd.name => complete'[n] = complete[n]
      BY <2>2 DEF TypeOK, Kept, Complete
    <3> QED
      BY <2>1, <2>4, <3>1, <3>2 DEF RetentionInv
  <2> QED
    BY <2>1, <2>5 DEF RetentionInv
<1>2. CASE Retain
  <2>1. UNCHANGED <<complete, rotten>> /\ cmd'.doomed = Obsolete
    BY <1>2 DEF Retain, TypeOK, Command
  <2>2. Complete' = Complete /\ Kept' = Kept
    BY <2>1 DEF Complete, Kept, Later
  <2> QED
    BY <2>1, <2>2, ObsoleteIsOld DEF RetentionInv
<1>3. CASE BeginRemove
  <2>1. PICK n \in cmd.doomed : complete' = [complete EXCEPT ![n].whole = FALSE]
    BY <1>3 DEF BeginRemove
  <2>2. n \notin Kept
    BY <1>3, <2>1 DEF BeginRemove, RetentionInv
  <2>3. \A m \in Kept : complete'[m].whole = complete[m].whole
    BY <2>1, <2>2 DEF TypeOK, Kept, Complete
  <2>4. Complete' = Complete
    BY <1>3, SameBackups
  <2>5. UNCHANGED <<rotten, cmd>>
    BY <1>3 DEF BeginRemove
  <2> QED
    BY <2>3, <2>4, <2>5, RetentionKept
<1>4. CASE EndRemove
  <2>1. PICK n \in cmd.doomed :
           /\ \A m \in cmd.doomed : m = n \/ Before(n, m)
           /\ complete' = [complete EXCEPT ![n] = None]
           /\ cmd'.doomed = cmd.doomed \ {n}
    BY <1>4 DEF EndRemove, TypeOK, Command
  <2>2. /\ UNCHANGED rotten /\ cmd.doomed \subseteq Complete \ Kept
        /\ \A k \in cmd.doomed, m \in Complete : Before(m, k) => m \in cmd.doomed
    BY <1>4 DEF EndRemove, RetentionInv
  <2>3. Complete' = Complete \ {n}
    BY <2>1, <2>2 DEF Complete, TypeOK
  <2>4. \A m \in Complete : ~Before(m, n)
    <3>1. SUFFICES ASSUME NEW m \in Complete, Before(m, n) PROVE FALSE
      OBVIOUS
    <3>2. m \in cmd.doomed
      BY <2>2, <3>1
    <3> QED
      BY <2>1, <2>2, <3>1, <3>2, Order DEF Complete
  <2>5. \A m \in Complete' : {k \in Complete' : Before(m, k)} = Later(m)
    BY <2>3, <2>4 DEF Later
  <2>6. Kept' = Kept
    <3>1. Kept' = {m \in Complete' : Cardinality(Later(m)) < Keep}
      BY <2>5 DEF Kept, Later
    <3> QED
      BY <2>2, <2>3, <3>1 DEF Kept
  <2>7. \A m \in Kept' : complete'[m] = complete[m]
    BY <2>1, <2>2, <2>6 DEF TypeOK, Kept, Complete
  <2> QED
    BY <2>1, <2>2, <2>3, <2>6, <2>7 DEF RetentionInv
<1>5. CASE Decay
  <2>1. PICK n \in Complete : /\ complete' = [complete EXCEPT ![n].whole = FALSE]
                              /\ rotten' = rotten \cup {n}
    BY <1>5 DEF Decay
  <2>2. Complete' = Complete
    BY <1>5, SameBackups DEF Bystander
  <2>3. \A m \in Kept : complete'[m].whole = complete[m].whole \/ m \in rotten'
    BY <2>1 DEF TypeOK, Kept, Complete
  <2> QED
    BY <1>5, <2>1, <2>2, <2>3, RetentionKept DEF Decay
<1>6. CASE DecayJournal
  <2>1. PICK n \in Complete : /\ complete' = [complete EXCEPT ![n].journal = "lost"]
                              /\ rotten' = rotten \cup {n}
    BY <1>6 DEF DecayJournal
  <2>2. Complete' = Complete
    BY <1>6, SameBackups DEF Bystander
  <2>3. \A m \in Kept : complete'[m].whole = complete[m].whole \/ m \in rotten'
    BY <2>1 DEF TypeOK, Kept, Complete
  <2> QED
    BY <1>6, <2>1, <2>2, <2>3, RetentionKept DEF DecayJournal
<1>7. ASSUME UNCHANGED <<complete, rotten>>, UNCHANGED cmd \/ cmd'.step # "remove"
      PROVE  RetentionInv'
  BY <1>7, RetentionKept DEF Complete
<1>8. CASE BeginCreate \/ CopyData \/ FailCreate
  <2>1. UNCHANGED <<complete, rotten>>
    BY <1>8 DEF BeginCreate, CopyData, FailCreate
  <2>2. CASE BeginCreate \/ FailCreate
    <3>1. CASE BeginCreate
      <4>1. PICK n : cmd' = [Idle EXCEPT !.step = "copy", !.name = n]
        BY <3>1 DEF BeginCreate
      <4> QED
        BY <1>7, <2>1, <4>1
    <3>2. CASE FailCreate
      BY <1>7, <2>1, <3>2 DEF FailCreate
    <3> QED
      BY <2>2, <3>1, <3>2
  <2>3. CASE CopyData
    BY <1>7, <2>1, <2>3 DEF CopyData, TypeOK, Command
  <2> QED
    BY <1>8, <2>2, <2>3
<1>9. CASE Record \/ VerifyBackup \/ GiveUp \/ Crash
  BY <1>7, <1>9 DEF Record, VerifyBackup, GiveUp, Crash
<1>10. CASE BeginRestore
  BY <1>7, <1>10 DEF BeginRestore
<1>11. CASE Stage
  <2>1. cmd'.step # "remove" /\ UNCHANGED <<complete, rotten>>
    BY <1>11 DEF Stage, TypeOK, Command
  <2> QED
    BY <1>7, <2>1
<1>12. CASE MoveAway \/ MoveIn \/ FailMoveIn \/ PutBack
  <2>1. UNCHANGED <<complete, rotten>>
    BY <1>12 DEF MoveAway, MoveIn, FailMoveIn, PutBack
  <2>2. CASE MoveAway
    BY <1>7, <2>1, <2>2 DEF MoveAway, TypeOK, Command
  <2>3. CASE MoveIn \/ PutBack
    BY <1>7, <2>1, <2>3 DEF MoveIn, PutBack
  <2>4. CASE FailMoveIn
    BY <1>7, <2>1, <2>4 DEF FailMoveIn, TypeOK, Command
  <2> QED
    BY <1>12, <2>2, <2>3, <2>4
<1>13. CASE \/ StartService \/ WriteData \/ StopService \/ KillService \/ SaveAlertState
            \/ Tick \/ UNCHANGED vars
  BY <1>7, <1>13 DEF StartService, WriteData, StopService, KillService, SaveAlertState, Tick, vars
<1> QED
  BY <1>1, <1>2, <1>3, <1>4, <1>5, <1>6, <1>8, <1>9, <1>10, <1>11, <1>12, <1>13
     DEF Next, Create, Restore
-----------------------------------------------------------------------------
(***************************************************************************)
(* The data that was in place.                                             *)
(***************************************************************************)
LEMMA RecoverableNext ==
    ASSUME TypeOK, CmdInv, Recoverable, [Next]_vars
    PROVE  Recoverable'
<1> USE DEF At, service, store, world, data
<1>1. current \in Versions /\ None \notin Versions /\ LogsOnly \notin Versions
  BY BackupConstants DEF TypeOK, Versions
<1>2. CASE MoveAway
  \* Nothing is overwritten, and what was in place is set aside.
  <2>1. /\ clock \in 0..MaxTime /\ rollbacks[clock] = None /\ UNCHANGED current
        /\ rollbacks' = [rollbacks EXCEPT ![clock] = live]
    BY <1>2 DEF MoveAway, TypeOK
  <2>2. CASE live = current
    BY <2>1, <2>2 DEF Recoverable, TypeOK
  <2>3. CASE \E t \in 0..MaxTime : rollbacks[t] = current
    BY <1>1, <2>1, <2>3 DEF Recoverable, TypeOK
  <2> QED
    BY <2>2, <2>3 DEF Recoverable
<1>3. CASE MoveIn
  \* The data directory was moved away, so that what it held stands.
  <2>1. live = None /\ UNCHANGED rollbacks /\ live' = cmd.data
        /\ current' = IF cmd.data \in Versions THEN cmd.data ELSE current
    BY <1>3 DEF MoveIn
  <2> QED
    BY <1>1, <2>1 DEF Recoverable
<1>4. CASE PutBack
  <2>1. /\ live = None /\ live' = rollbacks[cmd.stamp] /\ UNCHANGED current
        /\ rollbacks' = [rollbacks EXCEPT ![cmd.stamp] = None]
    BY <1>4 DEF PutBack
  <2>2. PICK t \in 0..MaxTime : rollbacks[t] = current
    BY <1>1, <2>1 DEF Recoverable
  <2> QED
    BY <2>1, <2>2 DEF Recoverable, TypeOK
<1>5. CASE SaveAlertState
  BY <1>1, <1>5 DEF SaveAlertState, Recoverable
<1>6. CASE WriteData
  BY <1>6 DEF WriteData, Recoverable
<1>7. CASE StartService
  BY <1>7 DEF StartService, Recoverable
<1>8. ASSUME UNCHANGED <<live, current, rollbacks>>
      PROVE  Recoverable'
  BY <1>8 DEF Recoverable
<1> QED
  BY <1>2, <1>3, <1>4, <1>5, <1>6, <1>7, <1>8
     DEF Next, Create, Restore, BeginCreate, CopyData, FailCreate, Publish, Retain, BeginRemove,
         EndRemove, Record, VerifyBackup, BeginRestore, Stage, FailMoveIn, GiveUp, StopService,
         KillService, Decay, DecayJournal, Tick, Crash, vars
-----------------------------------------------------------------------------
(***************************************************************************)
(* The inductive invariant.                                                *)
(***************************************************************************)
LEMMA BackupInit == Init => BackupInv
<1> SUFFICES ASSUME Init PROVE BackupInv
  OBVIOUS
<1> USE BackupConstants DEF Init, Idle
<1>1. TypeOK
  <2>1. cmd \in Command
    BY DEF Command, Steps
  <2>2. complete \in [Names -> Backup \cup {None}]
    OBVIOUS
  <2>3. rollbacks \in [0..MaxTime -> Content \cup {None, LogsOnly}]
    OBVIOUS
  <2>4. clock \in 0..MaxTime /\ crashes \in 0..MaxCrashes /\ 1 \in Versions
    BY DEF Versions
  <2> QED
    BY <2>1, <2>2, <2>3, <2>4 DEF TypeOK, Content
<1>2. Complete = {}
  BY DEF Complete
<1>3. CmdInv /\ Recoverable
  BY DEF CmdInv, Recoverable
<1>4. NewestInv /\ RetentionInv
  BY <1>2 DEF NewestInv, RetentionInv, Kept
<1> QED
  BY <1>1, <1>3, <1>4 DEF BackupInv

LEMMA BackupStep == BackupInv /\ [Next]_vars => BackupInv'
BY TypeNext, CmdNext, NewestNext, RetentionNext, RecoverableNext DEF BackupInv

LEMMA BackupInvariant == Spec => []BackupInv
BY BackupInit, BackupStep, PTL DEF Spec
-----------------------------------------------------------------------------
(***************************************************************************)
(* The theorems.                                                           *)
(***************************************************************************)
\* Every variable has its type: in particular a command that runs has copied
\* whole data or data that is known to be bad, never a directory of logs.
THEOREM TypeCorrect == Spec => []TypeOK
BY BackupInvariant, PTL DEF BackupInv

\* The data that was in place survives every restore, every failure and death
\* of one and every writer into the gap between its renames.
THEOREM Recovery == Spec => []Recoverable
BY BackupInvariant, PTL DEF BackupInv

\* No step takes away what was set aside, but to put it back in place.
THEOREM SetAside == Spec => RollbacksStand
<1>1. ASSUME TypeOK, CmdInv, [Next]_vars
      PROVE  [\A t \in 0..MaxTime : rollbacks[t] # None =>
                 rollbacks'[t] = rollbacks[t] \/ live' = rollbacks[t]]_vars
  <2> USE DEF store, data, world, service
  <2>1. CASE MoveAway
    BY <1>1, <2>1 DEF MoveAway, TypeOK
  <2>2. CASE PutBack
    BY <1>1, <2>2 DEF PutBack, TypeOK, CmdInv, At
  <2>3. ASSUME UNCHANGED rollbacks
        PROVE  \A t \in 0..MaxTime : rollbacks'[t] = rollbacks[t]
    BY <2>3
  <2> QED
    BY <1>1, <2>1, <2>2, <2>3
       DEF Next, Create, Restore, BeginCreate, CopyData, FailCreate, Publish, Retain,
           BeginRemove, EndRemove, Record, VerifyBackup, BeginRestore, Stage, MoveIn,
           FailMoveIn, GiveUp, StartService, WriteData, StopService, KillService,
           SaveAlertState, Decay, DecayJournal, Tick, Crash, vars
<1> QED
  BY <1>1, BackupInvariant, PTL DEF BackupInv, Spec, RollbacksStand

\* What the ledger records as verified is there and whole at that moment; the
\* backup just made is never a victim of the retention that follows it.
THEOREM TrueLedger == Spec => LedgerTrue
<1>1. ASSUME TypeOK, CmdInv, NewestInv, [Next]_vars
      PROVE  [ledger' # ledger =>
                 /\ complete'[ledger'.name] # None
                 /\ complete'[ledger'.name].whole]_vars
  <2> USE DEF store, data, world, service
  <2>1. CASE Record
    BY <1>1, <2>1 DEF Record, Vouch, NewestInv, Sound, At
  <2>2. CASE VerifyBackup
    BY <2>2 DEF VerifyBackup, Vouch, Sound
  <2>3. CASE BeginRestore
    BY <2>3 DEF BeginRestore, Vouch, Sound
  <2> QED
    BY <1>1, <2>1, <2>2, <2>3
       DEF Next, Create, Restore, BeginCreate, CopyData, FailCreate, Publish, Retain,
           BeginRemove, EndRemove, Stage, MoveAway, MoveIn, FailMoveIn, PutBack, GiveUp,
           StartService, WriteData, StopService, KillService, SaveAlertState, Decay,
           DecayJournal, Tick, Crash, vars
<1> QED
  BY <1>1, BackupInvariant, PTL DEF BackupInv, Spec, LedgerTrue

\* Retention keeps as many backups as it is told to, where there are as many:
\* the newest of those it does not keep has them all after it.
LEMMA EnoughKept ==
    ASSUME Cardinality(Complete) >= Keep
    PROVE  Cardinality(Kept) >= Keep
<1>0. IsFiniteSet(Kept) /\ Kept \subseteq Complete
  BY LaterFinite, FS_Subset DEF Kept
<1>1. CASE Complete \subseteq Kept
  <2>1. Kept = Complete
    BY <1>0, <1>1
  <2> QED
    BY <2>1
<1>2. CASE ~(Complete \subseteq Kept)
  <2> DEFINE Afters == {Later(n) : n \in Complete \ Kept}
  <2>1. Afters \subseteq FiniteSubsetsOf(Complete) /\ Afters # {}
    BY <1>2, LaterFinite DEF FiniteSubsetsOf, Later
  <2>2. PICK S \in Afters : \A T \in Afters : <<T, S>> \notin StrictSubsetOrdering(Complete)
    <3> HIDE DEF Afters
    <3> QED
      BY <2>1, FS_StrictSubsetOrderingWellFounded, WFMin, Zenon
  <2>3. PICK n \in Complete \ Kept : S = Later(n)
    OBVIOUS
  <2>4. Later(n) \subseteq Kept
    <3> SUFFICES ASSUME NEW m \in Later(n), m \notin Kept
                 PROVE  FALSE
      OBVIOUS
    <3>1. m \in Complete /\ n \in Names /\ m \in Names /\ Before(n, m)
      BY DEF Later, Complete
    <3>2. Later(m) \subseteq Later(n) /\ m \notin Later(m)
      BY <3>1, Order DEF Later, Complete
    <3>3. Later(m) \in Afters /\ <<Later(m), Later(n)>> \in StrictSubsetOrdering(Complete)
      BY <3>1, <3>2 DEF StrictSubsetOrdering, Later
    <3> QED
      BY <2>2, <2>3, <3>3
  <2>5. /\ Cardinality(Later(n)) <= Cardinality(Kept)
        /\ Cardinality(Later(n)) \in Nat /\ Cardinality(Kept) \in Nat
    BY <1>0, <2>4, LaterGrows
  <2> QED
    BY <2>3, <2>5, BackupConstants DEF Kept
<1> QED
  BY <1>1, <1>2

\* As long as fewer backups have decayed than are to be kept, one of them can
\* be restored, at every moment of a retention and whatever becomes of it.
THEOREM AlwaysRestorable == Spec => []RecoveryPossible
<1>1. BackupInv => RecoveryPossible
  <2> SUFFICES ASSUME TypeOK, RetentionInv, Cardinality(Complete) >= Keep,
                      Cardinality(Complete \cap rotten) < Keep,
                      \A n \in Complete : ~Sound(n)
               PROVE  FALSE
    BY DEF BackupInv, RecoveryPossible
  <2>1. Kept \subseteq Complete \cap rotten
    BY DEF RetentionInv, Kept, Sound, Complete
  <2>2. IsFiniteSet(Complete \cap rotten)
    BY LaterFinite, FS_Subset
  <2>3. /\ Cardinality(Kept) <= Cardinality(Complete \cap rotten)
        /\ Cardinality(Kept) \in Nat /\ Cardinality(Complete \cap rotten) \in Nat
    BY <2>1, <2>2, LaterGrows
  <2>4. Cardinality(Kept) >= Keep
    BY EnoughKept
  <2> QED
    BY <2>3, <2>4, BackupConstants
<1> QED
  BY <1>1, BackupInvariant, PTL
=============================================================================
