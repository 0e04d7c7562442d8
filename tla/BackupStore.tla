----------------------------- MODULE BackupStore -----------------------------
(***************************************************************************)
(* Backups of the runtime data directory (scripts/backup.py): create,      *)
(* retention, verify and restore, one file system operation per step, with *)
(* failures and the death of the command in between; the service that      *)
(* writes the data while it runs; and the programs that write their logs   *)
(* below the data directory at any time (scripts/health_check.py).         *)
(*                                                                         *)
(* The content of the directory is a version number, advanced by whatever  *)
(* the service writes.  A service that was killed leaves its last commits  *)
(* in the write-ahead log next to a database, the "journal" below, until   *)
(* it starts again; a graceful stop leaves none.                           *)
(*                                                                         *)
(* As the command demands, the service is stopped while a backup or a      *)
(* restore runs, and one command runs at a time.  The clock never goes     *)
(* back, and copying a data directory takes longer than the second that    *)
(* names the backup.                                                       *)
(***************************************************************************)
EXTENDS Naturals, FiniteSets

CONSTANTS Keep,        \* --keep
          None,        \* no directory
          LogsOnly,    \* a data directory that holds nothing but logs
          Damaged,     \* a data directory whose files are not what they were
          Behind,      \* one whose databases have lost their last commits
          MaxTime,     \* bound: seconds that matter
          MaxVersion,  \* bound: writes of the service
          MaxRot,      \* bound: backups that decay on their medium
          MaxCrashes   \* bound: commands that die

ASSUME BackupConstants ==
    /\ Keep \in Nat \ {0}
    /\ MaxVersion \in Nat \ {0}
    /\ MaxTime \in Nat /\ MaxRot \in Nat /\ MaxCrashes \in Nat
    /\ {None, LogsOnly, Damaged, Behind} \cap Nat = {}
    /\ {None, LogsOnly} \cap {Damaged, Behind} = {}

VARIABLES
    clock,
    running,    \* the service runs
    live,       \* what the data directory holds
    journal,    \* its last commits are still in write-ahead logs
    written,    \* the last version the service wrote
    current,    \* history: the last version that was whole and in place
    complete,   \* complete[n]: the backup directory n, or None
    partial,    \* names of .incomplete-* directories
    ledger,     \* verification_ledger.jsonl: its last line
    rollbacks,  \* rollbacks[t]: data.pre-restore-<t>, or None
    cmd,        \* the command under way
    rotten,     \* history: backups that decayed
    crashes

service == <<running, written>>
store == <<complete, partial, ledger>>
world == <<clock, running, written, rotten, crashes>>   \* what no command touches
data == <<live, journal, current>>
vars == <<clock, service, data, store, rollbacks, cmd, rotten, crashes>>
-----------------------------------------------------------------------------
Versions == 1..MaxVersion

\* kb_<second> or kb_<second>-<suffix>; names sort by second, then by suffix.
Names == (0..MaxTime) \X (0..MaxCrashes)
Before(m, n) == m[1] < n[1] \/ (m[1] = n[1] /\ m[2] < n[2])

Content == Versions \cup {Damaged, Behind}
Backup == [data : Content,
           whole : BOOLEAN,                          \* but for write-ahead logs
           journal : {"none", "kept", "lost"}]       \* its write-ahead logs
Complete == {n \in Names : complete[n] # None}

ASSUME NoBackup == None \notin Backup

Steps == {"idle", "copy", "publish", "retain", "remove", "record",
          "stage", "moveAway", "moveIn", "putBack"}
Command == [step : Steps, name : Names \cup {None},
            data : Content \cup {None},             \* what was copied
            doomed : SUBSET Names,                  \* what retention removes
            stamp : 0..MaxTime \cup {None}]         \* the rollback directory made
Idle == [step |-> "idle", name |-> None, data |-> None, doomed |-> {}, stamp |-> None]

TypeOK ==
    /\ clock \in 0..MaxTime
    /\ running \in BOOLEAN
    /\ live \in Content \cup {None, LogsOnly}
    /\ journal \in BOOLEAN
    /\ written \in Versions
    /\ current \in Versions
    /\ complete \in [Names -> Backup \cup {None}]
    /\ partial \subseteq Names
    /\ ledger \in [at : 0..MaxTime, name : Names] \cup {None}
    /\ rollbacks \in [0..MaxTime -> Content \cup {None, LogsOnly}]
    /\ cmd \in Command
    /\ rotten \subseteq Names
    /\ crashes \in 0..MaxCrashes

Init ==
    /\ clock = 0
    /\ running = TRUE
    /\ live = 1 /\ written = 1 /\ current = 1 /\ journal = FALSE
    /\ complete = [n \in Names |-> None]
    /\ partial = {}
    /\ ledger = None
    /\ rollbacks = [t \in 0..MaxTime |-> None]
    /\ cmd = Idle
    /\ rotten = {}
    /\ crashes = 0

At(step) == cmd.step = step
Go(step) == cmd' = [cmd EXCEPT !.step = step]
-----------------------------------------------------------------------------
(***************************************************************************)
(* create_backup.                                                          *)
(***************************************************************************)

\* _check_required: the data directory holds a knowledge base and its manifest.
Copyable == live \notin {None, LogsOnly}

\* _next_backup_name: no backup and no incomplete directory bears it.
NextName(n) ==
    /\ n[1] = clock
    /\ n \notin Complete \cup partial
    /\ \A k \in 0..(n[2] - 1) : <<clock, k>> \in Complete \cup partial

BeginCreate ==
    /\ At("idle") /\ ~running
    /\ Copyable
    /\ \E n \in Names :
          /\ NextName(n)
          /\ partial' = partial \cup {n}
          /\ cmd' = [Idle EXCEPT !.step = "copy", !.name = n]
    /\ UNCHANGED <<world, data, complete, ledger, rollbacks>>

\* The copy is made and hashed, and its manifest written.
CopyData ==
    /\ At("copy") /\ clock > cmd.name[1]
    /\ cmd' = [cmd EXCEPT !.step = "publish", !.data = live]
    /\ UNCHANGED <<world, data, store, rollbacks>>

\* Whatever fails before publication removes the incomplete directory (where
\* the removal fails too, Crash has the same result).
FailCreate ==
    /\ At("copy") \/ At("publish")
    /\ partial' = partial \ {cmd.name}
    /\ cmd' = Idle
    /\ UNCHANGED <<world, data, complete, ledger, rollbacks>>

\* temporary.replace(destination)
Publish ==
    /\ At("publish")
    /\ complete' = [complete EXCEPT ![cmd.name] = 
                   [data |-> cmd.data, whole |-> TRUE,
                    journal |-> IF journal THEN "kept" ELSE "none"]]
    /\ partial' = partial \ {cmd.name}
    /\ Go("retain")
    /\ UNCHANGED <<world, data, ledger, rollbacks>>

\* Mutant of Obsolete: the slice keeps one backup too few.
Obsolete_OneMore ==
    {n \in Complete : Cardinality({m \in Complete : Before(n, m)}) >= Keep - 1}

\* completed[:-keep] of _remove_old_backups: all but the last Keep names.
Obsolete ==
    {n \in Complete : Cardinality({m \in Complete : Before(n, m)}) >= Keep}

Retain ==
    /\ At("retain")
    /\ cmd' = [cmd EXCEPT !.step = IF Obsolete = {} THEN "record" ELSE "remove",
                          !.doomed = Obsolete]
    /\ UNCHANGED <<world, data, store, rollbacks>>

\* shutil.rmtree, oldest first, is not one step: the directory may have its
\* manifest for a while but no longer all of its data.  Once the manifest is
\* gone it counts as no backup, which is EndRemove.
BeginRemove ==
    /\ At("remove")
    /\ \E n \in cmd.doomed :
          /\ \A m \in cmd.doomed : m = n \/ Before(n, m)
          /\ complete[n] # None /\ complete[n].whole
          /\ complete' = [complete EXCEPT ![n].whole = FALSE]
    /\ UNCHANGED <<world, data, partial, ledger, rollbacks, cmd>>

EndRemove ==
    /\ At("remove")
    /\ \E n \in cmd.doomed :
          /\ \A m \in cmd.doomed : m = n \/ Before(n, m)
          /\ complete' = [complete EXCEPT ![n] = None]
          /\ cmd' = [cmd EXCEPT !.doomed = @ \ {n},
                                !.step = IF cmd.doomed = {n} THEN "record" ELSE "remove"]
    /\ UNCHANGED <<world, data, partial, ledger, rollbacks>>

\* _record_verification
Vouch(n) == ledger' = [at |-> clock, name |-> n]

Record ==
    /\ At("record")
    /\ Vouch(cmd.name)
    /\ cmd' = Idle
    /\ UNCHANGED <<world, data, complete, partial, rollbacks>>
-----------------------------------------------------------------------------
(***************************************************************************)
(* verify_backup and restore_backup.                                       *)
(***************************************************************************)

\* Mutant of Sound: the inventory is compared, the hashes are not.
Sound_NoHashes(n) == complete[n] # None

\* Every file is there and has its recorded hash, but for write-ahead logs,
\* which may be missing or altered.
Sound(n) == complete[n] # None /\ complete[n].whole

VerifyBackup ==
    /\ At("idle")
    /\ \E n \in Names : Sound(n) /\ Vouch(n)
    /\ UNCHANGED <<world, data, complete, partial, rollbacks, cmd>>

\* A restore verifies first, which writes the ledger as well.
BeginRestore ==
    /\ At("idle") /\ ~running
    /\ \E n \in Names :
          /\ Sound(n) /\ Vouch(n)
          /\ cmd' = [Idle EXCEPT !.step = "stage", !.name = n]
    /\ UNCHANGED <<world, data, complete, partial, rollbacks>>

\* shutil.copytree into the stage directory; an existing data directory is to
\* be moved away first.
Stage ==
    /\ At("stage")
    /\ cmd' = [cmd EXCEPT
                  !.step = IF live = None THEN "moveIn" ELSE "moveAway",
                  !.data = IF ~complete[cmd.name].whole THEN Damaged
                           ELSE IF complete[cmd.name].journal = "lost" THEN Behind
                           ELSE complete[cmd.name].data]
    /\ UNCHANGED <<world, data, store, rollbacks>>

\* Mutant of MoveAway: the old data is removed instead of set aside.
MoveAway_Removes ==
    /\ At("moveAway") /\ rollbacks[clock] = None
    /\ cmd' = [cmd EXCEPT !.step = "moveIn"]
    /\ live' = None
    /\ UNCHANGED <<world, journal, current, store, rollbacks>>

\* Mutant of MoveAway: an earlier rollback directory is overwritten.
MoveAway_Overwrites ==
    /\ At("moveAway")
    /\ rollbacks' = [rollbacks EXCEPT ![clock] = live]
    /\ live' = None
    /\ cmd' = [cmd EXCEPT !.step = "moveIn", !.stamp = clock]
    /\ UNCHANGED <<world, journal, current, store>>

MoveAway ==
    /\ At("moveAway") /\ rollbacks[clock] = None
    /\ rollbacks' = [rollbacks EXCEPT ![clock] = live]
    /\ live' = None
    /\ cmd' = [cmd EXCEPT !.step = "moveIn", !.stamp = clock]
    /\ UNCHANGED <<world, journal, current, store>>

MoveIn ==
    /\ At("moveIn") /\ live = None
    /\ live' = cmd.data
    /\ current' = IF cmd.data \in Versions THEN cmd.data ELSE current
    /\ journal' = (complete[cmd.name].journal = "kept")
    /\ cmd' = Idle
    /\ UNCHANGED <<world, store, rollbacks>>

\* The stage cannot be renamed, in particular when some program has made the
\* data directory anew meanwhile.  The stage is removed.
FailMoveIn ==
    /\ At("moveIn")
    /\ cmd' = IF cmd.stamp # None /\ live = None
              THEN [cmd EXCEPT !.step = "putBack", !.data = None] ELSE Idle
    /\ UNCHANGED <<world, data, store, rollbacks>>

\* _replace_with_retry(rollback, data_dir)
PutBack ==
    /\ At("putBack") /\ live = None
    /\ live' = rollbacks[cmd.stamp]
    /\ rollbacks' = [rollbacks EXCEPT ![cmd.stamp] = None]
    /\ cmd' = Idle
    /\ UNCHANGED <<world, journal, current, store>>

\* A directory cannot be removed, and nothing is recorded; the copy fails, a
\* rollback directory of this second exists, or the data directory cannot be
\* renamed, and the stage is removed; the old data cannot be put back.
GiveUp ==
    /\ At("remove") \/ At("stage") \/ At("moveAway") \/ At("putBack")
    /\ cmd' = Idle
    /\ UNCHANGED <<world, data, store, rollbacks>>
-----------------------------------------------------------------------------
(***************************************************************************)
(* Everyone else.                                                          *)
(***************************************************************************)

\* The service starts, on empty stores when there are none.  Opening and
\* closing a database empties its write-ahead log.
StartService ==
    /\ At("idle") /\ ~running
    /\ running' = TRUE
    /\ journal' = FALSE
    /\ IF live \in {None, LogsOnly}
       THEN /\ written < MaxVersion
            /\ written' = written + 1
            /\ live' = written'
            /\ current' = written'
       ELSE UNCHANGED <<live, written, current>>
    /\ UNCHANGED <<clock, store, rollbacks, cmd, rotten, crashes>>

WriteData ==
    /\ running /\ written < MaxVersion
    /\ written' = written + 1
    /\ live' = written'
    /\ current' = written'
    /\ UNCHANGED <<clock, running, journal, store, rollbacks, cmd, rotten, crashes>>

StopService ==
    /\ running
    /\ running' = FALSE
    /\ UNCHANGED <<clock, written, data, store, rollbacks, cmd, rotten, crashes>>

\* Killed, it closes no connection.
KillService ==
    /\ running
    /\ running' = FALSE
    /\ journal' = TRUE
    /\ UNCHANGED <<clock, written, live, current, store, rollbacks, cmd, rotten, crashes>>

\* The health check saves its alert state below the data directory and makes
\* the directories it needs, at any moment.
SaveAlertState ==
    /\ live = None
    /\ live' = LogsOnly
    /\ UNCHANGED <<world, journal, current, store, rollbacks, cmd>>

Decay ==
    /\ At("idle") /\ Cardinality(rotten) < MaxRot
    /\ \E n \in Complete \ rotten :
          /\ complete' = [complete EXCEPT ![n].whole = FALSE]
          /\ rotten' = rotten \cup {n}
    /\ UNCHANGED <<clock, service, data, partial, ledger, rollbacks, cmd, crashes>>

DecayJournal ==
    /\ At("idle") /\ Cardinality(rotten) < MaxRot
    /\ \E n \in Complete \ rotten :
          /\ complete[n].journal = "kept"
          /\ complete' = [complete EXCEPT ![n].journal = "lost"]
          /\ rotten' = rotten \cup {n}
    /\ UNCHANGED <<clock, service, data, partial, ledger, rollbacks, cmd, crashes>>

Tick ==
    /\ clock < MaxTime
    /\ clock' = clock + 1
    /\ UNCHANGED <<service, data, store, rollbacks, cmd, rotten, crashes>>

\* The command dies, or something it does not expect fails.
Crash ==
    /\ ~At("idle") /\ crashes < MaxCrashes
    /\ crashes' = crashes + 1
    /\ cmd' = Idle
    /\ UNCHANGED <<clock, service, data, store, rollbacks, rotten>>

Create == \/ BeginCreate \/ CopyData \/ FailCreate \/ Publish \/ Retain
          \/ BeginRemove \/ EndRemove \/ Record

Restore == \/ BeginRestore \/ Stage \/ MoveAway \/ MoveIn \/ FailMoveIn \/ PutBack

Next == \/ Create \/ VerifyBackup \/ Restore \/ GiveUp
        \/ StartService \/ WriteData \/ StopService \/ KillService
        \/ SaveAlertState \/ Decay \/ DecayJournal \/ Tick \/ Crash

Spec == Init /\ [][Next]_vars
-----------------------------------------------------------------------------
(***************************************************************************)
(* Properties.                                                             *)
(***************************************************************************)

\* The last data that was whole and in place is still in place or has been set
\* aside under a name of its own, whatever failed, died or wrote into the gap
\* between the two renames (backup.py:391-407, operations-runbook.md:107).
Recoverable ==
    \/ live = current
    \/ \E t \in 0..MaxTime : rollbacks[t] = current

\* What has been set aside stays there, unless it is put back in place; later
\* restores take nothing from it (backup.py:395-405).
RollbacksStand ==
    [][\A t \in 0..MaxTime : rollbacks[t] # None =>
          rollbacks'[t] = rollbacks[t] \/ live' = rollbacks[t]]_vars

\* While fewer than Keep of the backups have decayed, one of them can be
\* restored: retention, its failures and its death in the middle of a removal
\* never cost one of the newest Keep (backup.py:214-228, 279).
RecoveryPossible ==
    Cardinality(Complete) >= Keep /\ Cardinality(Complete \cap rotten) < Keep =>
        \E n \in Complete : Sound(n)

\* A new record of the ledger names a backup that is whole and still there when it
\* is written; the one just made has not fallen to its own retention
\* (backup.py:163-193, 279-287, ops-contract.md:45).
LedgerTrue ==
    [][ledger' # ledger =>
          /\ complete'[ledger'.name] # None
          /\ complete'[ledger'.name].whole]_vars

=============================================================================
