------------------------------- MODULE Backup -------------------------------
(***************************************************************************)
(* Online backups and restore: internal/backup, the scheduled backup loop  *)
(* of internal/server and the commands backup and restore.                 *)
(*                                                                         *)
(* The contents of a database is a number that every commit raises. The    *)
(* node keeps its commits in the write-ahead log; closing the database     *)
(* folds the log into watchpost.db, a process that is killed leaves it     *)
(* behind, and opening a database applies whatever log lies beside it. A   *)
(* file is whole or cut short, and a power failure cuts short what was     *)
(* never flushed. Backups are told apart by their names, of which only the *)
(* order matters: a scheduled one has the second in its name, and the      *)
(* operator's command writes to a name that sorts anywhere between them.   *)
(* The clock may be set. The node is stopped while a backup is restored,   *)
(* as Restore asks, in an orderly way or not.                              *)
(***************************************************************************)
EXTENDS Integers, FiniteSets

CONSTANTS MaxImage,   \* bound: commits
          MaxTime,    \* bound: the clock
          MaxFaults,  \* bound: errors, kills, power failures and lost disks
          Retain,     \* backup_retain: 0 keeps every backup
          Output,     \* names of the operator's backups: odd numbers
          Configured, \* passphrases of scheduled backups, None for a plain one
          Given,      \* passphrases of the operator's backups
          None

ASSUME BackupAssumption ==
    /\ {MaxImage, MaxTime, MaxFaults, Retain} \subseteq Nat
    /\ Output \subseteq {2 * t + 1 : t \in 0..MaxTime}
    /\ MaxImage > 0 /\ MaxTime > 0

Image == 1..MaxImage
Passphrase == Configured \cup Given \cup {None}
Time == 1..MaxTime
Scheduled(t) == 2 * t            \* the name of a backup made in second t
Name == {Scheduled(t) : t \in Time} \cup Output
Maker == {"schedule", "command"} \* backupLoop, and the command backup
\* A file: what it holds, whether it is complete and flushed, its passphrase;
\* history: sound, if no restore spoiled the database it is or was copied from.
File == [image : Image, whole : BOOLEAN, synced : BOOLEAN, sound : BOOLEAN,
         pass : Passphrase]
\* A write-ahead log: whether the file beside it is the one it was written
\* over, and the commit it reaches.
Log == [own : BOOLEAN, upto : Image]

ASSUME NoneAssumption == None \notin File /\ None \notin Log

VARIABLES db,      \* watchpost.db, or None
          wal,     \* watchpost.db-wal, or None
          up,      \* the node is serving
          image,   \* commits so far
          now,     \* the clock, in seconds
          dir,     \* the .wpbk files
          make,    \* the runs of Create
          restore, \* the run of Restore
          status,  \* backupStatus: the last run and what it copied; history:
                   \* outranked, if as many files as are kept sorted after its
                   \* backup when it pruned
          faults   \* failures so far

vars == <<db, wal, up, image, now, dir, make, restore, status, faults>>

Idle == [pc |-> "idle"]
Making == [pc : {"vacuum", "seal", "copy", "rename", "prune"},
           name : Name, file : File]
Status == [result : {"none", "ok", "error"}, image : 0..MaxImage,
           outranked : BOOLEAN]
Restoring == [pc : {"write", "install"}, file : File]

TypeOK ==
    /\ db \in File \cup {None}
    /\ wal \in Log \cup {None}
    /\ up \in BOOLEAN /\ image \in Image /\ now \in Time
    /\ dir \in [Name -> File \cup {None}]
    /\ make \in [Maker -> Making \cup {Idle}]
    /\ restore \in Restoring \cup {Idle}
    /\ status \in Status
    /\ faults \in 0..MaxFaults

NoStatus == [result |-> "none", image |-> 0, outranked |-> FALSE]
Plain(i) == [image |-> i, whole |-> TRUE, synced |-> TRUE, sound |-> TRUE,
             pass |-> None]

Init ==
    /\ db = Plain(1) /\ wal = None /\ up = TRUE /\ image = 1 /\ now = 1
    /\ dir = [n \in Name |-> None]
    /\ make = [m \in Maker |-> Idle] /\ restore = Idle
    /\ status = NoStatus /\ faults = 0

----------------------------------------------------------------------------
(* The database                                                            *)

\* The log belongs to the file beside it.
Fits == wal = None \/ wal.own
\* What a process reads that has the database open.
Current == IF wal = None THEN db.image ELSE wal.upto
\* Open reads through the log; with a file it does not belong to, a mixture.
Opened == db' = [db EXCEPT !.whole = db.whole /\ Fits]
\* Close, by the last process that has the database open, folds the log.
Closed == db' = [db EXCEPT !.image = Current] /\ wal' = None

\* A transaction of the node.
Commit ==
    /\ up /\ image < MaxImage
    /\ image' = image + 1
    /\ wal' = [own |-> Fits, upto |-> image + 1]
    /\ UNCHANGED <<db, up, now, dir, make, restore, status, faults>>

\* The clock advances, or is set.
Tick ==
    /\ now' \in Time \ {now}
    /\ UNCHANGED <<db, wal, up, image, dir, make, restore, status, faults>>

Abandoned(M) == make' = [m \in Maker |-> IF m \in M THEN Idle ELSE make[m]]

\* Run returns without waiting for the backup loop, and the node closes the
\* database: what the loop was doing is cut off.
Stop ==
    /\ up /\ up' = FALSE
    /\ IF make["command"] = Idle THEN Closed ELSE UNCHANGED <<db, wal>>
    /\ Abandoned({"schedule"})
    /\ status' = NoStatus
    /\ UNCHANGED <<image, now, dir, restore, faults>>

\* Open creates a database where there is none.
Start ==
    /\ ~up /\ restore = Idle /\ up' = TRUE
    /\ IF db = None
       THEN /\ image < MaxImage /\ image' = image + 1
            /\ db' = Plain(image + 1)
       ELSE Opened /\ UNCHANGED image
    /\ UNCHANGED <<wal, now, dir, make, restore, status, faults>>

\* What a power failure leaves of a file.
Survives(f, power) ==
    IF f = None THEN None
    ELSE [f EXCEPT !.whole = f.whole /\ (f.synced \/ ~power), !.synced = TRUE]

\* All processes are killed, or the power fails; no deferred removal runs.
Crash ==
    /\ faults < MaxFaults /\ faults' = faults + 1
    /\ \E power \in BOOLEAN :
          /\ db' = Survives(db, power)
          /\ dir' = [n \in Name |-> Survives(dir[n], power)]
    /\ up' = FALSE /\ Abandoned(Maker)
    /\ restore' = Idle /\ status' = NoStatus
    /\ UNCHANGED <<wal, image, now>>

\* The data directory is lost with its disk; backups are kept elsewhere.
DiskLost ==
    /\ ~up /\ restore = Idle /\ make["command"] = Idle /\ db # None
    /\ faults < MaxFaults /\ faults' = faults + 1
    /\ db' = None /\ wal' = None
    /\ UNCHANGED <<up, image, now, dir, make, restore, status>>

----------------------------------------------------------------------------
(* Create                                                                  *)

Moved(m, pc) == make' = [make EXCEPT ![m].pc = pc]

\* runScheduledBackup, at the start of the node and at each tick of its
\* schedule, and the command. The .tmp that a killed run left is removed
\* first and never read, so such files are not modelled.
Create(m) ==
    /\ make[m] = Idle /\ restore = Idle /\ db # None
    /\ m = "schedule" => up
    /\ \E pass \in IF m = "schedule" THEN Configured ELSE Given,
          name \in IF m = "schedule" THEN {Scheduled(now)} ELSE Output :
          make' = [make EXCEPT ![m] =
                     [pc |-> "vacuum",
                      name |-> name,
                      file |-> [image |-> Current, whole |-> FALSE, synced |-> FALSE,
                                sound |-> db.sound, pass |-> pass]]]
    /\ IF m = "command" THEN Opened ELSE UNCHANGED db
    /\ UNCHANGED <<wal, up, image, now, dir, restore, status, faults>>

\* VACUUM INTO writes the contents as of its start.
Vacuum(m) ==
    /\ make[m].pc = "vacuum"
    /\ make' = [make EXCEPT ![m].pc = IF make[m].file.pass = None THEN "copy" ELSE "seal",
                            ![m].file.whole = TRUE]
    /\ UNCHANGED <<db, wal, up, image, now, dir, restore, status, faults>>

\* encryptV2, over the .tmp.
Encrypt(m) ==
    /\ make[m].pc = "seal" /\ Moved(m, "copy")
    /\ UNCHANGED <<db, wal, up, image, now, dir, restore, status, faults>>

CopyDefect(m) ==
    /\ make[m].pc = "copy" /\ Moved(m, "rename")
    /\ UNCHANGED <<db, wal, up, image, now, dir, restore, status, faults>>
\* atomicWrite copies the .tmp to a file of its own and flushes it; being
\* interrupted between the two is being interrupted before them.
Copy(m) ==
    /\ make[m].pc = "copy"
    /\ make' = [make EXCEPT ![m].pc = "rename", ![m].file.synced = TRUE]
    /\ UNCHANGED <<db, wal, up, image, now, dir, restore, status, faults>>

\* The command closes the database; the node may have been stopped meanwhile.
CommandCloses(m) == IF m = "command" /\ ~up THEN Closed ELSE UNCHANGED <<db, wal>>

\* The rename; the command is done, the loop goes on to prune.
Rename(m) ==
    /\ make[m].pc = "rename"
    /\ dir' = [dir EXCEPT ![make[m].name] = make[m].file]
    /\ IF m = "schedule" THEN Moved(m, "prune") ELSE Abandoned({m})
    /\ CommandCloses(m)
    /\ UNCHANGED <<up, image, now, restore, status, faults>>

Reported(result, i, outranked) ==
    status' = [result |-> result, image |-> i, outranked |-> outranked]
Errored(m) == IF m = "schedule" THEN Reported("error", 0, FALSE)
              ELSE UNCHANGED status

\* The passphrase file is unreadable or a step of Create fails: the temporary
\* files are removed and setBackupError reports it.
Fail(m) ==
    /\ make[m].pc \notin {"idle", "prune"} /\ faults < MaxFaults
    /\ faults' = faults + 1
    /\ Errored(m) /\ Abandoned({m}) /\ CommandCloses(m)
    /\ UNCHANGED <<up, image, now, dir, restore>>

Backups == {n \in Name : dir[n] # None}
Excess == Cardinality(Backups) - Retain
OldestDefect(k) == {n \in Backups : Cardinality({o \in Backups : o > n}) < k}
\* The k backups whose names sort first.
Oldest(k) == {n \in Backups : Cardinality({o \in Backups : o < n}) < k}

Outranked(n) == Retain > 0 /\ Cardinality({o \in Backups : o > n}) >= Retain

\* pruneBackups removes the excess, or stops at a removal that fails; either
\* way the run is reported as a success.
Prune ==
    /\ make["schedule"].pc = "prune"
    /\ \E k \in 0..(IF Retain > 0 /\ Excess > 0 THEN Excess ELSE 0) :
          /\ IF Retain > 0 /\ k < Excess
             THEN faults < MaxFaults /\ faults' = faults + 1
             ELSE UNCHANGED faults
          /\ dir' = [n \in Name |-> IF n \in Oldest(k) THEN None ELSE dir[n]]
    /\ Reported("ok", make["schedule"].file.image, Outranked(make["schedule"].name))
    /\ Abandoned({"schedule"})
    /\ UNCHANGED <<db, wal, up, image, now, restore>>

----------------------------------------------------------------------------
(* Restore                                                                 *)

\* decrypt: a container opens with its own passphrase, if it is complete.
Opens(f, pass) == f.pass = None \/ (f.pass = pass /\ f.whole)

\* Restore reads the backup and accepts it. A plain file that is cut short
\* may pass the validation, which reads the schema version only.
Restore ==
    /\ ~up /\ restore = Idle /\ make["command"] = Idle
    /\ \E n \in Backups, pass \in Passphrase, force \in BOOLEAN :
          /\ Opens(dir[n], pass) /\ (db # None => force)
          /\ restore' = [pc |-> "write",
                         file |-> [dir[n] EXCEPT !.pass = None, !.synced = FALSE]]
    /\ UNCHANGED <<db, wal, up, image, now, dir, make, status, faults>>

WriteDatabaseDefect ==
    /\ restore.pc = "write"
    /\ restore' = [restore EXCEPT !.pc = "install"]
    /\ UNCHANGED <<db, wal, up, image, now, dir, make, status, faults>>
\* The temporary file is written and flushed. Its write assigns to an err of
\* the if statement: a failure goes unnoticed.
WriteDatabase ==
    /\ restore.pc = "write"
    /\ \/ restore' = [restore EXCEPT !.pc = "install", !.file.synced = TRUE]
          /\ UNCHANGED faults
       \/ /\ faults < MaxFaults /\ faults' = faults + 1
          /\ restore' = [restore EXCEPT !.pc = "install", !.file.synced = TRUE,
                                        !.file.whole = FALSE, !.file.sound = FALSE]
    /\ UNCHANGED <<db, wal, up, image, now, dir, make, status>>

\* The rename replaces watchpost.db and nothing beside it: a log that a killed
\* node left is now the log of another file.
Install ==
    /\ restore.pc = "install" /\ restore' = Idle
    /\ db' = [restore.file EXCEPT !.sound = restore.file.sound /\ wal = None]
    /\ wal' = IF wal = None THEN None ELSE [wal EXCEPT !.own = FALSE]
    /\ UNCHANGED <<up, image, now, dir, make, status, faults>>

\* Creating, flushing, closing or renaming the file fails and is reported.
RestoreFails ==
    /\ restore # Idle /\ faults < MaxFaults /\ faults' = faults + 1
    /\ restore' = Idle
    /\ UNCHANGED <<db, wal, up, image, now, dir, make, status>>

----------------------------------------------------------------------------

MakeStep(m) == Create(m) \/ Vacuum(m) \/ Encrypt(m) \/ Copy(m)
               \/ Rename(m) \/ Fail(m)
Next ==
    \/ Commit \/ Tick \/ Stop \/ Start \/ Crash \/ DiskLost
    \/ \E m \in Maker : MakeStep(m)
    \/ Prune
    \/ Restore \/ WriteDatabase \/ Install \/ RestoreFails

Spec == Init /\ [][Next]_vars

----------------------------------------------------------------------------

(* BackupsComplete: whatever step of atomicWrite a kill or a power failure *)
(* interrupts, every .wpbk file is a complete copy of what the database    *)
(* held.                                                                   *)
BackupsComplete == \A n \in Backups : dir[n].whole

(* SuccessIsRestorable: while the status page reports the last scheduled   *)
(* backup as successful, the directory holds a backup at least as recent   *)
(* as that run's, although removals fail, the clock is set and the         *)
(* operator's files lie between, unless at its pruning as many files as    *)
(* pruneBackups keeps had names that sort after its own: then it is        *)
(* removed and reported all the same.                                      *)
SuccessIsRestorable ==
    status.result = "ok" /\ ~status.outranked =>
        \E n \in Backups : dir[n].whole /\ dir[n].image >= status.image

(* DatabaseIntact: restore atomically installs a complete database or      *)
(* leaves the old one: neither watchpost.db nor what the node serves is    *)
(* ever cut short or mixed with a log of another database.                 *)
DatabaseIntact == db # None => db.whole /\ (up => Fits)

(* SpoiledByRestoreOnly: the same, unless a restore's write failed         *)
(* unnoticed, it renamed the database beside a log that a killed node had  *)
(* left, or it restored a backup of such a database. No other kill, power  *)
(* failure or failing step of Create and Restore spoils the database.      *)
SpoiledByRestoreOnly == db # None /\ db.sound => db.whole /\ (up => Fits)

----------------------------------------------------------------------------
(* The invariants from which these follow for every instance.              *)

\* What is in the directory was flushed, and what is about to be renamed into
\* it is complete and flushed: a power failure finds nothing to cut short.
FlushedInv ==
    /\ \A n \in Backups : dir[n].whole /\ dir[n].synced
    /\ \A m \in Maker :
          /\ make[m].pc \in {"seal", "copy", "rename", "prune"} => make[m].file.whole
          /\ make[m].pc \in {"rename", "prune"} => make[m].file.synced

\* Who may have the database open, and nothing holds more than was committed.
OpenInv ==
    /\ up => db # None /\ restore = Idle
    /\ make["command"] # Idle => db # None /\ restore = Idle
    /\ make["schedule"] # Idle => up
    /\ wal # None => db # None /\ wal.upto <= image
    /\ db # None => db.image <= image
    /\ \A n \in Backups : dir[n].image <= image
    /\ \A m \in Maker : make[m] # Idle => make[m].file.image <= image
    /\ restore # Idle => restore.file.image <= image

\* The backup that was reported is there, or a later run of this server has
\* replaced it by one that is as recent: contents do not go back while the
\* node serves, and the operator's files have names of their own.
ReportedInv ==
    /\ make["schedule"] # Idle =>
          /\ make["schedule"].name \in {Scheduled(t) : t \in Time}
          /\ make["schedule"].file.image <= Current
    /\ make["command"] # Idle => make["command"].name \in Output
    /\ make["schedule"].pc = "prune" =>
          dir[make["schedule"].name] = make["schedule"].file
    /\ status.result = "ok" =>
          /\ up /\ status.image <= Current
          /\ ~status.outranked =>
                \E t \in Time : /\ dir[Scheduled(t)] # None
                                /\ dir[Scheduled(t)].image >= status.image
          /\ make["schedule"] # Idle => make["schedule"].file.image >= status.image

\* A database that no restore spoiled is complete, flushed, and has its own log
\* or none; so is, once written, the one that a restore is about to install.
IntactInv ==
    /\ db # None /\ db.sound => db.whole /\ db.synced /\ Fits
    /\ restore # Idle /\ restore.file.sound =>
          restore.file.whole /\ (restore.pc = "install" => restore.file.synced)

=============================================================================
