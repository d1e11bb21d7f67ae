---------------------------- MODULE Backup_proofs ----------------------------
(***************************************************************************)
(* Proofs about Backup for every number of commits, seconds, faults and    *)
(* backups kept.                                                           *)
(***************************************************************************)
EXTENDS Backup, FiniteSetTheorems, TLAPS

----------------------------------------------------------------------------
(* Types *)

LEMMA Constants ==
    /\ MaxImage \in Nat /\ MaxTime \in Nat /\ MaxFaults \in Nat /\ Retain \in Nat
    /\ MaxImage > 0 /\ MaxTime > 0
    /\ None \in Passphrase /\ Configured \subseteq Passphrase
    /\ Given \subseteq Passphrase
  BY BackupAssumption DEF Passphrase

\* Names are numbers, and the operator's are not those of scheduled backups.
LEMMA Names ==
    /\ Name \subseteq 1..(2 * MaxTime + 1) /\ Output \subseteq Name
    /\ \A t \in Time : Scheduled(t) \in Name /\ Scheduled(t) \notin Output
<1>1. \A o \in Output : \E t \in 0..MaxTime : o = 2 * t + 1
  BY BackupAssumption
<1>2. Output \subseteq 1..(2 * MaxTime + 1)
  BY <1>1, Constants
<1>3. \A t \in Time : Scheduled(t) \in 1..(2 * MaxTime + 1)
  BY Constants DEF Time, Scheduled
<1>4. \A t \in Time : Scheduled(t) \notin Output
  BY <1>1, Constants DEF Time, Scheduled
<1> QED
  BY <1>2, <1>3, <1>4 DEF Name

LEMMA IdleIsNoMaking == Idle \notin Making /\ Idle \notin Restoring
  BY DEF Idle, Making, Restoring

\* What a process reads of a well-typed database is contents.
LEMMA CurrentType ==
    ASSUME TypeOK, db # None
    PROVE  Current \in Image
  BY NoneAssumption DEF TypeOK, Current, File, Log

LEMMA FitsType ==
    ASSUME TypeOK
    PROVE  Fits \in BOOLEAN
  BY DEF Fits, TypeOK, Log

LEMMA SurvivesType ==
    ASSUME NEW f \in File \cup {None}, NEW power \in BOOLEAN
    PROVE  /\ Survives(f, power) \in File \cup {None}
           /\ Survives(f, power) = None <=> f = None
           /\ f # None => /\ Survives(f, power).image = f.image
                          /\ Survives(f, power).synced
                          /\ Survives(f, power).sound = f.sound
                          /\ f.whole /\ f.synced => Survives(f, power).whole
  BY NoneAssumption DEF Survives, File

LEMMA PlainType ==
    ASSUME NEW i \in Image
    PROVE  Plain(i) \in File /\ Plain(i) # None /\ Plain(i).image = i
<1>1. Plain(i) \in File /\ Plain(i).image = i
  BY Constants DEF Plain, File
<1> QED
  BY <1>1, NoneAssumption

LEMMA NoStatusType ==
    NoStatus \in Status
  BY Constants DEF NoStatus, Status

LEMMA AbandonedType ==
    ASSUME TypeOK, NEW M, Abandoned(M)
    PROVE  /\ make' \in [Maker -> Making \cup {Idle}]
           /\ \A m \in Maker : make'[m] = IF m \in M THEN Idle ELSE make[m]
  BY DEF Abandoned, TypeOK

LEMMA InitType == Init => TypeOK
  BY Constants, NoStatusType DEF Init, TypeOK, Plain, File, Image, Time

LEMMA InitOpen == Init => OpenInv
<1> SUFFICES ASSUME Init PROVE OpenInv
  OBVIOUS
<1>1. db \in File /\ db # None /\ db.image = 1 /\ wal = None
  BY Constants, PlainType DEF Init, Image
<1>2. Backups = {} /\ \A m \in Maker : make[m] = Idle
  BY DEF Init, Backups
<1> QED
  BY <1>1, <1>2 DEF Init, OpenInv, Maker

\* Types and who has the database open, together: what is committed, closed
\* or copied is the contents of a database that is there.
LEMMA OpenStep == TypeOK /\ OpenInv /\ [Next]_vars => TypeOK' /\ OpenInv'
<1> SUFFICES ASSUME TypeOK, OpenInv, [Next]_vars PROVE TypeOK' /\ OpenInv'
  OBVIOUS
<1> USE NoneAssumption, Constants DEF Maker
<1>1. CASE Commit
  <2>1. db \in File /\ image + 1 \in Image /\ wal' \in Log
    BY <1>1, FitsType DEF Commit, TypeOK, OpenInv, Log, Image
  <2>2. TypeOK'
    BY <1>1, <2>1 DEF Commit, TypeOK
  <2> QED
    BY <1>1, <2>1, <2>2 DEF Commit, TypeOK, OpenInv, Backups, File, Image, Making, Restoring, Log
<1>2. CASE Tick
  BY <1>2 DEF Tick, TypeOK, OpenInv, Backups, Time
<1>3. CASE Stop
  <2>1. db' \in File /\ wal' \in Log \cup {None} /\ db'.image <= image
    BY <1>3, CurrentType DEF Stop, Closed, Current, TypeOK, OpenInv, File, Log
  <2>2. TypeOK'
    BY <1>3, <2>1, NoStatusType, AbandonedType DEF Stop, TypeOK
  <2> QED
    BY <1>3, <2>1, <2>2 DEF Stop, Closed, Abandoned, TypeOK, OpenInv, Backups
<1>4. CASE Start
  <2>1. db' \in File /\ image' \in Image /\ image <= image' /\ db'.image <= image'
    <3>1. CASE db = None
      <4>1. image + 1 \in Image /\ image' = image + 1 /\ db' = Plain(image + 1)
        BY <1>4, <3>1 DEF Start, TypeOK, Image
      <4> QED
        BY <4>1, PlainType DEF Image, TypeOK
    <3>2. CASE db # None
      <4>1. db' = [db EXCEPT !.whole = db.whole /\ Fits] /\ image' = image /\ db \in File
        BY <1>4, <3>2 DEF Start, Opened, TypeOK
      <4> QED
        <5>1. db' \in File /\ db'.image = db.image
          BY <4>1 DEF File
        <5> QED
          BY <3>2, <4>1, <5>1 DEF TypeOK, OpenInv, Image, File
    <3> QED
      BY <3>1, <3>2
  <2>2. TypeOK'
    BY <1>4, <2>1 DEF Start, TypeOK
  <2> QED
    BY <1>4, <2>1, <2>2 DEF Start, TypeOK, OpenInv, Backups, File, Image, Log, Making, Restoring
<1>5. CASE Crash
  <2> PICK power \in BOOLEAN : /\ db' = Survives(db, power)
                               /\ dir' = [n \in Name |-> Survives(dir[n], power)]
    BY <1>5 DEF Crash
  <2>1. \A n \in Name : /\ dir'[n] \in File \cup {None}
                        /\ dir'[n] = None <=> dir[n] = None
                        /\ dir[n] # None => dir'[n].image = dir[n].image
    BY SurvivesType DEF TypeOK
  <2>2. /\ db' \in File \cup {None} /\ (db' = None <=> db = None)
        /\ db # None => db'.image = db.image
    BY SurvivesType DEF TypeOK
  <2>3. TypeOK'
    <3>1. make' \in [Maker -> Making \cup {Idle}] /\ faults' \in 0..MaxFaults
      BY <1>5, AbandonedType DEF Crash, TypeOK
    <3>2. dir' \in [Name -> File \cup {None}]
      BY <2>1
    <3> QED
      BY <1>5, <2>2, <3>1, <3>2, NoStatusType DEF Crash, TypeOK
  <2> QED
    BY <1>5, <2>1, <2>2, <2>3 DEF Crash, Abandoned, OpenInv, Backups, TypeOK
<1>6. CASE DiskLost
  BY <1>6 DEF DiskLost, TypeOK, OpenInv, Backups
<1>7. ASSUME NEW m \in Maker, MakeStep(m) PROVE TypeOK' /\ OpenInv'
  <2>1. CASE Create(m)
    <3> PICK pass \in Passphrase, name \in Name :
           make' = [make EXCEPT ![m] =
                     [pc |-> "vacuum",
                      name |-> name,
                      file |-> [image |-> Current, whole |-> FALSE, synced |-> FALSE,
                                sound |-> db.sound, pass |-> pass]]]
      BY <2>1, Names DEF Create, TypeOK
    <3>1. Current \in Image /\ Current <= image
      BY <2>1, CurrentType DEF Create, Current, OpenInv, TypeOK, Image
    <3>2. make'[m] \in Making /\ make' \in [Maker -> Making \cup {Idle}]
          /\ make'[m].file.image <= image
      <4>1. db.sound \in BOOLEAN
        BY <2>1 DEF Create, TypeOK, File
      <4> QED
        BY <3>1, <4>1 DEF TypeOK, Making, File
    <3>3. db' \in File /\ db'.image = db.image
      BY <2>1 DEF Create, Opened, TypeOK, File
    <3>4. TypeOK'
      BY <2>1, <3>2, <3>3 DEF Create, TypeOK
    <3> QED
      BY <2>1, <3>2, <3>3, <3>4, IdleIsNoMaking DEF Create, OpenInv, Backups, TypeOK
  <2>2. CASE Vacuum(m) \/ Encrypt(m) \/ Copy(m)
    <3>1. make[m] \in Making
      BY <2>2 DEF Vacuum, Encrypt, Copy, TypeOK, Idle
    <3>2. /\ make' \in [Maker -> Making \cup {Idle}]
          /\ make'[m] \in Making /\ make'[m].file.image = make[m].file.image
          /\ \A l \in Maker \ {m} : make'[l] = make[l]
      BY <2>2, <3>1 DEF Vacuum, Encrypt, Copy, Moved, TypeOK, Making, File
    <3>3. UNCHANGED <<db, wal, up, image, now, dir, restore, status, faults>>
      BY <2>2 DEF Vacuum, Encrypt, Copy
    <3>4. TypeOK'
      BY <3>2, <3>3 DEF TypeOK
    <3> QED
      BY <3>1, <3>2, <3>3, <3>4, IdleIsNoMaking DEF OpenInv, Backups
  <2>3. CASE Rename(m) \/ Fail(m)
    <3>1. make[m] \in Making /\ make[m].file \in File /\ make[m].name \in Name
      BY <2>3 DEF Rename, Fail, TypeOK, Idle, Making
    <3>2. make[m] # Idle
      BY <3>1, IdleIsNoMaking
    <3>3. /\ db' \in File \cup {None} /\ wal' \in Log \cup {None}
          /\ db' = None <=> db = None
          /\ db' # None => db'.image <= image
          /\ wal' # None => wal' = wal
      <4>1. CASE m = "command" /\ ~up
        BY <2>3, <3>2, <4>1, CurrentType
        DEF Rename, Fail, CommandCloses, Closed, Current, TypeOK, OpenInv, File, Log
      <4>2. CASE ~(m = "command" /\ ~up)
        BY <2>3, <4>2 DEF Rename, Fail, CommandCloses, TypeOK, OpenInv
      <4> QED
        BY <4>1, <4>2
    <3>4. /\ make' \in [Maker -> Making \cup {Idle}]
          /\ \A l \in Maker : make'[l] # Idle =>
                make[l] # Idle /\ make'[l].file = make[l].file
      BY <2>3, <3>1, <3>2 DEF Rename, Fail, Abandoned, Moved, TypeOK, Making
    <3>5. /\ dir' \in [Name -> File \cup {None}]
          /\ \A n \in Name : dir'[n] # None => dir'[n].image <= image
      BY <2>3, <3>1, <3>2 DEF Rename, Fail, TypeOK, OpenInv, Backups
    <3>6. /\ status' \in Status
          /\ faults' \in 0..MaxFaults
          /\ UNCHANGED <<up, image, now, restore>>
      <4>1. [result |-> "error", image |-> 0, outranked |-> FALSE] \in Status
        BY DEF Status
      <4>2. status' \in Status
        BY <2>3, <4>1 DEF Rename, Fail, Errored, Reported, TypeOK
      <4>3. faults' \in 0..MaxFaults
        BY <2>3 DEF Rename, Fail, TypeOK
      <4> QED
        BY <2>3, <4>2, <4>3 DEF Rename, Fail
    <3>7. TypeOK'
      BY <3>3, <3>4, <3>5, <3>6 DEF TypeOK
    <3> QED
      BY <3>3, <3>4, <3>5, <3>6, <3>7 DEF OpenInv, Backups
  <2> QED
    BY <1>7, <2>1, <2>2, <2>3 DEF MakeStep
<1>8. CASE Prune
  <2>1. make["schedule"] \in Making /\ make["schedule"].file.image \in Image
    BY <1>8 DEF Prune, TypeOK, Idle, Making, File
  <2>2. /\ dir' \in [Name -> File \cup {None}]
        /\ \A n \in Name : dir'[n] # None => dir'[n] = dir[n]
    BY <1>8 DEF Prune, TypeOK
  <2>3. faults' \in 0..MaxFaults
    BY <1>8 DEF Prune, TypeOK
  <2>4. status' \in Status
    BY <1>8, <2>1 DEF Prune, Reported, Status, Image, Outranked
  <2>5. TypeOK'
    BY <1>8, <2>1, <2>2, <2>3, <2>4 DEF Prune, Abandoned, TypeOK
  <2> QED
    BY <1>8, <2>2, <2>5 DEF Prune, Abandoned, OpenInv, Backups
<1>9. CASE Restore
  <2> PICK n \in Backups :
         restore' = [pc |-> "write", file |-> [dir[n] EXCEPT !.pass = None, !.synced = FALSE]]
    BY <1>9 DEF Restore
  <2>1. dir[n] \in File /\ dir[n].image <= image
    BY DEF Backups, TypeOK, OpenInv
  <2>2. restore' \in Restoring /\ restore'.file.image <= image
    BY <2>1 DEF Restoring, File
  <2>3. TypeOK'
    BY <1>9, <2>2 DEF Restore, TypeOK
  <2> QED
    BY <1>9, <2>2, <2>3 DEF Restore, OpenInv, Backups
<1>10. CASE WriteDatabase
  <2>1. restore \in Restoring
    BY <1>10 DEF WriteDatabase, TypeOK, Idle
  <2>2. restore' \in Restoring /\ restore'.file.image = restore.file.image
    <3>1. CASE restore' = [restore EXCEPT !.pc = "install", !.file.synced = TRUE]
      BY <2>1, <3>1 DEF Restoring, File
    <3>2. CASE restore' = [restore EXCEPT !.pc = "install", !.file.synced = TRUE,
                                          !.file.whole = FALSE,
                                          !.file.sound = FALSE]
      BY <2>1, <3>2 DEF Restoring, File
    <3> QED
      BY <1>10, <3>1, <3>2 DEF WriteDatabase
  <2>3. TypeOK'
    BY <1>10, <2>2 DEF WriteDatabase, TypeOK
  <2> QED
    BY <1>10, <2>1, <2>2, <2>3, IdleIsNoMaking DEF WriteDatabase, OpenInv, Backups
<1>11. CASE Install
  <2>1. restore \in Restoring /\ restore # Idle
    BY <1>11 DEF Install, TypeOK, Idle
  <2>2. /\ db' \in File /\ db'.image <= image
        /\ wal' \in Log \cup {None}
        /\ wal' # None => wal # None /\ wal'.upto = wal.upto
    BY <1>11, <2>1 DEF Install, OpenInv, Restoring, TypeOK, File, Log
  <2>3. TypeOK'
    BY <1>11, <2>2 DEF Install, TypeOK
  <2> QED
    BY <1>11, <2>1, <2>2, <2>3 DEF Install, OpenInv, Backups, TypeOK
<1>12. CASE RestoreFails
  BY <1>12 DEF RestoreFails, TypeOK, OpenInv, Backups
<1>13. CASE UNCHANGED vars
  BY <1>13 DEF vars, TypeOK, OpenInv, Backups
<1> QED
  BY <1>1, <1>2, <1>3, <1>4, <1>5, <1>6, <1>7, <1>8, <1>9, <1>10, <1>11, <1>12,
     <1>13 DEF Next

----------------------------------------------------------------------------
(* Complete backups *)

LEMMA InitFlushed == Init => FlushedInv
  BY DEF Init, FlushedInv, Backups, Idle

LEMMA FlushedStep ==
    TypeOK /\ FlushedInv /\ [Next]_vars => FlushedInv'
<1> SUFFICES ASSUME TypeOK, FlushedInv, [Next]_vars PROVE FlushedInv'
  OBVIOUS
<1> USE NoneAssumption DEF Maker
<1>1. CASE UNCHANGED <<dir, make>>
  BY <1>1 DEF FlushedInv, Backups
<1>2. CASE Stop
  BY <1>2, AbandonedType DEF Stop, FlushedInv, Backups, Idle
<1>3. CASE Crash
  <2> PICK power \in BOOLEAN : dir' = [n \in Name |-> Survives(dir[n], power)]
    BY <1>3 DEF Crash
  <2>1. \A n \in Name : dir'[n] # None =>
           /\ dir[n] # None
           /\ dir[n].whole /\ dir[n].synced => dir'[n].whole /\ dir'[n].synced
    BY SurvivesType DEF TypeOK
  <2> QED
    BY <1>3, <2>1, AbandonedType DEF Crash, FlushedInv, Backups, Idle
<1>4. ASSUME NEW m \in Maker, MakeStep(m) PROVE FlushedInv'
  <2>1. CASE Create(m)
    <3>1. make'[m].pc = "vacuum" /\ \A l \in Maker \ {m} : make'[l] = make[l]
      BY <2>1 DEF Create, TypeOK
    <3> QED
      BY <2>1, <3>1 DEF Create, FlushedInv, Backups
  <2>2. CASE Vacuum(m) \/ Encrypt(m) \/ Copy(m)
    <3>1. make[m] \in Making /\ dir' = dir
      BY <2>2 DEF Vacuum, Encrypt, Copy, TypeOK, Idle
    <3>2. \A l \in Maker \ {m} : make'[l] = make[l]
      BY <2>2 DEF Vacuum, Encrypt, Copy, Moved, TypeOK
    <3>3. CASE Vacuum(m)
      BY <3>1, <3>2, <3>3 DEF Vacuum, FlushedInv, Backups, TypeOK, Making, File
    <3>4. CASE Encrypt(m)
      BY <3>1, <3>2, <3>4 DEF Encrypt, Moved, FlushedInv, Backups, TypeOK, Making, File
    <3>5. CASE Copy(m)
      BY <3>1, <3>2, <3>5 DEF Copy, FlushedInv, Backups, TypeOK, Making, File
    <3> QED
      BY <2>2, <3>3, <3>4, <3>5
  <2>3. CASE Rename(m)
    <3>1. make[m] \in Making /\ make[m].name \in Name
          /\ make[m].file.whole /\ make[m].file.synced
      BY <2>3 DEF Rename, TypeOK, Idle, Making, FlushedInv
    <3>2. \A n \in Name : dir'[n] # None => dir'[n].whole /\ dir'[n].synced
      BY <2>3, <3>1 DEF Rename, TypeOK, FlushedInv, Backups
    <3>3. \A l \in Maker : make'[l] = Idle \/ (make'[l].file = make[l].file
                              /\ (l # m => make'[l] = make[l]))
      BY <2>3, <3>1 DEF Rename, Moved, Abandoned, TypeOK, Making
    <3> QED
      BY <3>1, <3>2, <3>3 DEF FlushedInv, Backups, Idle
  <2>4. CASE Fail(m)
    BY <2>4, AbandonedType DEF Fail, FlushedInv, Backups, Idle
  <2> QED
    BY <1>4, <2>1, <2>2, <2>3, <2>4 DEF MakeStep
<1>5. CASE Prune
  <2>1. \A n \in Name : dir'[n] # None => dir'[n] = dir[n]
    BY <1>5 DEF Prune, TypeOK
  <2> QED
    BY <1>5, <2>1, AbandonedType DEF Prune, FlushedInv, Backups, Idle
<1> QED
  BY <1>1, <1>2, <1>3, <1>4, <1>5
  DEF Next, vars, Commit, Tick, Start, DiskLost, Restore, WriteDatabase, Install,
      RestoreFails

----------------------------------------------------------------------------
(* An intact database *)

LEMMA InitIntact == Init => IntactInv
  BY DEF Init, IntactInv, Plain, Fits

LEMMA IntactStep ==
    TypeOK /\ OpenInv /\ FlushedInv /\ IntactInv /\ [Next]_vars => IntactInv'
<1> SUFFICES ASSUME TypeOK, OpenInv, FlushedInv, IntactInv, [Next]_vars
             PROVE  IntactInv'
  OBVIOUS
<1> USE NoneAssumption
\* Closing folds the log into the file.
<1>1. ASSUME Closed, db # None
      PROVE  /\ db'.sound = db.sound /\ wal' = None
             /\ db.sound => db'.whole /\ db'.synced
  BY <1>1 DEF Closed, IntactInv, TypeOK, File
\* Opening a sound database reads a log that belongs to the file.
<1>2. ASSUME Opened, db # None
      PROVE  db'.sound = db.sound /\ (db.sound => db' = db)
  BY <1>2 DEF Opened, IntactInv, TypeOK, File
<1>3. CASE Commit
  <2>1. UNCHANGED <<db, restore>> /\ (Fits => Fits')
    BY <1>3 DEF Commit, Fits
  <2> QED
    BY <2>1 DEF IntactInv
<1>4. CASE Stop
  <2>1. CASE make["command"] = Idle
    BY <1>1, <1>4, <2>1 DEF Stop, IntactInv, OpenInv, Fits
  <2>2. CASE make["command"] # Idle
    BY <1>4, <2>2 DEF Stop, IntactInv, Fits
  <2> QED
    BY <2>1, <2>2
<1>5. CASE Start
  <2>1. CASE db = None
    BY <1>5, <2>1 DEF Start, IntactInv, OpenInv, Fits, Plain
  <2>2. CASE db # None
    BY <1>2, <1>5, <2>2 DEF Start, IntactInv, Fits
  <2> QED
    BY <2>1, <2>2
<1>6. CASE Crash
  <2> PICK power \in BOOLEAN : db' = Survives(db, power)
    BY <1>6 DEF Crash
  <2>1. /\ db' = None <=> db = None
        /\ db # None => /\ db'.sound = db.sound
                        /\ db.whole /\ db.synced => db'.whole
                        /\ db'.synced
    BY SurvivesType DEF TypeOK
  <2>2. restore' = Idle /\ UNCHANGED wal
    BY <1>6 DEF Crash
  <2> QED
    BY <2>1, <2>2 DEF IntactInv, Fits
<1>7. CASE DiskLost
  BY <1>7 DEF DiskLost, IntactInv, Fits
<1>8. ASSUME NEW m \in Maker, MakeStep(m) PROVE IntactInv'
  <2>1. CASE Create(m)
    <3>1. db # None /\ db'.sound = db.sound /\ (db.sound => db' = db)
      BY <1>2, <2>1 DEF Create
    <3> QED
      BY <2>1, <3>1 DEF Create, IntactInv, Fits
  <2>2. CASE Vacuum(m) \/ Encrypt(m) \/ Copy(m)
    BY <2>2 DEF Vacuum, Encrypt, Copy, IntactInv, Fits
  <2>3. CASE Rename(m) \/ Fail(m)
    <3>1. CASE m = "command" /\ ~up
      <4>1. make[m] # Idle /\ db # None /\ Closed /\ restore' = restore
        BY <2>3, <3>1 DEF Rename, Fail, CommandCloses, OpenInv, Idle
      <4> QED
        BY <1>1, <4>1 DEF IntactInv, Fits
    <3>2. CASE ~(m = "command" /\ ~up)
      BY <2>3, <3>2 DEF Rename, Fail, CommandCloses, IntactInv, Fits
    <3> QED
      BY <3>1, <3>2
  <2> QED
    BY <1>8, <2>1, <2>2, <2>3 DEF MakeStep
<1>9. CASE Prune
  BY <1>9 DEF Prune, IntactInv, Fits
<1>10. CASE Restore
  <2> PICK n \in Backups :
         restore' = [pc |-> "write", file |-> [dir[n] EXCEPT !.pass = None, !.synced = FALSE]]
    BY <1>10 DEF Restore
  <2>1. dir[n] \in File /\ dir[n].whole
    BY DEF Backups, TypeOK, FlushedInv
  <2>2. restore'.file.whole /\ restore'.pc # "install"
    BY <2>1 DEF File
  <2> QED
    BY <1>10, <2>2 DEF Restore, IntactInv, Fits
<1>11. CASE WriteDatabase
  <2>1. restore \in Restoring /\ restore # Idle
    BY <1>11 DEF WriteDatabase, TypeOK, Idle
  <2>2. restore'.file.sound =>
           restore.file.sound /\ restore'.file.whole = restore.file.whole
           /\ restore'.file.synced
    <3>1. CASE restore' = [restore EXCEPT !.pc = "install", !.file.synced = TRUE]
      BY <2>1, <3>1 DEF Restoring, File
    <3>2. CASE restore' = [restore EXCEPT !.pc = "install", !.file.synced = TRUE,
                                          !.file.whole = FALSE,
                                          !.file.sound = FALSE]
      BY <2>1, <3>2 DEF Restoring, File
    <3> QED
      BY <1>11, <3>1, <3>2 DEF WriteDatabase
  <2> QED
    BY <1>11, <2>1, <2>2 DEF WriteDatabase, IntactInv, Fits
<1>12. CASE Install
  <2>1. restore \in Restoring /\ restore # Idle
    BY <1>12 DEF Install, Idle, TypeOK
  <2>2. db'.sound => /\ restore.file.sound /\ wal = None
                     /\ db'.whole = restore.file.whole
                     /\ db'.synced = restore.file.synced
    BY <1>12, <2>1 DEF Install, Restoring, File
  <2>3. wal = None => wal' = None
    BY <1>12 DEF Install
  <2> QED
    BY <1>12, <2>1, <2>2, <2>3 DEF Install, IntactInv, Fits
<1>13. CASE RestoreFails
  BY <1>13 DEF RestoreFails, IntactInv, Fits
<1>14. CASE Tick \/ UNCHANGED vars
  BY <1>14 DEF Tick, vars, IntactInv, Fits
<1> QED
  BY <1>3, <1>4, <1>5, <1>6, <1>7, <1>8, <1>9, <1>10, <1>11, <1>12, <1>13, <1>14
  DEF Next

----------------------------------------------------------------------------
(* A success that can be restored from *)

LEMMA CurrentBound ==
    ASSUME TypeOK, OpenInv, db # None
    PROVE  Current <= image
  BY DEF TypeOK, OpenInv, Current

LEMMA BackupsFinite ==
    ASSUME TypeOK
    PROVE  IsFiniteSet(Backups) /\ Cardinality(Backups) \in Nat
<1>1. Backups \in SUBSET (1..(2 * MaxTime + 1))
  BY Names DEF Backups
<1>2. IsFiniteSet(1..(2 * MaxTime + 1))
  BY Constants, FS_Interval
<1> QED
  BY <1>1, <1>2, FS_Subset, FS_CardinalityType

\* pruneBackups keeps a backup if fewer than are kept sort after it: more sort
\* before it than are removed.
LEMMA PruneKeeps ==
    ASSUME TypeOK, NEW n \in Backups, ~Outranked(n), NEW k \in Nat,
           k = 0 \/ (Retain > 0 /\ k <= Cardinality(Backups) - Retain)
    PROVE  n \notin Oldest(k)
<1> DEFINE Before == {o \in Backups : o < n}
           After == {o \in Backups : o > n}
<1>1. \A o \in Backups : o \in Int
  BY Names, Constants DEF Backups
<1>2. Backups \ {n} = Before \cup After /\ Before \cap After = {}
  BY <1>1
<1>3. IsFiniteSet(Before) /\ IsFiniteSet(After)
  BY BackupsFinite, FS_Subset
<1>4. Cardinality(Before) \in Nat /\ Cardinality(After) \in Nat
  BY <1>3, FS_CardinalityType
<1>5. Cardinality(Backups \ {n}) = Cardinality(Before) + Cardinality(After)
  <2> HIDE DEF Before, After
  <2>1. Cardinality(Before \cup After) =
           Cardinality(Before) + Cardinality(After) - Cardinality(Before \cap After)
    BY <1>3, FS_Union
  <2>2. Cardinality(Before \cap After) = 0
    BY <1>2, FS_EmptySet
  <2>3. Cardinality(Backups \ {n}) = Cardinality(Before \cup After)
    BY <1>2
  <2> QED
    BY <1>4, <2>1, <2>2, <2>3
<1>6. Cardinality(Backups \ {n}) = Cardinality(Backups) - 1
  BY BackupsFinite, FS_RemoveElement
<1>7. Retain > 0 => Cardinality(After) < Retain
  BY <1>4, Constants DEF Outranked
<1> HIDE DEF Before, After
<1>8. ~(Cardinality(Before) < k)
  BY <1>4, <1>5, <1>6, <1>7, BackupsFinite, Constants
<1> QED
  BY <1>8 DEF Oldest, Before

LEMMA InitReported == Init => ReportedInv
  BY DEF Init, ReportedInv, Backups, Idle, NoStatus, Maker

\* A step after which the node does not serve leaves nothing to report.
LEMMA NotServing ==
    ASSUME ReportedInv, OpenInv', ~up',
           make'["command"] # Idle => make'["command"] = make["command"],
           status'.result = "ok" => status'= status /\ up' = up
    PROVE  ReportedInv'
<1>1. make'["schedule"] = Idle /\ status'.result # "ok"
  BY DEF OpenInv, ReportedInv
<1> QED
  BY <1>1 DEF ReportedInv, Idle

LEMMA ReportedStep ==
    TypeOK /\ OpenInv /\ ReportedInv /\ TypeOK' /\ OpenInv' /\ [Next]_vars
    => ReportedInv'
<1> SUFFICES ASSUME TypeOK, OpenInv, ReportedInv, TypeOK', OpenInv', [Next]_vars
             PROVE  ReportedInv'
  OBVIOUS
<1> USE NoneAssumption, Constants DEF Maker
<1>1. CASE Commit
  <2>1. Current \in Image /\ Current <= image /\ Current' = image + 1
    <3>1. wal' \in Log
      BY <1>1, FitsType DEF Commit, OpenInv, TypeOK, Log, Image
    <3>2. Current' = image + 1
      BY <1>1, <3>1 DEF Commit, Current
    <3> QED
      BY <1>1, <3>2, CurrentType, CurrentBound DEF Commit, OpenInv
  <2>2. /\ status.result = "ok" => status.image <= Current'
        /\ make["schedule"] # Idle => make["schedule"].file.image <= Current'
    BY <2>1, IdleIsNoMaking DEF ReportedInv, TypeOK, Image, Making, File, Status
  <2> QED
    BY <1>1, <2>2 DEF Commit, ReportedInv
<1>2. CASE Tick
  BY <1>2 DEF Tick, ReportedInv, Current
<1>3. CASE Stop
  BY <1>3, NotServing, AbandonedType DEF Stop, NoStatus
<1>4. CASE Start
  <2>1. make["schedule"] = Idle /\ status.result # "ok"
    BY <1>4 DEF Start, OpenInv, ReportedInv
  <2> QED
    BY <1>4, <2>1 DEF Start, ReportedInv, Idle
<1>5. CASE Crash
  BY <1>5, NotServing, AbandonedType DEF Crash, NoStatus
<1>6. CASE DiskLost
  BY <1>6, NotServing DEF DiskLost
<1>7. CASE Create("schedule")
  <2>1. /\ make'["schedule"].pc = "vacuum" /\ make'["schedule"].name = Scheduled(now)
        /\ make'["schedule"].file.image = Current
        /\ make'["command"] = make["command"]
    BY <1>7 DEF Create, TypeOK
  <2>2. Current' = Current /\ Current \in Image
    BY <1>7, CurrentType DEF Create, Current
  <2> QED
    BY <1>7, <2>1, <2>2 DEF Create, ReportedInv, TypeOK, Image
<1>8. CASE Create("command")
  <2>1. make'["command"].name \in Output /\ make'["schedule"] = make["schedule"]
    BY <1>8 DEF Create, TypeOK
  <2>2. db \in File /\ db' = [db EXCEPT !.whole = db.whole /\ Fits]
    BY <1>8 DEF Create, Opened, TypeOK
  <2>3. Current' = Current
    BY <1>8, <2>2 DEF Create, Current, File
  <2> QED
    BY <1>8, <2>1, <2>3 DEF Create, ReportedInv
<1>9. ASSUME NEW m \in Maker, Vacuum(m) \/ Encrypt(m) \/ Copy(m)
      PROVE  ReportedInv'
  <2>1. make[m] \in Making /\ make[m] # Idle
    BY <1>9 DEF Vacuum, Encrypt, Copy, TypeOK, Idle
  <2>2. /\ make'[m] # Idle /\ make'[m].pc # "prune"
        /\ make'[m].name = make[m].name
        /\ make'[m].file.image = make[m].file.image
        /\ \A l \in Maker \ {m} : make'[l] = make[l]
    BY <1>9, <2>1 DEF Vacuum, Encrypt, Copy, Moved, TypeOK, Making, File, Idle
  <2>3. UNCHANGED <<db, wal, up, now, dir, status>>
    BY <1>9 DEF Vacuum, Encrypt, Copy
  <2> QED
    BY <2>1, <2>2, <2>3 DEF ReportedInv, Current
<1>10. CASE Rename("schedule")
  <2> PICK g, f : g = make["schedule"].name /\ f = make["schedule"].file
    OBVIOUS
  <2>1. make["schedule"] \in Making /\ make["schedule"] # Idle
        /\ f \in File /\ f # None
    BY <1>10 DEF Rename, TypeOK, Idle, Making
  <2>2. PICK t \in Time : g = Scheduled(t)
    BY <2>1 DEF ReportedInv
  <2>3. dir' = [dir EXCEPT ![g] = f] /\ UNCHANGED <<db, wal, up, now, status>>
    BY <1>10 DEF Rename, CommandCloses
  <2>4. /\ make'["schedule"].name = g /\ make'["schedule"].file = f
        /\ make'["command"] = make["command"]
    BY <1>10, <2>1 DEF Rename, Moved, TypeOK, Making
  <2>5. dir'[g] = f
    BY <2>2, <2>3, Names DEF TypeOK
  <2>6. status.result = "ok" => f.image >= status.image
    BY <2>1 DEF ReportedInv
  <2>7. Current' = Current
    BY <2>3 DEF Current
  <2>8. status.result = "ok" =>
           \E u \in Time : dir'[Scheduled(u)] # None
                           /\ dir'[Scheduled(u)].image >= status.image
    BY <2>1, <2>2, <2>5, <2>6
  <2> QED
    BY <2>1, <2>2, <2>3, <2>4, <2>5, <2>6, <2>7, <2>8 DEF ReportedInv
<1>11. CASE Rename("command")
  <2>1. make["command"] \in Making /\ make["command"] # Idle
        /\ make["command"].name \in Output
    BY <1>11 DEF Rename, TypeOK, Idle, Making, ReportedInv
  <2>2. /\ make'["command"] = Idle /\ make'["schedule"] = make["schedule"]
        /\ dir' = [dir EXCEPT ![make["command"].name] = make["command"].file]
        /\ UNCHANGED <<up, now, status>>
    BY <1>11, <2>1, AbandonedType DEF Rename
  <2>3. \A t \in Time : dir'[Scheduled(t)] = dir[Scheduled(t)]
    BY <2>1, <2>2, Names DEF TypeOK
  <2>4. up => Current' = Current
    BY <1>11 DEF Rename, CommandCloses, Current
  <2>5. make["schedule"].pc = "prune" => make["schedule"] # Idle
    BY DEF Idle
  <2>6. make["schedule"].pc = "prune" =>
           dir'[make["schedule"].name] = dir[make["schedule"].name]
    BY <2>3, <2>5 DEF ReportedInv
  <2> QED
    BY <2>2, <2>3, <2>4, <2>5, <2>6 DEF ReportedInv, OpenInv
<1>12. ASSUME NEW m \in Maker, Fail(m) PROVE ReportedInv'
  <2>1. /\ make'[m] = Idle /\ \A l \in Maker \ {m} : make'[l] = make[l]
        /\ UNCHANGED <<up, now, dir>>
        /\ m = "command" => status' = status
        /\ m = "schedule" => status'.result # "ok"
    BY <1>12, AbandonedType DEF Fail, Errored, Reported
  <2>2. up => Current' = Current
    BY <1>12 DEF Fail, CommandCloses, Current
  <2> QED
    BY <2>1, <2>2 DEF ReportedInv, OpenInv, Idle
<1>13. CASE Prune
  <2> PICK g, f : g = make["schedule"].name /\ f = make["schedule"].file
    OBVIOUS
  <2>1. make["schedule"] # Idle /\ up /\ f \in File /\ f # None
    BY <1>13 DEF Prune, Idle, OpenInv, TypeOK, Making
  <2>2. PICK t \in Time : g = Scheduled(t)
    BY <2>1 DEF ReportedInv
  <2>3. g \in Backups /\ dir[g] = f
    BY <1>13, <2>1, <2>2, Names DEF Prune, ReportedInv, Backups
  <2> PICK k \in 0..(IF Retain > 0 /\ Excess > 0 THEN Excess ELSE 0) :
         dir' = [n \in Name |-> IF n \in Oldest(k) THEN None ELSE dir[n]]
    BY <1>13 DEF Prune
  <2>4. k \in Nat /\ (k = 0 \/ (Retain > 0 /\ k <= Cardinality(Backups) - Retain))
    BY BackupsFinite DEF Excess
  <2>5. ~Outranked(g) => dir'[g] = f
    BY <2>3, <2>4, PruneKeeps DEF Backups
  <2>6. /\ status'.result = "ok" /\ status'.image = f.image
        /\ status'.outranked = Outranked(g)
        /\ make'["schedule"] = Idle /\ make'["command"] = make["command"]
        /\ UNCHANGED <<db, wal, up, now>>
    BY <1>13, AbandonedType DEF Prune, Reported
  <2>7. f.image <= Current /\ Current' = Current
    BY <2>1, <2>6 DEF ReportedInv, Current
  <2>8. f.image \in Image
    BY <2>1 DEF File
  <2>9. ~status'.outranked =>
           \E u \in Time : dir'[Scheduled(u)] # None
                           /\ dir'[Scheduled(u)].image >= status'.image
    BY <2>1, <2>2, <2>5, <2>6, <2>8 DEF Image
  <2> QED
    BY <2>1, <2>6, <2>7, <2>9 DEF ReportedInv, Idle
<1>14. CASE Restore \/ WriteDatabase \/ RestoreFails \/ UNCHANGED vars
  BY <1>14 DEF Restore, WriteDatabase, RestoreFails, vars, ReportedInv, Current
<1>15. CASE Install
  <2>1. ~up
    BY <1>15 DEF Install, OpenInv, Idle
  <2> QED
    BY <1>15, <2>1, NotServing DEF Install
<1> QED
  BY <1>1, <1>2, <1>3, <1>4, <1>5, <1>6, <1>7, <1>8, <1>9, <1>10, <1>11, <1>12,
     <1>13, <1>14, <1>15 DEF Next, MakeStep

----------------------------------------------------------------------------
(* Results *)

\* Every variable keeps its type, and nothing is committed to, closed or
\* copied that is not there (Create, Restore and the node's own commits).
THEOREM TypeCorrect == Spec => [](TypeOK /\ OpenInv)
<1>1. Init => TypeOK /\ OpenInv
  BY InitType, InitOpen
<1> QED
  BY <1>1, OpenStep, PTL DEF Spec

\* Every .wpbk file is a complete snapshot, whatever a kill or a power failure
\* interrupts: atomicWrite flushes before it renames.
THEOREM CompleteTheorem == Spec => []BackupsComplete
<1>1. Spec => []FlushedInv
  BY InitFlushed, FlushedStep, TypeCorrect, PTL DEF Spec
<1>2. FlushedInv => BackupsComplete
  BY DEF FlushedInv, BackupsComplete
<1> QED
  BY <1>1, <1>2, PTL

\* While a run is reported as successful there is a backup at least as recent,
\* wherever the operator's files sort and however the clock is set, unless as
\* many files as are kept sorted after it (runScheduledBackup, pruneBackups).
THEOREM RestorableTheorem == Spec => []SuccessIsRestorable
<1>1. Spec => []ReportedInv
  BY InitReported, ReportedStep, TypeCorrect, PTL DEF Spec
<1>2. ReportedInv /\ BackupsComplete => SuccessIsRestorable
  BY Names DEF ReportedInv, BackupsComplete, SuccessIsRestorable, Backups
<1> QED
  BY <1>1, <1>2, CompleteTheorem, PTL

\* The database is cut short or mixed with the log of another only by a restore
\* whose write failed, that left a killed node's log in place, or whose backup
\* was of such a database (Restore): every other kill, power failure and failing
\* step leaves the old database or installs a complete one.
THEOREM IntactTheorem == Spec => []SpoiledByRestoreOnly
<1>1. Spec => []FlushedInv
  BY InitFlushed, FlushedStep, TypeCorrect, PTL DEF Spec
<1>2. Spec => []IntactInv
  BY <1>1, IntactStep, InitIntact, TypeCorrect, PTL DEF Spec
<1>3. IntactInv => SpoiledByRestoreOnly
  BY DEF IntactInv, SpoiledByRestoreOnly
<1> QED
  BY <1>2, <1>3, PTL
=============================================================================
