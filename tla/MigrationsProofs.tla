--------------------------- MODULE MigrationsProofs ---------------------------
(***************************************************************************)
(* For any number of migrations: after every crash and every failure the   *)
(* file's version counts the migrations it has, and a file of these        *)
(* programs has its auto_vacuum mode.                                      *)
(***************************************************************************)
EXTENDS Migrations, TLAPS

\* What Open has read is still so: no other process changes the file.
ReadsStay ==
    /\ opener.at \in {"wal", "migrate", "version", "commit"} => opener.version = file.version
    /\ opener.at \in {"version", "commit"} => opener.version < opener.program

\* The header carries the mode, and is written before the first migration.
HeaderHasMode ==
    /\ file.ours => ~file.foreign
    /\ file.ours /\ file.header => file.autoVacuum
    /\ file.ours /\ file.version > 0 => file.header
    /\ opener.at = "wal" => opener.autoVacuum = NeedsAutoVacuum
    /\ opener.at \in {"migrate", "version", "commit"} => file.header

IInv == TypeOK /\ VersionMatchesSchema /\ ReadsStay /\ HeaderHasMode

\* The invariant holds before any program runs.
LEMMA InitIInv == Init => IInv
<1>. SUFFICES ASSUME Init PROVE IInv
  OBVIOUS
<1>. USE LatestIsPositive
<1>1. TypeOK
  <2>1. NoFile \in File /\ ForeignFile \in File
    BY DEF NoFile, ForeignFile, File
  <2>2. ASSUME NEW v \in 1 .. Latest, NEW vacuum \in BOOLEAN
        PROVE  EarlierFile(v, vacuum) \in File
    <3>1. v \in 0 .. Latest /\ 1 .. v \in SUBSET (1 .. Latest)
      OBVIOUS
    <3>. QED
      BY <3>1, Zenon DEF EarlierFile, File
  <2>3. file \in File
    BY <2>1, <2>2 DEF Init
  <2>4. opener \in Opener /\ opener.tx = {} /\ opener.at = "down"
    BY DEF Init, Down, Opener, Steps
  <2>. QED
    BY <2>3, <2>4 DEF Init, TypeOK
<1>2. VersionMatchesSchema
  <2>1. NoFile.schema = 1 .. NoFile.version /\ ForeignFile.schema = 1 .. ForeignFile.version
    <3>1. NoFile.version = 0 /\ NoFile.schema = {} /\ ForeignFile.version = 0 /\ ForeignFile.schema = {}
      BY DEF NoFile, ForeignFile
    <3>2. 1 .. 0 = {}
      OBVIOUS
    <3>. QED
      BY <3>1, <3>2, Zenon
  <2>2. \A v, vacuum : EarlierFile(v, vacuum).schema = 1 .. EarlierFile(v, vacuum).version
    BY Zenon DEF EarlierFile
  <2>. QED
    BY <2>1, <2>2, Zenon DEF Init, VersionMatchesSchema
<1>3. ReadsStay
  BY DEF Init, Down, ReadsStay
<1>4. HeaderHasMode
  <2>1. opener.at = "down"
    BY DEF Init, Down
  <2>2. ~NoFile.foreign /\ ~NoFile.header /\ NoFile.version = 0 /\ ~ForeignFile.ours
    BY DEF NoFile, ForeignFile
  <2>3. \A v, vacuum : ~EarlierFile(v, vacuum).ours
    BY DEF EarlierFile
  <2>. QED
    BY <2>1, <2>2, <2>3 DEF Init, HeaderHasMode
<1>. QED
  BY <1>1, <1>2, <1>3, <1>4 DEF IInv

\* What is kept of a file that stays, and of the record of a process that starts.
LEMMA SameFile ==
    ASSUME IInv, file' = file, opener' \in Opener, opener'.tx = {}, pools' \subseteq AllPools,
           opener'.at \notin {"wal", "version", "commit"},
           opener'.at = "migrate" => opener'.version = file.version /\ file.header
    PROVE  IInv'
BY DEF IInv, TypeOK, VersionMatchesSchema, ReadsStay, HeaderHasMode

\* A program that is down holds nothing.
LEMMA DownIsOpener == Down \in Opener /\ Down.tx = {} /\ Down.at = "down" /\ Down.program = 0
BY LatestIsPositive DEF Down, Opener, Steps

\* A program that starts holds nothing yet.
LEMMA FromDownIsOpener ==
    ASSUME NEW at \in Steps, NEW n \in 0 .. Latest, NEW r,
           \/ r = [Down EXCEPT !.at = at]
           \/ r = [Down EXCEPT !.at = at, !.program = n]
    PROVE  r \in Opener /\ r.tx = {} /\ r.at = at
<1>1. CASE r = [Down EXCEPT !.at = at]
  BY <1>1, DownIsOpener DEF Opener
<1>2. CASE r = [Down EXCEPT !.at = at, !.program = n]
  BY <1>2, DownIsOpener DEF Opener
<1>. QED
  BY <1>1, <1>2

\* A step of Open that only goes on.
LEMMA ToIsOpener ==
    ASSUME TypeOK, NEW at \in Steps, To(at)
    PROVE  /\ opener' \in Opener /\ opener'.at = at /\ opener'.tx = opener.tx
           /\ opener'.version = opener.version /\ opener'.program = opener.program
           /\ opener'.autoVacuum = opener.autoVacuum
BY DEF To, TypeOK, Opener

\* Every step of every program keeps the invariant.
LEMMA StepIInv == IInv /\ [Next]_vars => IInv'
<1>. SUFFICES ASSUME IInv, [Next]_vars PROVE IInv'
  OBVIOUS
<1>1. CASE Start
  <2>1. PICK n \in 1 .. Latest : opener' = [Down EXCEPT !.at = "file", !.program = n]
    BY <1>1 DEF Start
  <2>2. opener' \in Opener /\ opener'.tx = {} /\ opener'.at = "file"
    <3>1. n \in 0 .. Latest /\ "file" \in Steps
      BY DEF Steps
    <3>. QED
      BY <2>1, <3>1, FromDownIsOpener, Zenon
  <2>. QED
    BY <1>1, <2>2, SameFile DEF Start, IInv, TypeOK
<1>2. CASE OpenFile
  <2>1. /\ file' \in File /\ file'.version = file.version /\ file'.schema = file.schema
        /\ file'.foreign = file.foreign /\ file'.header = file.header
        /\ file'.autoVacuum = file.autoVacuum /\ file'.ours = file.ours
    BY <1>2 DEF OpenFile, IInv, TypeOK, File
  <2>2. opener' \in Opener /\ opener'.tx = {} /\ opener'.at = "writer"
    BY <1>2 DEF OpenFile, IInv, TypeOK, Opener, Steps, File
  <2>3. pools' \subseteq AllPools
    BY <1>2 DEF OpenFile, IInv, TypeOK
  <2>. QED
    BY <2>1, <2>2, <2>3 DEF IInv, TypeOK, VersionMatchesSchema, ReadsStay, HeaderHasMode
<1>3. CASE OpenWriter
  <2>1. opener' \in Opener /\ opener'.tx = {} /\ opener'.at = "inspect"
    BY <1>3, ToIsOpener DEF OpenWriter, IInv, TypeOK, Steps
  <2>. QED
    BY <1>3, <2>1, SameFile DEF OpenWriter, IInv, TypeOK, AllPools
<1>4. CASE Inspect
  <2>1. /\ opener' \in Opener /\ opener'.tx = {} /\ opener'.at = "wal"
        /\ opener'.version = file.version /\ opener'.autoVacuum = NeedsAutoVacuum
    BY <1>4 DEF Inspect, IInv, TypeOK, Opener, Steps, File, NeedsAutoVacuum
  <2>2. NeedsAutoVacuum' = NeedsAutoVacuum
    BY <1>4 DEF Inspect, NeedsAutoVacuum
  <2>. QED
    BY <1>4, <2>1, <2>2
       DEF Inspect, IInv, TypeOK, VersionMatchesSchema, ReadsStay, HeaderHasMode
<1>5. CASE SetWAL
  <2>1. opener.at = "wal" /\ opener.autoVacuum = NeedsAutoVacuum /\ opener.version = file.version
    BY <1>5 DEF SetWAL, IInv, ReadsStay, HeaderHasMode
  <2>2. /\ file' \in File /\ file'.version = file.version /\ file'.schema = file.schema
        /\ file'.foreign = file.foreign /\ file'.header = TRUE /\ file'.ours = file.ours
        /\ file'.autoVacuum = (IF file.header THEN file.autoVacuum ELSE opener.autoVacuum)
    BY <1>5 DEF SetWAL, IInv, TypeOK, File, Opener
  <2>3. file.ours /\ ~file.header => NeedsAutoVacuum
    <3>1. file.version \in Nat /\ file.schema = 1 .. file.version
      BY DEF IInv, TypeOK, File, VersionMatchesSchema
    <3>2. file.ours /\ ~file.header => ~file.foreign /\ ~(file.version > 0)
      BY DEF IInv, HeaderHasMode
    <3>. QED
      BY <3>1, <3>2 DEF NeedsAutoVacuum
  <2>4. /\ opener' \in Opener /\ opener'.tx = {} /\ opener'.at = "migrate"
        /\ opener'.version = file'.version
    BY <1>5, <2>1, <2>2, ToIsOpener DEF SetWAL, IInv, TypeOK, Steps
  <2>5. pools' \subseteq AllPools
    BY <1>5 DEF SetWAL, IInv, TypeOK
  <2>6. HeaderHasMode'
    BY <2>1, <2>2, <2>3, <2>4 DEF IInv, HeaderHasMode
  <2>. QED
    BY <2>2, <2>4, <2>5, <2>6 DEF IInv, TypeOK, VersionMatchesSchema, ReadsStay
<1>6. CASE Migrate
  <2>1. /\ opener.at = "migrate" /\ opener.version = file.version
        /\ opener.version \in Nat /\ opener.program \in 0 .. Latest
        /\ opener.version < opener.program
    BY <1>6 DEF Migrate, Missing, IInv, TypeOK, Opener, ReadsStay
  <2>2. opener.version + 1 \in 1 .. Latest
    BY <2>1, LatestIsPositive
  <2>3. /\ opener' \in Opener /\ opener'.tx = {opener'.version + 1} /\ opener'.at = "version"
        /\ opener'.version = opener.version /\ opener'.program = opener.program
    BY <1>6, <2>2 DEF Migrate, IInv, TypeOK, Opener, Steps
  <2>. QED
    BY <1>6, <2>1, <2>3
       DEF Migrate, IInv, TypeOK, VersionMatchesSchema, ReadsStay, HeaderHasMode
<1>7. CASE SetVersion
  <2>1. /\ opener' \in Opener /\ opener'.at = "commit" /\ opener'.tx = opener.tx
        /\ opener'.version = opener.version /\ opener'.program = opener.program
    BY <1>7, ToIsOpener DEF SetVersion, IInv, TypeOK, Steps
  <2>. QED
    BY <1>7, <2>1
       DEF SetVersion, IInv, TypeOK, VersionMatchesSchema, ReadsStay, HeaderHasMode
<1>8. CASE Commit
  <2>1. /\ opener.at = "commit" /\ opener.version = file.version /\ file.header
        /\ opener.tx = {opener.version + 1} /\ file.version \in Nat
        /\ opener.program \in 0 .. Latest /\ opener.version < opener.program
    BY <1>8 DEF Commit, IInv, TypeOK, Opener, File, ReadsStay, HeaderHasMode
  <2>2. file.version + 1 \in 0 .. Latest /\ file.version + 1 \in 1 .. Latest
    BY <2>1, LatestIsPositive
  <2>3. /\ file' \in File /\ file'.version = file.version + 1
        /\ file'.schema = file.schema \cup {file.version + 1}
        /\ file'.foreign = file.foreign /\ file'.header = file.header
        /\ file'.autoVacuum = file.autoVacuum /\ file'.ours = file.ours
    BY <1>8, <2>1, <2>2 DEF Commit, IInv, TypeOK, File
  <2>4. VersionMatchesSchema'
    BY <2>1, <2>3 DEF IInv, VersionMatchesSchema
  <2>5. /\ opener' \in Opener /\ opener'.tx = {} /\ opener'.at = "migrate"
        /\ opener'.version = file.version + 1
    BY <1>8, <2>1, <2>2 DEF Commit, IInv, TypeOK, Opener, Steps
  <2>6. pools' \subseteq AllPools
    BY <1>8 DEF Commit, IInv, TypeOK
  <2>7. HeaderHasMode'
    BY <2>1, <2>3, <2>5 DEF IInv, HeaderHasMode
  <2>. QED
    BY <2>3, <2>4, <2>5, <2>6, <2>7 DEF IInv, TypeOK, ReadsStay
<1>9. CASE Migrated
  <2>1. opener' \in Opener /\ opener'.tx = {} /\ opener'.at = "reader"
    BY <1>9, ToIsOpener DEF Migrated, IInv, TypeOK, Steps
  <2>. QED
    BY <1>9, <2>1, SameFile DEF Migrated, IInv, TypeOK
<1>10. ASSUME NEW pool \in AllPools, NEW at \in {"reader", "userReader", "checkpointer"},
              NEW next \in {"userReader", "checkpointer", "ready"}, OpenPool(pool, at, next)
       PROVE  IInv'
  <2>1. opener' \in Opener /\ opener'.tx = {} /\ opener'.at = next
    BY <1>10, ToIsOpener DEF OpenPool, IInv, TypeOK, Steps
  <2>2. file' = file /\ pools' \subseteq AllPools
    BY <1>10 DEF OpenPool, IInv, TypeOK
  <2>. QED
    BY <2>1, <2>2, SameFile
<1>11. CASE Fail
  <2>1. opener' \in Opener /\ opener'.tx = {} /\ opener'.at = "failed"
    <3>1. 0 \in 0 .. Latest /\ "failed" \in Steps
      BY LatestIsPositive DEF Steps
    <3>2. opener' = [Down EXCEPT !.at = "failed"]
      BY <1>11 DEF Fail
    <3>. QED
      BY <3>1, <3>2, FromDownIsOpener, Zenon
  <2>. QED
    BY <1>11, <2>1, SameFile DEF Fail, IInv, TypeOK
<1>12. CASE Crash
  <2>1. opener' \in Opener /\ opener'.tx = {} /\ opener'.at = "down"
    BY <1>12, DownIsOpener DEF Crash
  <2>. QED
    BY <1>12, <2>1, SameFile DEF Crash
<1>13. CASE UNCHANGED vars
  BY <1>13 DEF vars, IInv, TypeOK, VersionMatchesSchema, ReadsStay, HeaderHasMode, NeedsAutoVacuum
<1>14. CASE OpenReader \/ OpenUserReader \/ OpenCheckpointer
  BY <1>10, <1>14 DEF OpenReader, OpenUserReader, OpenCheckpointer, AllPools
<1>. QED
  BY <1>1, <1>2, <1>3, <1>4, <1>5, <1>6, <1>7, <1>8, <1>9, <1>11, <1>12, <1>13, <1>14 DEF Next

\* What every state of the programs and the file has.
LEMMA AlwaysIInv == Spec => []IInv
BY InitIInv, StepIInv, PTL DEF Spec

\* At every moment, whatever failed or was killed before, user_version counts
\* exactly the migrations of the file (migrate.go:187-204).
THEOREM SpecVersionMatchesSchema == Spec => []VersionMatchesSchema
<1>1. IInv => VersionMatchesSchema
  BY DEF IInv
<1>. QED
  BY <1>1, AlwaysIInv, PTL

\* A file these programs created never ends without auto_vacuum, however often
\* its first start was interrupted (migrate.go:171-186).
THEOREM SpecOursAreReclaimable == Spec => []OursAreReclaimable
<1>1. IInv => OursAreReclaimable
  BY DEF IInv, HeaderHasMode, OursAreReclaimable
<1>. QED
  BY <1>1, AlwaysIInv, PTL

\* The pools of every step of Open, and what it has made of the file by then.
Progress ==
    /\ opener.at \in {"down", "failed", "file", "writer"} => pools = {}
    /\ opener.at \in {"inspect", "wal", "migrate", "version", "commit", "reader"}
          => pools = {"writer"}
    /\ opener.at = "userReader" => pools = {"writer", "reader"}
    /\ opener.at = "checkpointer" => pools = {"writer", "reader", "userReader"}
    /\ opener.at = "ready" => pools = AllPools
    /\ opener.at \in {"migrate", "version", "commit", "reader", "userReader", "checkpointer",
                      "ready"} => file.wal
    /\ opener.at \in {"reader", "userReader", "checkpointer", "ready"}
          => file.version >= opener.program

\* No step loses a version that is committed.
LEMMA StepProgress == IInv /\ Progress /\ [Next]_vars => Progress'
<1>. SUFFICES ASSUME IInv, Progress, [Next]_vars PROVE Progress'
  OBVIOUS
<1>0. file \in File /\ opener \in Opener /\ opener.at \in Steps
  BY DEF IInv, TypeOK, Opener
<1>1. CASE Start
  BY <1>1 DEF Start, Progress, Down
<1>2. CASE OpenFile
  BY <1>2, <1>0 DEF OpenFile, Progress, Opener, File
<1>3. CASE OpenWriter
  BY <1>3, <1>0 DEF OpenWriter, To, Progress, Opener
<1>4. CASE Inspect
  BY <1>4, <1>0 DEF Inspect, Progress, Opener
<1>5. CASE SetWAL
  BY <1>5, <1>0 DEF SetWAL, To, Progress, Opener, File
<1>6. CASE Migrate
  BY <1>6, <1>0 DEF Migrate, Progress, Opener
<1>7. CASE SetVersion
  BY <1>7, <1>0 DEF SetVersion, To, Progress, Opener
<1>8. CASE Commit
  BY <1>8, <1>0 DEF Commit, Progress, Opener, File
<1>9. CASE Migrated
  <2>1. file.version >= opener.program
    BY <1>9, <1>0 DEF Migrated, Missing, IInv, ReadsStay, Opener, File
  <2>. QED
    BY <1>9, <1>0, <2>1 DEF Migrated, To, Progress, Opener
<1>10. CASE OpenReader
  BY <1>10, <1>0 DEF OpenReader, OpenPool, To, Progress, Opener
<1>11. CASE OpenUserReader
  BY <1>11, <1>0 DEF OpenUserReader, OpenPool, To, Progress, Opener
<1>12. CASE OpenCheckpointer
  BY <1>12, <1>0 DEF OpenCheckpointer, OpenPool, To, Progress, Opener, AllPools
<1>13. CASE Fail
  <2>1. pools \subseteq Closed(opener.at)
    BY <1>13, <1>0 DEF Fail, Progress, Closed, Steps
  <2>. QED
    BY <1>13, <2>1 DEF Fail, Progress, Down
<1>14. CASE Crash
  BY <1>14 DEF Crash, Progress, Down
<1>15. CASE UNCHANGED vars
  BY <1>15 DEF vars, Progress
<1>. QED
  BY <1>1, <1>2, <1>3, <1>4, <1>5, <1>6, <1>7, <1>8, <1>9, <1>10, <1>11, <1>12, <1>13,
     <1>14, <1>15 DEF Next

\* A store is handed out only with every table its program knows, in WAL mode
\* and with four pools, and an Open that failed keeps no pool, whichever step
\* of whichever start failed (migrate.go:134-247).
THEOREM SpecReadyOrNothing == Spec => []ReadyOrNothing
<1>1. Init => Progress
  BY DEF Init, Down, Progress
<1>2. IInv /\ Progress => ReadyOrNothing
  BY DEF IInv, TypeOK, File, Opener, VersionMatchesSchema, Progress, ReadyOrNothing
<1>. QED
  BY <1>1, <1>2, StepProgress, AlwaysIInv, PTL DEF Spec

\* No program, however old, lowers the version of a file or drops its tables
\* (migrate.go:187).
THEOREM SpecNeverOlder == Spec => NeverOlder
<1>1. IInv /\ [Next]_vars
        => [file'.version >= file.version /\ file.schema \subseteq file'.schema]_vars
  <2>. SUFFICES ASSUME IInv, Next
                PROVE  file'.version >= file.version /\ file.schema \subseteq file'.schema
    OBVIOUS
  <2>1. CASE Commit
    BY <2>1, LatestIsPositive DEF Commit, IInv, TypeOK, File, Opener, ReadsStay
  <2>2. CASE OpenFile \/ SetWAL
    <3>1. CASE OpenFile
      BY <3>1 DEF OpenFile, IInv, TypeOK, File
    <3>2. CASE SetWAL
      BY <3>2 DEF SetWAL, IInv, TypeOK, File
    <3>. QED
      BY <2>2, <3>1, <3>2
  <2>3. CASE UNCHANGED file
    BY <2>3 DEF IInv, TypeOK, File
  <2>. QED
    BY <2>1, <2>2, <2>3 DEF Next, Start, OpenWriter, Inspect, Migrate, SetVersion, Migrated,
       OpenReader, OpenUserReader, OpenCheckpointer, OpenPool, Fail, Crash
<1>. QED
  BY <1>1, AlwaysIInv, PTL DEF Spec, NeverOlder

==============================================================================
