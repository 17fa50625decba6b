----------------------------- MODULE Migrations -----------------------------
(***************************************************************************)
(* Open (internal/store/migrate.go): the database file is created or       *)
(* brought to the version of the program, one transaction per migration,   *)
(* and four connection pools are opened on it.  Any step may fail, the     *)
(* process may be killed at any moment, and the next start may be of a     *)
(* newer or an older program.                                              *)
(***************************************************************************)
EXTENDS Integers, FiniteSets

CONSTANT Latest  \* len(migrations) of the newest program

ASSUME LatestIsPositive == Latest \in Nat \ {0}

VARIABLES
    file,    \* the database file
    opener,  \* the process in Open: its step, its program, what it has read
    pools    \* the connection pools that are open

vars == <<file, opener, pools>>

\* schema is the set of migrations whose objects the file has, foreign says
\* that it has objects of somebody else.  The header, with the auto_vacuum
\* mode, is written by the first write to the file and stays.
NoFile == [exists |-> FALSE, version |-> 0, schema |-> {}, foreign |-> FALSE,
           header |-> FALSE, autoVacuum |-> FALSE, wal |-> FALSE, ours |-> TRUE]

ForeignFile == [exists |-> TRUE, version |-> 0, schema |-> {}, foreign |-> TRUE,
                header |-> TRUE, autoVacuum |-> FALSE, wal |-> FALSE, ours |-> FALSE]

EarlierFile(version, autoVacuum) ==
    [exists |-> TRUE, version |-> version, schema |-> 1 .. version, foreign |-> FALSE,
     header |-> TRUE, autoVacuum |-> autoVacuum, wal |-> TRUE, ours |-> FALSE]

\* created says that this Open has created the file; tx is what the
\* transaction has changed.
Down == [at |-> "down", program |-> 0, created |-> FALSE, version |-> 0, autoVacuum |-> FALSE,
         tx |-> {}]

AllPools == {"writer", "reader", "userReader", "checkpointer"}

\* A data directory is new, or holds a file of an earlier version, which may be
\* older than the use of auto_vacuum, or a file of another origin.
Init ==
    /\ \/ file \in {NoFile, ForeignFile}
       \/ \E v \in 1 .. Latest, vacuum \in BOOLEAN : file = EarlierFile(v, vacuum)
    /\ opener = Down
    /\ pools = {}

To(at) == opener' = [opener EXCEPT !.at = at]

------------------------------------------------------------------------------
Start ==
    /\ opener.at = "down"
    /\ \E n \in 1 .. Latest : opener' = [Down EXCEPT !.at = "file", !.program = n]
    /\ UNCHANGED <<file, pools>>

OpenFile ==
    /\ opener.at = "file"
    /\ file' = [file EXCEPT !.exists = TRUE]
    /\ opener' = [opener EXCEPT !.at = "writer", !.created = ~file.exists]
    /\ UNCHANGED pools

OpenWriter ==
    /\ opener.at = "writer"
    /\ pools' = pools \cup {"writer"}
    /\ To("inspect")
    /\ UNCHANGED file

\* Mutant of NeedsAutoVacuum: only the Open that created the file asks for it.
NeedsAutoVacuumWhenCreated == opener.created

\* user_version is 0 and sqlite_schema has no objects.
NeedsAutoVacuum == file.version = 0 /\ file.schema = {} /\ ~file.foreign

\* auto_vacuum is a wish of the connection until the header is written.
Inspect ==
    /\ opener.at = "inspect"
    /\ opener' = [opener EXCEPT !.at = "wal", !.version = file.version,
                                !.autoVacuum = NeedsAutoVacuum]
    /\ UNCHANGED <<file, pools>>

\* journal_mode = WAL writes the header of a file that has none.
SetWAL ==
    /\ opener.at = "wal"
    /\ file' = [file EXCEPT !.wal = TRUE, !.header = TRUE,
                            !.autoVacuum = IF file.header THEN @ ELSE opener.autoVacuum]
    /\ To("migrate")
    /\ UNCHANGED pools

\* The condition of the loop, with version for i.
Missing == opener.version < opener.program

\* The migrations that say IF NOT EXISTS.
Repeatable == {n \in 1 .. Latest : n > 2}

\* The next migration in its transaction; one that finds its objects there
\* already may fail only (see Fail).
Migrate ==
    /\ opener.at = "migrate"
    /\ Missing
    /\ opener.version + 1 \in file.schema => opener.version + 1 \in Repeatable
    /\ opener' = [opener EXCEPT !.at = "version", !.tx = {opener.version + 1}]
    /\ UNCHANGED <<file, pools>>

\* Mutant of SetVersion: the migration is committed first.
SetVersionLater ==
    /\ opener.at = "version"
    /\ file' = [file EXCEPT !.schema = @ \cup opener.tx]
    /\ To("commit")
    /\ UNCHANGED pools

\* PRAGMA user_version, in the same transaction.
SetVersion ==
    /\ opener.at = "version"
    /\ To("commit")
    /\ UNCHANGED <<file, pools>>

Commit ==
    /\ opener.at = "commit"
    /\ file' = [file EXCEPT !.schema = @ \cup opener.tx, !.version = opener.version + 1]
    /\ opener' = [opener EXCEPT !.at = "migrate", !.version = @ + 1, !.tx = {}]
    /\ UNCHANGED pools

\* Mutant of Migrated: the file gets the version of the program.
MigratedTo ==
    /\ opener.at = "migrate"
    /\ ~Missing
    /\ file' = [file EXCEPT !.version = opener.program]
    /\ To("reader")
    /\ UNCHANGED pools

\* Nothing is missing, be it that the file is newer than the program.
Migrated ==
    /\ opener.at = "migrate"
    /\ ~Missing
    /\ To("reader")
    /\ UNCHANGED <<file, pools>>

OpenPool(pool, at, next) ==
    /\ opener.at = at
    /\ pools' = pools \cup {pool}
    /\ To(next)
    /\ UNCHANGED file

OpenReader       == OpenPool("reader", "reader", "userReader")
OpenUserReader   == OpenPool("userReader", "userReader", "checkpointer")
OpenCheckpointer == OpenPool("checkpointer", "checkpointer", "ready")

\* Mutant of Closed: the writer and what failed.
ClosedWriter(at) == {"writer", at}

\* The pools that Open closes when the step fails.
Closed(at) ==
    CASE at = "userReader"   -> {"writer", "reader", "userReader"}
      [] at = "checkpointer" -> {"writer", "reader", "userReader", "checkpointer"}
      [] OTHER               -> {"writer", "reader"}

\* Any step may fail, at the latest when the step after it begins; what a
\* transaction has done is rolled back.
Fail ==
    /\ opener.at \notin {"down", "failed", "ready"}
    /\ pools' = pools \ Closed(opener.at)
    /\ opener' = [Down EXCEPT !.at = "failed"]
    /\ UNCHANGED file

\* The process exits, by itself after a failure or a shutdown, or it is killed.
Crash ==
    /\ opener.at # "down"
    /\ opener' = Down
    /\ pools' = {}
    /\ UNCHANGED file

Next ==
    \/ Start \/ OpenFile \/ OpenWriter \/ Inspect \/ SetWAL
    \/ Migrate \/ SetVersion \/ Commit \/ Migrated
    \/ OpenReader \/ OpenUserReader \/ OpenCheckpointer
    \/ Fail \/ Crash

Spec == Init /\ [][Next]_vars

------------------------------------------------------------------------------
(* Properties *)

Steps == {"down", "file", "writer", "inspect", "wal", "migrate", "version", "commit",
          "reader", "userReader", "checkpointer", "ready", "failed"}

File == [exists : BOOLEAN, version : 0 .. Latest, schema : SUBSET (1 .. Latest),
         foreign : BOOLEAN, header : BOOLEAN, autoVacuum : BOOLEAN, wal : BOOLEAN, ours : BOOLEAN]

Opener == [at : Steps, program : 0 .. Latest, created : BOOLEAN, version : 0 .. Latest,
           autoVacuum : BOOLEAN, tx : SUBSET (1 .. Latest)]

\* Types; the transaction is open only between its statements.
TypeOK ==
    /\ file \in File
    /\ opener \in Opener
    /\ opener.tx = IF opener.at \in {"version", "commit"} THEN {opener.version + 1} ELSE {}
    /\ pools \subseteq AllPools

\* Whenever the process is killed, the file's user_version counts exactly the
\* migrations whose objects it has: the next start neither skips nor repeats one.
VersionMatchesSchema == file.schema = 1 .. file.version

\* A file that these programs created can return its free pages, as the purge's
\* incremental_vacuum needs: no interrupted start leaves it without auto_vacuum.
OursAreReclaimable == file.ours /\ file.version > 0 => file.autoVacuum

\* A store is handed out only with every table its program knows, in WAL mode,
\* and with its four pools; an Open that failed keeps none.
ReadyOrNothing ==
    /\ opener.at = "ready" =>
          1 .. opener.program \subseteq file.schema /\ file.wal /\ pools = AllPools
    /\ opener.at = "failed" => pools = {}

\* An older program leaves a newer file as it is.
NeverOlder == [][file'.version >= file.version /\ file.schema \subseteq file'.schema]_vars

==============================================================================
