-------------------------- MODULE RolloutCompression ---------------------------
(***************************************************************************)
(* The two representations of one archived rollout, plain and compressed   *)
(* (rollout/src/compression.rs): workers that compress it, appenders that  *)
(* turn it back into a plain file to add a line, and readers that take     *)
(* whichever they find.  None of them holds a lock; each step below is one *)
(* call to the file system.  Workers belong to different processes and are *)
(* kept apart only by a marker file.                                       *)
(***************************************************************************)
EXTENDS Naturals, FiniteSets

CONSTANTS
    Workers,        \* processes that start the compression worker
    Appenders,      \* processes that append one line each
    Readers,        \* processes that read the rollout
    Creators,       \* appenders whose open creates a file that is missing
    MaxRetries,     \* MAX_NOT_FOUND_RETRIES of the reader
    MaxFiles,       \* bound: plain files ever created
    MaxRuns,        \* bound: worker runs ever started
    MaxCrashes      \* bound: workers whose process dies

ASSUME CompressionAssumption ==
    /\ Creators \subseteq Appenders
    /\ MaxRetries \in Nat /\ MaxFiles \in Nat \ {0} /\ MaxRuns \in Nat /\ MaxCrashes \in Nat

VARIABLES
    data,       \* the content of every plain file, linked or not
    plain,      \* the plain file the path names, 0 for none
    zst,        \* the compressed file: whether it is there and what it holds
    fresh,      \* plain files that were written within a week (MIN_ROLLOUT_AGE)
    marker,     \* the run marker: "none", "fresh" or "stale"
    worker, appender, reader,
    done,       \* appenders that were told their line is in the rollout
    files, runs, crashes

filesVars == <<data, plain, zst, fresh, marker, worker, appender, reader, done, files, runs, crashes>>

\* What the rollout held when it was archived; an appender adds its own name.
Base == "base"
NoZst == [there |-> FALSE, holds |-> {}]
NoState == [file |-> 0, holds |-> {}]
WIdle == [pc |-> "idle", before |-> NoState]
AIdle == [pc |-> "idle", holds |-> {}, file |-> 0]
RIdle == [pc |-> "idle", tries |-> 0, holds |-> {}]

(***************************************************************************)
(* The run marker.                                                         *)
(***************************************************************************)
StartRun(k) ==
    /\ worker[k].pc = "idle" /\ runs < MaxRuns
    /\ runs' = runs + 1
    /\ worker' = [worker EXCEPT ![k].pc = "create1"]
    /\ UNCHANGED <<data, plain, zst, fresh, marker, appender, reader, done, files, crashes>>

\* create_new either takes the marker or finds that it is there.
CreateMarker(k) ==
    /\ worker[k].pc \in {"create1", "create2"}
    /\ marker' = IF marker = "none" THEN "fresh" ELSE marker
    /\ worker' = [worker EXCEPT ![k] =
                    CASE marker = "none"            -> [@ EXCEPT !.pc = "claimed"]
                      [] worker[k].pc = "create1" /\ marker # "none" -> [@ EXCEPT !.pc = "age"]
                      [] OTHER                      -> WIdle]
    /\ UNCHANGED <<fresh, data, plain, zst, appender, reader, done, files, runs, crashes>>

\* A marker that is gone has no age and is not stale.
CheckAge(k) ==
    /\ worker[k].pc = "age"
    /\ worker' = [worker EXCEPT ![k] = IF marker = "stale" THEN [@ EXCEPT !.pc = "remove"] ELSE WIdle]
    /\ UNCHANGED <<data, plain, zst, fresh, marker, appender, reader, done, files, runs, crashes>>

RemoveMarker(k) ==
    /\ worker[k].pc = "remove"
    /\ marker' = "none"
    /\ worker' = [worker EXCEPT ![k].pc = "create2"]
    /\ UNCHANGED <<fresh, data, plain, zst, appender, reader, done, files, runs, crashes>>

\* A run that fails before it has scanned the directory gives the marker up.
FailRun(k) ==
    /\ worker[k].pc = "claimed"
    /\ marker' = "none"
    /\ worker' = [worker EXCEPT ![k] = WIdle]
    /\ UNCHANGED <<fresh, data, plain, zst, appender, reader, done, files, runs, crashes>>

Compressing == {"claimed", "cold", "encode", "link", "recheck", "unlink"}
Running == {k \in Workers : worker[k].pc \in Compressing}

\* Six hours pass; a run gives up after five.
Age ==
    /\ marker = "fresh" /\ Running = {}
    /\ marker' = "stale"
    /\ UNCHANGED <<fresh, data, plain, zst, worker, appender, reader, done, files, runs, crashes>>

\* A week passes; nobody is in the middle of anything for that long.
WeekPasses ==
    /\ fresh # {}
    /\ \A k \in Workers : worker[k].pc = "idle"
    /\ \A a \in Appenders : appender[a].pc = "idle"
    /\ \A r \in Readers : reader[r].pc \in {"idle", "reading"}
    /\ fresh' = {}
    /\ UNCHANGED <<data, plain, zst, marker, worker, appender, reader, done, files, runs, crashes>>

(***************************************************************************)
(* compress_rollout_if_cold_blocking.  The state of the file (length, time *)
(* and permissions) tells a file from another one and from a longer one.   *)
(***************************************************************************)
StateOf(f) == IF f = 0 THEN NoState ELSE [file |-> f, holds |-> data[f]]

\* The rollout was last written more than a week ago, or it is left alone.
ReadCold(k) ==
    /\ worker[k].pc = "claimed"
    /\ worker' = [worker EXCEPT ![k] = IF plain # 0 /\ plain \notin fresh
                                       THEN [pc |-> "cold", before |-> StateOf(plain)] ELSE WIdle]
    /\ UNCHANGED <<data, plain, zst, fresh, marker, appender, reader, done, files, runs, crashes>>

SkipCompressed(k) ==
    /\ worker[k].pc = "cold"
    /\ worker' = [worker EXCEPT ![k] = IF zst.there THEN WIdle ELSE [@ EXCEPT !.pc = "encode"]]
    /\ UNCHANGED <<data, plain, zst, fresh, marker, appender, reader, done, files, runs, crashes>>

\* Encoding reads the file by its name; what it holds is compared right after.
Encode(k) ==
    /\ worker[k].pc = "encode"
    /\ worker' = [worker EXCEPT ![k] = IF StateOf(plain) = @.before THEN [@ EXCEPT !.pc = "link"]
                                       ELSE WIdle]
    /\ UNCHANGED <<data, plain, zst, fresh, marker, appender, reader, done, files, runs, crashes>>

\* persist_noclobber
LinkCompressed(k) ==
    /\ worker[k].pc = "link"
    /\ zst' = IF zst.there THEN zst ELSE [there |-> TRUE, holds |-> worker[k].before.holds]
    /\ worker' = [worker EXCEPT ![k] = IF zst.there THEN WIdle ELSE [@ EXCEPT !.pc = "recheck"]]
    /\ UNCHANGED <<data, plain, fresh, marker, appender, reader, done, files, runs, crashes>>

\* A rollout that changed keeps its plain file.
Recheck(k) ==
    /\ worker[k].pc = "recheck"
    /\ LET same == StateOf(plain) = worker[k].before
       IN /\ zst' = IF same THEN zst ELSE NoZst
          /\ worker' = [worker EXCEPT ![k] = IF same THEN [@ EXCEPT !.pc = "unlink"] ELSE WIdle]
    /\ UNCHANGED <<data, plain, fresh, marker, appender, reader, done, files, runs, crashes>>

UnlinkPlain(k) ==
    /\ worker[k].pc = "unlink"
    /\ plain' = 0
    /\ worker' = [worker EXCEPT ![k] = WIdle]
    /\ UNCHANGED <<data, zst, fresh, marker, appender, reader, done, files, runs, crashes>>

WorkerDies(k) ==
    /\ worker[k].pc # "idle" /\ crashes < MaxCrashes
    /\ crashes' = crashes + 1
    /\ worker' = [worker EXCEPT ![k] = WIdle]
    /\ UNCHANGED <<data, plain, zst, fresh, marker, appender, reader, done, files, runs>>

(***************************************************************************)
(* materialize_rollout_for_append, the open and the write that follow it.  *)
(***************************************************************************)
StartAppend(a) ==
    /\ appender[a].pc = "idle" /\ a \notin done
    /\ appender' = [appender EXCEPT ![a].pc = IF plain # 0 THEN "open" ELSE "look"]
    /\ UNCHANGED <<data, plain, zst, fresh, marker, worker, reader, done, files, runs, crashes>>

\* Mutant: the compressed file is removed before the plain one is linked.
DecompressMutant(a) ==
    /\ appender[a].pc = "look"
    /\ zst' = NoZst
    /\ appender' = [appender EXCEPT ![a] =
                      IF zst.there THEN [@ EXCEPT !.pc = "link", !.holds = zst.holds]
                      ELSE [@ EXCEPT !.pc = "open"]]
    /\ UNCHANGED <<data, plain, fresh, marker, worker, reader, done, files, runs, crashes>>

\* Without a compressed file either, the open decides.
Decompress(a) ==
    /\ appender[a].pc = "look"
    /\ appender' = [appender EXCEPT ![a] =
                      IF zst.there THEN [@ EXCEPT !.pc = "link", !.holds = zst.holds]
                      ELSE [@ EXCEPT !.pc = "open"]]
    /\ UNCHANGED <<data, plain, zst, fresh, marker, worker, reader, done, files, runs, crashes>>

\* hard_link leaves a plain file that has appeared meanwhile alone.
LinkPlain(a) ==
    /\ appender[a].pc = "link"
    /\ IF plain # 0 THEN UNCHANGED <<data, plain, files, fresh>>
       ELSE /\ files < MaxFiles
            /\ data' = [data EXCEPT ![files + 1] = appender[a].holds]
            /\ plain' = files + 1 /\ files' = files + 1
            /\ fresh' = fresh \cup {files + 1}
    /\ appender' = [appender EXCEPT ![a].pc = "clean", ![a].holds = {}]
    /\ UNCHANGED <<zst, marker, worker, reader, done, runs, crashes>>

RemoveCompressed(a) ==
    /\ appender[a].pc = "clean"
    /\ zst' = NoZst
    /\ appender' = [appender EXCEPT ![a].pc = "open"]
    /\ UNCHANGED <<data, plain, fresh, marker, worker, reader, done, files, runs, crashes>>

\* Opening for append; only the recorder's own open creates a file that is missing.
OpenPlain(a) ==
    /\ appender[a].pc = "open"
    /\ IF plain # 0
       THEN /\ appender' = [appender EXCEPT ![a].pc = "write", ![a].file = plain]
            /\ UNCHANGED <<data, plain, files, fresh>>
       ELSE IF a \in Creators
       THEN /\ files < MaxFiles
            /\ data' = [data EXCEPT ![files + 1] = {}]
            /\ plain' = files + 1 /\ files' = files + 1
            /\ fresh' = fresh \cup {files + 1}
            /\ appender' = [appender EXCEPT ![a].pc = "write", ![a].file = files + 1]
       ELSE /\ appender' = [appender EXCEPT ![a] = AIdle]
            /\ UNCHANGED <<data, plain, files, fresh>>
    /\ UNCHANGED <<zst, marker, worker, reader, done, runs, crashes>>

\* The line goes to the file that was opened, whatever its name refers to by now.
WriteLine(a) ==
    /\ appender[a].pc = "write"
    /\ data' = [data EXCEPT ![appender[a].file] = @ \cup {a}]
    /\ fresh' = fresh \cup {appender[a].file}
    /\ done' = done \cup {a}
    /\ appender' = [appender EXCEPT ![a] = AIdle]
    /\ UNCHANGED <<plain, zst, marker, worker, reader, files, runs, crashes>>

(***************************************************************************)
(* open_rollout_line_reader.                                               *)
(***************************************************************************)
StartRead(r) ==
    /\ reader[r].pc = "idle"
    /\ reader' = [reader EXCEPT ![r].pc = "look"]
    /\ UNCHANGED <<data, plain, zst, fresh, marker, worker, appender, done, files, runs, crashes>>

\* existing_rollout_path: the plain file first, then the compressed one; with
\* neither, the path that was asked for, which is the plain one.
LookPlain(r) ==
    /\ reader[r].pc = "look"
    /\ reader' = [reader EXCEPT ![r].pc = IF plain # 0 THEN "plain" ELSE "looked"]
    /\ UNCHANGED <<data, plain, zst, fresh, marker, worker, appender, done, files, runs, crashes>>

LookCompressed(r) ==
    /\ reader[r].pc = "looked"
    /\ reader' = [reader EXCEPT ![r].pc = IF zst.there THEN "zst" ELSE "plain"]
    /\ UNCHANGED <<data, plain, zst, fresh, marker, worker, appender, done, files, runs, crashes>>

\* Mutant: the first failure is the answer.
NotFoundMutant(r) == [r EXCEPT !.pc = "failed"]

\* A file that is gone by now is looked for again; a file that was opened stays
\* readable whatever happens to its name.
NotFound(r) ==
    IF r.tries < MaxRetries THEN [r EXCEPT !.pc = "look", !.tries = @ + 1]
    ELSE [r EXCEPT !.pc = "failed"]

OpenForRead(r) ==
    /\ reader[r].pc \in {"plain", "zst"}
    /\ LET there == IF reader[r].pc = "plain" THEN plain # 0 ELSE zst.there
           holds == IF reader[r].pc = "plain" THEN StateOf(plain).holds ELSE zst.holds
       IN reader' = [reader EXCEPT ![r] =
                       IF there THEN [pc |-> "reading", tries |-> 0, holds |-> holds]
                       ELSE NotFound(@)]
    /\ UNCHANGED <<data, plain, zst, fresh, marker, worker, appender, done, files, runs, crashes>>

EndRead(r) ==
    /\ reader[r].pc \in {"reading", "failed"}
    /\ reader' = [reader EXCEPT ![r] = RIdle]
    /\ UNCHANGED <<data, plain, zst, fresh, marker, worker, appender, done, files, runs, crashes>>

FilesInit ==
    /\ data = [f \in 1..MaxFiles |-> IF f = 1 THEN {Base} ELSE {}]
    /\ plain = 1 /\ zst = NoZst /\ fresh = {} /\ marker \in {"none", "stale"}
    /\ worker = [k \in Workers |-> WIdle]
    /\ appender = [a \in Appenders |-> AIdle]
    /\ reader = [r \in Readers |-> RIdle]
    /\ done = {} /\ files = 1 /\ runs = 0 /\ crashes = 0

WorkerStep(k) ==
    \/ StartRun(k) \/ CreateMarker(k) \/ CheckAge(k) \/ RemoveMarker(k) \/ FailRun(k)
    \/ ReadCold(k) \/ SkipCompressed(k) \/ Encode(k) \/ LinkCompressed(k)
    \/ Recheck(k) \/ UnlinkPlain(k) \/ WorkerDies(k)

AppenderStep(a) ==
    \/ StartAppend(a) \/ Decompress(a) \/ LinkPlain(a) \/ RemoveCompressed(a)
    \/ OpenPlain(a) \/ WriteLine(a)

ReaderStep(r) == StartRead(r) \/ LookPlain(r) \/ LookCompressed(r) \/ OpenForRead(r) \/ EndRead(r)

FilesNext ==
    \/ \E k \in Workers : WorkerStep(k)
    \/ \E a \in Appenders : AppenderStep(a)
    \/ \E r \in Readers : ReaderStep(r)
    \/ Age \/ WeekPasses

FilesSpec == FilesInit /\ [][FilesNext]_filesVars

(***************************************************************************)
(* Properties.                                                             *)
(***************************************************************************)
\* FilesTypes of the variables.
FilesTypeOK ==
    /\ data \in [1..MaxFiles -> SUBSET ({Base} \cup Appenders)]
    /\ plain \in 0..files /\ files \in 1..MaxFiles /\ fresh \subseteq 1..files
    /\ zst \in [there : BOOLEAN, holds : SUBSET ({Base} \cup Appenders)]
    /\ marker \in {"none", "fresh", "stale"}
    /\ \A a \in Appenders : appender[a].file \in IF appender[a].pc = "write" THEN 1..files ELSE {0}
    /\ \A r \in Readers : reader[r].tries \in 0..MaxRetries
    /\ done \subseteq Appenders

\* Whatever the workers and appenders do at the same time, and wherever a worker
\* dies, one of the two files holds the history that was archived.
HistorySurvives == (plain # 0 /\ Base \in data[plain]) \/ (zst.there /\ Base \in zst.holds)

\* open_rollout_line_reader: a reader "briefly retries resolution so callers do not
\* need to know which representation is on disk": it never comes back empty-handed.
ReaderFindsRollout == \A r \in Readers : reader[r].pc # "failed"

\* "transparently handles plain and compressed files": what a reader opens holds
\* the archived history.
ReaderSeesHistory == \A r \in Readers : reader[r].pc = "reading" => Base \in reader[r].holds

\* The archived history is in the file system at every moment, though its two
\* representations come and go.
RolloutInv ==
    /\ FilesTypeOK
    /\ HistorySurvives

\* A reader finds a representation and sees the history in it, whatever changes while
\* it resolves and opens the path.
ReadersServed ==
    /\ ReaderFindsRollout
    /\ ReaderSeesHistory
================================================================================
