------------------------------- MODULE Repair -------------------------------
(***************************************************************************)
(* RepairDB (db/repair.cc): the directory of a database that cannot be     *)
(* opened is rebuilt from its log and table files.  The process may be     *)
(* killed between any two changes of the directory and repair be run       *)
(* again; a file operation may fail, and reading a file may stop half-way. *)
(* A file name is <<kind, number>>.  A log or table holds the sequence     *)
(* numbers of the entries that can be read from it, and whether reading it *)
(* ends in an error; a manifest holds the one edit repair writes.          *)
(***************************************************************************)
EXTENDS Integers, Sequences, FiniteSets, FiniteSetsExt, SequencesExt

CONSTANTS
    RepairDirs,      \* directories found by the first repair
    MaxRepairs,      \* bound: calls of RepairDB after the first
    MaxRepairFaults  \* bound: file operations and reads that fail

FileKinds == {"log", "ldb", "sst", "tmp", "current", "manifest"}
DataKinds == {"log", "ldb", "sst"}

\* What ParseFileName knows of a directory; a file number was given out once.
ASSUME RepairConstants ==
    /\ MaxRepairs \in Nat /\ MaxRepairFaults \in Nat
    /\ \A d \in RepairDirs :
          /\ IsFiniteSet(DOMAIN d) /\ DOMAIN d \subseteq FileKinds \X Nat
          /\ \A f \in DOMAIN d : f[1] \in DataKinds =>
                d[f] \in [good: SUBSET Nat, bad: BOOLEAN] /\ IsFiniteSet(d[f].good)
          /\ \A f, g \in DOMAIN d : f[1] = "ldb" /\ g[1] = "sst" => f[2] # g[2]

VARIABLES
    rdir,    \* the directory: file name -> content
    rlost,   \* its subdirectory lost/
    rp,      \* the Repairer, reset by every call
    rcount   \* entries readable at first; calls, failures, failed reads so far

repair_vars == <<rdir, rlost, rp, rcount>>

Content(good, bad) == [good |-> good, bad |-> bad]
\* A table without its footer cannot be opened.
Unfinished == Content({}, TRUE)

Without1(d, name) == [n \in DOMAIN d \ {name} |-> d[n]]
With1(d, name, c) == [n \in DOMAIN d \cup {name} |-> IF n = name THEN c ELSE d[n]]
EntriesIn(d, kinds) == UNION {d[n].good : n \in {m \in DOMAIN d : m[1] \in kinds}}

Repairer == [pc |-> "start", next |-> 1, logs |-> <<>>, table_numbers |-> <<>>, manifests |-> {},
             tables |-> {}, copy |-> 0, src |-> <<>>, max |-> 0, good |-> {}]

RepairInit ==
    /\ rdir \in RepairDirs /\ rlost = <<>> /\ rp = Repairer
    /\ rcount = [entries |-> EntriesIn(rdir, DataKinds), calls |-> 0, faults |-> 0, misreads |-> 0]

MayFault == rcount.faults + rcount.misreads < MaxRepairFaults
Fault == MayFault /\ rcount' = [rcount EXCEPT !.faults = @ + 1]
NoFault == UNCHANGED rcount

\* A file is read to its end, or a read fails and only part of it is seen.
ReadsOf(good, seen) ==
    \/ NoFault /\ seen = good
    \/ MayFault /\ rcount' = [rcount EXCEPT !.misreads = @ + 1]

\* Mutant: the file is removed instead.
ArchiveFileRemoves(name) ==
    /\ NoFault /\ UNCHANGED rlost
    /\ rdir' = Without1(rdir, name)

\* ArchiveFile: a rename into lost/, over a file of that name; an error is ignored.
ArchiveFile(name) ==
    IF name \in DOMAIN rdir
    THEN \/ NoFault /\ rdir' = Without1(rdir, name) /\ rlost' = With1(rlost, name, rdir[name])
         \/ Fault /\ UNCHANGED <<rdir, rlost>>
    ELSE NoFault /\ UNCHANGED <<rdir, rlost>>

\* Run returns an error.
GiveUp == [rp EXCEPT !.pc = "failed"]

-----------------------------------------------------------------------------
\* FindFiles: every file but a manifest counts for the next number, in the order
\* the directory is listed; or it cannot be listed.
FindFiles ==
    LET NamesOf(kinds) == {n \in DOMAIN rdir : n[1] \in kinds}
        numbers(kinds) == {n[2] : n \in NamesOf(kinds)}
        counted == numbers({"log", "ldb", "sst", "tmp", "current"})
    IN  /\ rp.pc = "start"
        /\ \/ /\ NoFault
              /\ \E ls \in SetToSeqs(numbers({"log"})), ts \in SetToSeqs(NamesOf({"ldb", "sst"})) :
                    rp' = [rp EXCEPT !.pc = "logs", !.next = Max(counted \cup {0}) + 1, !.logs = ls,
                                     !.table_numbers = [i \in DOMAIN ts |-> ts[i][2]],
                                     !.manifests = numbers({"manifest"})]
           \/ Fault /\ rp' = GiveUp
        /\ UNCHANGED <<rdir, rlost>>

-----------------------------------------------------------------------------
(* ConvertLogFilesToTables *)

LogName == <<"log", Head(rp.logs)>>

LogsDone == rp.pc = "logs" /\ rp.logs = <<>> /\ rp' = [rp EXCEPT !.pc = "scan"] /\ NoFault
            /\ UNCHANGED <<rdir, rlost>>

\* ConvertLogToTable: the log cannot be opened.
OpenLogFails ==
    /\ rp.pc = "logs" /\ rp.logs # <<>> /\ Fault
    /\ rp' = [rp EXCEPT !.pc = "archive_log"]
    /\ UNCHANGED <<rdir, rlost>>

\* Records that cannot be read are skipped; BuildTable starts a file if any is left.
ConvertLogToTable ==
    /\ rp.pc = "logs" /\ rp.logs # <<>> /\ UNCHANGED rlost
    /\ \E seen \in SUBSET rdir[LogName].good :
          /\ ReadsOf(rdir[LogName].good, seen)
          /\ rp' = [rp EXCEPT !.next = @ + 1, !.copy = rp.next, !.good = seen,
                              !.pc = IF seen = {} THEN "archive_log" ELSE "build"]
          /\ rdir' = IF seen = {} THEN rdir ELSE With1(rdir, <<"ldb", rp.next>>, Unfinished)

\* BuildTable syncs and closes the table, or removes it.
FinishBuild ==
    /\ rp.pc = "build" /\ UNCHANGED rlost
    /\ \/ /\ NoFault
          /\ rdir' = [rdir EXCEPT ![<<"ldb", rp.copy>>] = Content(rp.good, FALSE)]
          /\ rp' = [rp EXCEPT !.pc = "archive_log", !.table_numbers = Append(@, rp.copy)]
       \/ /\ Fault
          /\ rdir' = Without1(rdir, <<"ldb", rp.copy>>)
          /\ rp' = [rp EXCEPT !.pc = "archive_log"]

\* The log goes to lost/ whether it was converted or not.
ArchiveLog ==
    /\ rp.pc = "archive_log"
    /\ ArchiveFile(LogName)
    /\ rp' = [rp EXCEPT !.pc = "logs", !.logs = Tail(@)]

-----------------------------------------------------------------------------
(* ExtractMetaData *)

Number == Head(rp.table_numbers)
\* ScanTable tries the .ldb name before the .sst name.
TableName == IF <<"ldb", Number>> \in DOMAIN rdir THEN <<"ldb", Number>> ELSE <<"sst", Number>>
NextTable(r) == [r EXCEPT !.pc = "scan", !.table_numbers = Tail(@)]
AddTable(r, max) == [r EXCEPT !.tables = @ \cup {[number |-> Number, max |-> max]}]

ScanDone == rp.pc = "scan" /\ rp.table_numbers = <<>> /\ rp' = [rp EXCEPT !.pc = "descriptor"]
            /\ NoFault /\ UNCHANGED <<rdir, rlost>>

\* ScanTable: the size cannot be had under either name, and both are archived.
DropTable ==
    LET there == DOMAIN rdir \cap {<<"ldb", Number>>, <<"sst", Number>>}
    IN  /\ rp.pc = "scan" /\ rp.table_numbers # <<>>
        /\ IF there = {} THEN NoFault ELSE Fault
        /\ rdir' = [n \in DOMAIN rdir \ there |-> rdir[n]]
        /\ rlost' = [n \in DOMAIN rlost \cup there |-> IF n \in there THEN rdir[n] ELSE rlost[n]]
        /\ rp' = NextTable(rp)

\* ScanTable: the table is read to the end and listed, or, if an entry or a
\* read is bad, has to be repaired; max_sequence is that of the entries seen.
ScanTable ==
    LET c == rdir[TableName]
    IN  /\ rp.pc = "scan" /\ rp.table_numbers # <<>> /\ TableName \in DOMAIN rdir
        /\ \E seen \in SUBSET c.good :
              LET max == Max(seen \cup {0})
              IN  /\ ReadsOf(c.good, seen)
                  /\ rp' = IF c.bad \/ rcount' # rcount
                           THEN [rp EXCEPT !.pc = "repair", !.src = TableName, !.max = max]
                           ELSE NextTable(AddTable(rp, max))
        /\ UNCHANGED <<rdir, rlost>>

\* RepairTable: the file for the copy is made and the table read again, its
\* errors ignored; or the table is given up.
RepairTable ==
    /\ rp.pc = "repair" /\ UNCHANGED rlost
    /\ \/ \E seen \in SUBSET rdir[rp.src].good :
             /\ ReadsOf(rdir[rp.src].good, seen)
             /\ rdir' = With1(rdir, <<"ldb", rp.next>>, Unfinished)
             /\ rp' = [rp EXCEPT !.pc = "archive_table", !.next = @ + 1, !.copy = rp.next, !.good = seen]
       \/ /\ Fault
          /\ rp' = NextTable([rp EXCEPT !.next = @ + 1]) /\ UNCHANGED rdir

ArchiveTable ==
    /\ rp.pc = "archive_table"
    /\ ArchiveFile(rp.src)
    /\ rp' = [rp EXCEPT !.pc = "finish"]

\* Finish and Close, or RemoveFile; an abandoned copy is left as it is.
FinishCopy ==
    /\ rp.pc = "finish" /\ UNCHANGED rlost
    /\ \/ NoFault /\ rp.good = {} /\ rp' = NextTable(rp) /\ UNCHANGED rdir
       \/ /\ NoFault /\ rp.good # {}
          /\ rdir' = [rdir EXCEPT ![<<"ldb", rp.copy>>] = Content(rp.good, FALSE)]
          /\ rp' = [rp EXCEPT !.pc = "rename"]
       \/ /\ Fault /\ rdir' = Without1(rdir, <<"ldb", rp.copy>>) /\ rp' = NextTable(rp)

\* The copy takes the place of the table, with what the scan found of it.
RenameCopy ==
    LET copy == <<"ldb", rp.copy>>
    IN  /\ rp.pc = "rename" /\ UNCHANGED rlost
        /\ \/ /\ NoFault
              /\ rdir' = With1(Without1(rdir, copy), <<"ldb", Number>>, rdir[copy])
              /\ rp' = NextTable(AddTable(rp, rp.max))
           \/ Fault /\ rdir' = Without1(rdir, copy) /\ rp' = NextTable(rp)

-----------------------------------------------------------------------------
(* WriteDescriptor *)

Tmp == <<"tmp", 1>>

\* The new manifest is written to a temporary file: every table at level 0.  The
\* file cannot be made, or is removed again.
WriteDescriptor ==
    LET edit == [tables |-> rp.tables, next |-> rp.next, last |-> Max({t.max : t \in rp.tables} \cup {0})]
    IN  /\ rp.pc = "descriptor" /\ UNCHANGED rlost
        /\ \/ NoFault /\ rdir' = With1(rdir, Tmp, edit) /\ rp' = [rp EXCEPT !.pc = "manifests"]
           \/ Fault /\ UNCHANGED rdir /\ rp' = GiveUp
           \/ Fault /\ rdir' = Without1(rdir, Tmp) /\ rp' = GiveUp

ArchiveManifest ==
    \E n \in rp.manifests :
        /\ rp.pc = "manifests"
        /\ ArchiveFile(<<"manifest", n>>)
        /\ rp' = [rp EXCEPT !.manifests = @ \ {n}]

InstallManifest ==
    /\ rp.pc = "manifests" /\ rp.manifests = {} /\ UNCHANGED rlost
    /\ \/ /\ NoFault
          /\ rdir' = With1(Without1(rdir, Tmp), <<"manifest", 1>>, rdir[Tmp])
          /\ rp' = [rp EXCEPT !.pc = "current"]
       \/ Fault /\ rdir' = Without1(rdir, Tmp) /\ rp' = GiveUp

SetCurrentFile ==
    /\ rp.pc = "current" /\ UNCHANGED rlost
    /\ \/ NoFault /\ rdir' = With1(rdir, <<"current", 0>>, 1) /\ rp' = [rp EXCEPT !.pc = "done"]
       \/ Fault /\ rp' = GiveUp /\ UNCHANGED rdir

-----------------------------------------------------------------------------
\* The process is killed, or repair returned; it is called again.
CallAgain ==
    /\ rp.pc # "start" /\ rcount.calls < MaxRepairs
    /\ rp' = Repairer /\ rcount' = [rcount EXCEPT !.calls = @ + 1]
    /\ UNCHANGED <<rdir, rlost>>

RepairNext ==
    \/ FindFiles \/ LogsDone \/ OpenLogFails \/ ConvertLogToTable \/ FinishBuild \/ ArchiveLog
    \/ ScanDone \/ DropTable \/ ScanTable \/ RepairTable \/ ArchiveTable \/ FinishCopy \/ RenameCopy
    \/ WriteDescriptor \/ ArchiveManifest \/ InstallManifest \/ SetCurrentFile
    \/ CallAgain

RepairSpec == RepairInit /\ [][RepairNext]_repair_vars

-----------------------------------------------------------------------------
\* The manifest that CURRENT names after a repair, and its tables.
Installed == rdir[<<"manifest", rdir[<<"current", 0>>]>>]
TableFile(n) == IF <<"ldb", n>> \in DOMAIN rdir THEN {<<"ldb", n>>} ELSE {<<"sst", n>>} \cap DOMAIN rdir
ListedNumbers == {t.number : t \in Installed.tables}
ListedEntries == UNION {rdir[f].good : f \in UNION {TableFile(n) : n \in ListedNumbers}}

\* Wherever repair is killed and run again with nothing failing, and in one call
\* that is not killed whether operations or reads fail, repair never destroys
\* what could be read: every entry readable at first is in a log or table of the
\* directory or of lost/.  A repair that completes leaves CURRENT naming a
\* manifest whose tables exist, can be read, and have numbers below its counter,
\* and, if no read failed, entries below its last sequence number, so that the
\* next open reuses neither; one call alone, without failures, lists every entry.
RepairKeeps ==
    /\ rcount.calls = 0 \/ rcount.faults + rcount.misreads = 0
    /\ rcount.faults = 0 \/ rcount.misreads = 0
    =>
    /\ rcount.entries \subseteq EntriesIn(rdir, DataKinds) \cup EntriesIn(rlost, DataKinds)
    /\ rp.pc = "done" =>
          /\ \A n \in ListedNumbers : TableFile(n) # {} /\ \A f \in TableFile(n) : ~rdir[f].bad
          /\ \A f \in DOMAIN rdir : f[1] # "manifest" => f[2] < Installed.next
          /\ rcount.misreads = 0 => \A e \in ListedEntries : e <= Installed.last
          /\ rcount.calls + rcount.faults + rcount.misreads = 0 => rcount.entries \subseteq ListedEntries

\* repair.cc: "last-sequence-number is set to largest sequence# found across all
\* tables", so no entry of a listed table is above it.  It is violated: when a
\* read fails during the scan and not during the copy, the whole copy is listed
\* with the largest number of the part that was scanned.
LastSequenceCovers ==
    rp.pc = "done" => \A e \in ListedEntries : e <= Installed.last
=============================================================================
