------------------------------ MODULE EnvPosix ------------------------------
(***************************************************************************)
(* The operating-system layer of the on-device leveldb (util/env_posix.cc):*)
(* the limits on memory maps and file descriptors, the lock on a database  *)
(* directory, the buffered file, and the background thread.                *)
(* System calls are external: they succeed or fail as POSIX allows.        *)
(***************************************************************************)
EXTENDS Integers, Sequences, FiniteSets, FiniteSetsExt, SequencesExt

CONSTANTS
    Openers,       \* threads that open table files
    MaxMmaps,      \* g_mmap_limit
    MaxOpenFiles,  \* g_open_read_only_file_limit
    MaxOpenTables, \* bound: files open per thread
    Processes,     \* processes that open the database
    LockThreads,   \* threads of each process that do
    BufferSize,    \* kWritableFileBufferSize, 65536 in the code
    AppendSizes,   \* sizes of the data appended
    MaxAppends,    \* bound: appends to a file
    MaxWork        \* bound: items of background work

ASSUME EnvConstants ==
    /\ IsFiniteSet(Openers)
    /\ MaxMmaps \in Nat /\ MaxOpenFiles \in Nat /\ MaxOpenTables \in Nat
    /\ BufferSize \in Nat /\ AppendSizes \subseteq Nat

VARIABLES
    lim,   \* limiters, descriptors and files being read
    lk,    \* lock tables of the processes and the kernel's lock
    wf,    \* a PosixWritableFile and its file
    sch    \* the background work queue and thread

-----------------------------------------------------------------------------
(* Limiter and NewRandomAccessFile.  pc of a thread is what it does next. *)

LimInit == lim = [mmaps |-> MaxMmaps, fds |-> MaxOpenFiles, open |-> 0,
                  pc |-> [t \in Openers |-> "idle"],
                  files |-> [t \in Openers |-> <<>>]]

NumberOpen(t) == Len(lim.files[t])

\* open() succeeds; a failure returns at once and changes nothing.
OpenFile(t) ==
    /\ lim.pc[t] = "idle" /\ NumberOpen(t) < MaxOpenTables
    /\ lim' = [lim EXCEPT !.open = @ + 1, !.pc[t] = "mmap"]

\* Limiter::Acquire, first half: fetch_sub, whose old value decides.
AcquireMmap(t) ==
    /\ lim.pc[t] = "mmap"
    /\ lim' = [lim EXCEPT !.mmaps = @ - 1, !.pc[t] = IF lim.mmaps > 0 THEN "map" ELSE "mmap_back"]
AcquireFd(t) ==
    /\ lim.pc[t] = "fd"
    /\ lim' = [lim EXCEPT !.fds = @ - 1, !.pc[t] = IF lim.fds > 0 THEN "keep" ELSE "fd_back"]

\* Limiter::Acquire, second half: what was taken in vain is given back.
MmapBack(t) ==
    /\ lim.pc[t] = "mmap_back" /\ lim' = [lim EXCEPT !.mmaps = @ + 1, !.pc[t] = "fd"]
\* Mutant: a failed Acquire keeps what it took.
FdBackForgotten(t) ==
    /\ lim.pc[t] = "fd_back" /\ lim' = [lim EXCEPT !.pc[t] = "temporary"]

FdBack(t) ==
    /\ lim.pc[t] = "fd_back" /\ lim' = [lim EXCEPT !.fds = @ + 1, !.pc[t] = "temporary"]

\* stat and mmap succeed or fail; the descriptor is closed in both cases.
MapFile(t) ==
    /\ lim.pc[t] = "map"
    /\ lim' = [lim EXCEPT !.files[t] = Append(@, "mmap"), !.open = @ - 1, !.pc[t] = "idle"]
MapFails(t) ==
    /\ lim.pc[t] = "map"
    /\ lim' = [lim EXCEPT !.open = @ - 1, !.mmaps = @ + 1, !.pc[t] = "idle"]

\* PosixRandomAccessFile: the descriptor is kept, or closed and opened for every read.
KeepFd(t) ==
    /\ lim.pc[t] = "keep" /\ lim' = [lim EXCEPT !.files[t] = Append(@, "fd"), !.pc[t] = "idle"]
OpenPerRead(t) ==
    /\ lim.pc[t] = "temporary"
    /\ lim' = [lim EXCEPT !.files[t] = Append(@, "temp"), !.open = @ - 1, !.pc[t] = "idle"]

\* PosixRandomAccessFile::Read without a descriptor of its own.
ReadTemporary(t) ==
    \/ /\ lim.pc[t] = "idle" /\ "temp" \in ToSet(lim.files[t])
       /\ lim' = [lim EXCEPT !.open = @ + 1, !.pc[t] = "reading"]
    \/ /\ lim.pc[t] = "reading"
       /\ lim' = [lim EXCEPT !.open = @ - 1, !.pc[t] = "idle"]

\* The destructors.
CloseFile(t, i) ==
    /\ lim.pc[t] = "idle"
    /\ LET kind == lim.files[t][i]
       IN  lim' = [lim EXCEPT !.files[t] = RemoveAt(@, i),
                              !.mmaps = @ + (IF kind = "mmap" THEN 1 ELSE 0),
                              !.fds   = @ + (IF kind = "fd" THEN 1 ELSE 0),
                              !.open  = @ - (IF kind = "fd" THEN 1 ELSE 0)]

LimNext ==
    \E t \in Openers :
        \/ OpenFile(t) \/ AcquireMmap(t) \/ AcquireFd(t) \/ MmapBack(t) \/ FdBack(t)
        \/ MapFile(t) \/ MapFails(t) \/ KeepFd(t) \/ OpenPerRead(t) \/ ReadTemporary(t)
        \/ \E i \in 1..NumberOpen(t) : CloseFile(t, i)

LimSpec == LimInit /\ [][LimNext]_lim

-----------------------------------------------------------------------------
(* LockFile and UnlockFile.  The kernel's record lock belongs to a process *)
(* and is dropped when the process closes any descriptor of the file.      *)

LockInit == lk = [table |-> [p \in Processes |-> FALSE], owner |-> {}, dropped |-> FALSE,
                  pc |-> [p \in Processes |-> [t \in LockThreads |-> "idle"]]]

LockOpen(p, t) ==
    /\ lk.pc[p][t] = "idle" /\ lk' = [lk EXCEPT !.pc[p][t] = "insert"]

\* Mutant: the file is inserted although the process holds it.
InsertLockAgain(p, t) ==
    /\ lk.pc[p][t] = "insert"
    /\ lk' = [lk EXCEPT !.table[p] = TRUE, !.pc[p][t] = "fcntl"]

\* PosixLockTable::Insert
InsertLock(p, t) ==
    /\ lk.pc[p][t] = "insert"
    /\ lk' = IF lk.table[p] THEN [lk EXCEPT !.pc[p][t] = "close"]
             ELSE [lk EXCEPT !.table[p] = TRUE, !.pc[p][t] = "fcntl"]

\* close(): the kernel drops the lock of the process, whichever descriptor had
\* set it; dropped notes that a thread held it (specification only).
CloseLocked(p) ==
    [lk EXCEPT !.owner = @ \ {p},
               !.dropped = @ \/ \E t \in LockThreads : lk.pc[p][t] = "held"]

\* Already held by the process, or unlocked: the descriptor is closed.
CloseUnused(p, t) ==
    lk.pc[p][t] = "close" /\ lk' = [CloseLocked(p) EXCEPT !.pc[p][t] = "idle"]

\* LockOrUnlock(fd, true)
SetLock(p, t) ==
    /\ lk.pc[p][t] = "fcntl"
    /\ lk' = IF lk.owner \subseteq {p} THEN [lk EXCEPT !.owner = {p}, !.pc[p][t] = "held"]
             ELSE [lk EXCEPT !.pc[p][t] = "remove"]
\* The lock is another process's: close, then PosixLockTable::Remove.
RemoveLock(p, t) ==
    /\ lk.pc[p][t] = "remove"
    /\ lk' = [CloseLocked(p) EXCEPT !.table[p] = FALSE, !.pc[p][t] = "idle"]

\* UnlockFile: unlock, then PosixLockTable::Remove, then close.
Unlock(p, t) ==
    /\ lk.pc[p][t] = "held" /\ lk' = [lk EXCEPT !.owner = @ \ {p}, !.pc[p][t] = "unlocked"]
UnlockRemove(p, t) ==
    /\ lk.pc[p][t] = "unlocked" /\ lk' = [lk EXCEPT !.table[p] = FALSE, !.pc[p][t] = "close"]

LockNext ==
    \E p \in Processes, t \in LockThreads :
        \/ LockOpen(p, t) \/ InsertLock(p, t) \/ CloseUnused(p, t) \/ SetLock(p, t)
        \/ RemoveLock(p, t) \/ Unlock(p, t) \/ UnlockRemove(p, t)

LockSpec == LockInit /\ [][LockNext]_lk

-----------------------------------------------------------------------------
(* PosixWritableFile.  Bytes are numbered as they are appended; sync is    *)
(* how much of the file is on the device, and acked the last byte appended *)
(* when a Sync last returned ok (specification only).                      *)

FileInit == \E m \in BOOLEAN :
    wf = [buf |-> <<>>, file |-> <<>>, next |-> 1, sync |-> 0, acked |-> 0, appends |-> 0,
          failed |-> FALSE, manifest |-> m, dirsync |-> FALSE, open |-> TRUE]

\* WriteUnbuffered: all of the data is written, or it fails after n bytes of it.
WriteOutcomes(data) == {[n |-> Len(data), ok |-> TRUE]}
                       \cup {[n |-> n, ok |-> FALSE] : n \in 0..(Len(data) - 1)}
WriteUnbuffered(f, data, o) ==
    [f EXCEPT !.file = @ \o SubSeq(data, 1, o.n), !.failed = @ \/ ~o.ok]
\* Mutant: a buffer that could not be written is kept.
FlushBufferKeeps(f, o) ==
    [WriteUnbuffered(f, f.buf, o) EXCEPT !.buf = IF o.ok THEN <<>> ELSE @]

\* FlushBuffer: the buffer is empty afterwards, whether it was written or not.
FlushBuffer(f, o) == [WriteUnbuffered(f, f.buf, o) EXCEPT !.buf = <<>>]

AppendData(size) ==
    LET data == [i \in 1..size |-> wf.next + i - 1]
        copy == Min({size, BufferSize - Len(wf.buf)})
        f    == [wf EXCEPT !.buf = @ \o SubSeq(data, 1, copy), !.next = @ + size, !.appends = @ + 1]
        rest == SubSeq(data, copy + 1, size)
    IN  /\ wf.open /\ wf.appends < MaxAppends
        /\ IF rest = <<>> THEN wf' = f
           ELSE \E o \in WriteOutcomes(f.buf) :
                  LET g == FlushBuffer(f, o)
                  IN  IF ~o.ok THEN wf' = g
                      ELSE IF Len(rest) < BufferSize THEN wf' = [g EXCEPT !.buf = rest]
                      ELSE \E q \in WriteOutcomes(rest) : wf' = WriteUnbuffered(g, rest, q)

FlushFile ==
    /\ wf.open /\ wf.buf # <<>>
    /\ \E o \in WriteOutcomes(wf.buf) : wf' = FlushBuffer(wf, o)

\* Mutant: Sync without the flush of the buffer.
SyncFileUnflushed ==
    /\ wf.open
    /\ wf' = [wf EXCEPT !.dirsync = wf.manifest, !.sync = Len(wf.file), !.acked = wf.next - 1]

\* Sync: the directory when the file is a manifest, then the buffer, then the file.
SyncFile ==
    /\ wf.open
    /\ \E o \in WriteOutcomes(wf.buf) :
          LET d == [wf EXCEPT !.dirsync = wf.manifest]
              g == FlushBuffer(d, o)
          IN  wf' = IF o.ok THEN [g EXCEPT !.sync = Len(g.file), !.acked = g.next - 1] ELSE g
SyncFails ==
    /\ wf.open
    /\ \/ wf.manifest /\ wf' = [wf EXCEPT !.failed = TRUE]
       \/ \E o \in WriteOutcomes(wf.buf) :
             o.ok /\ wf' = [FlushBuffer([wf EXCEPT !.dirsync = wf.manifest], o) EXCEPT !.failed = TRUE]

CloseWritable ==
    /\ wf.open
    /\ \E o \in WriteOutcomes(wf.buf) : wf' = [FlushBuffer(wf, o) EXCEPT !.open = FALSE]

FileNext == (\E n \in AppendSizes : AppendData(n)) \/ FlushFile \/ SyncFile \/ SyncFails \/ CloseWritable

FileSpec == FileInit /\ [][FileNext]_wf

-----------------------------------------------------------------------------
(* Schedule and BackgroundThreadMain. *)

SchInit == sch = [queue |-> <<>>, started |-> FALSE, thread |-> "none", n |-> 0, ran |-> <<>>, item |-> 0]

\* Mutant: the thread is not signalled.
ScheduleSilently ==
    /\ sch.n < MaxWork
    /\ sch' = [sch EXCEPT !.n = @ + 1, !.started = TRUE, !.queue = Append(@, sch.n + 1),
                          !.thread = IF ~sch.started THEN "check" ELSE @]

\* Schedule: the thread is started once and signalled when the queue was empty.
Schedule ==
    /\ sch.n < MaxWork
    /\ sch' = [sch EXCEPT
                 !.n = @ + 1, !.started = TRUE, !.queue = Append(@, sch.n + 1),
                 !.thread = IF ~sch.started \/ (sch.queue = <<>> /\ sch.thread = "waiting")
                            THEN "check" ELSE @]

\* One look at the queue with the mutex held: wait, or take the first item.
BackgroundCheck ==
    /\ sch.thread = "check"
    /\ sch' = IF sch.queue = <<>> THEN [sch EXCEPT !.thread = "waiting"]
              ELSE [sch EXCEPT !.thread = "run", !.item = Head(sch.queue), !.queue = Tail(@)]
\* The item runs without the mutex.
BackgroundRun ==
    /\ sch.thread = "run"
    /\ sch' = [sch EXCEPT !.thread = "check", !.ran = Append(@, sch.item), !.item = 0]
\* A wait may end by itself.
SpuriousWake == sch.thread = "waiting" /\ sch' = [sch EXCEPT !.thread = "check"]

SchNext == Schedule \/ BackgroundCheck \/ BackgroundRun \/ SpuriousWake

\* The operating system runs the background thread; it never owes a spurious wake.
SchFair == WF_sch(BackgroundCheck \/ BackgroundRun)

-----------------------------------------------------------------------------
FilesOf(kind) == {f \in Openers \X (1..MaxOpenTables) :
                     f[2] <= NumberOpen(f[1]) /\ lim.files[f[1]][f[2]] = kind}
At(pcs) == {t \in Openers : lim.pc[t] \in pcs}

\* However the threads interleave between the two halves of Acquire, no more maps
\* and no more permanent descriptors exist than allowed, every permit taken is
\* held by a file or given back, and no descriptor is left open.
LimitsKept ==
    /\ Cardinality(FilesOf("mmap")) <= MaxMmaps
    /\ Cardinality(FilesOf("fd")) <= MaxOpenFiles
    /\ lim.mmaps = MaxMmaps - Cardinality(FilesOf("mmap")) - Cardinality(At({"map", "mmap_back"}))
    /\ lim.fds = MaxOpenFiles - Cardinality(FilesOf("fd")) - Cardinality(At({"keep", "fd_back"}))
    /\ lim.open = Cardinality(FilesOf("fd")) + Cardinality(At(
           {"mmap", "mmap_back", "map", "fd", "fd_back", "keep", "temporary", "reading"}))

Holders(p) == {t \in LockThreads : lk.pc[p][t] = "held"}
Owners == {p \in Processes : Holders(p) # {}}

\* The lock on the directory keeps its users apart: never two threads of one
\* process, and never two processes unless one of them has closed another
\* descriptor of the lock file while it held the lock (LockFile, UnlockFile).
OneOwner ==
    /\ \A p \in Processes : Cardinality(Holders(p)) <= 1
    /\ ~lk.dropped => Cardinality(Owners) <= 1 /\ Owners \subseteq lk.owner

\* The lock is "Used to prevent concurrent access to the same db by multiple
\* processes" (include/leveldb/env.h): never two processes hold it.  It is violated:
\* a second LockFile of the process that holds the lock fails on the lock table,
\* but the close of its descriptor drops the lock of the first.
OneProcess == Cardinality(Owners) <= 1

\* Bytes reach the file in the order they were appended and never twice, even
\* after a failed write; as long as no call has failed none is missing; once a
\* Sync has returned ok, every byte appended before it that no failed write has
\* lost is on the device; a manifest on the device has its directory there too.
FileInOrder ==
    LET all == wf.file \o wf.buf
    IN  /\ \A i, j \in DOMAIN all : i < j => all[i] < all[j]
        /\ ~wf.failed => Len(all) = wf.next - 1
        /\ \A i \in DOMAIN all : all[i] <= wf.acked => i <= wf.sync
        /\ Len(wf.buf) <= BufferSize
        /\ wf.manifest /\ wf.sync > 0 => wf.dirsync

\* Again and again everything scheduled so far has run, and in the order of the
\* calls: no signal is lost between the look at the queue and the wait for it.
ScheduledRuns == []<>(sch.ran = [i \in 1..sch.n |-> i])
=============================================================================
