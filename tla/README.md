# Event system: a TLA+ verification project

The repository holds two programs that manage events, a **console program** in
Dart (`src/main.dart` and the classes beside it) and a **Flutter app**
(`src/event_system/lib`) whose data lives in a Firebase Realtime Database, and
the storage engine the app's iOS database plugin is built on, **leveldb**, with
its source (`src/event_system/ios/pods/leveldb-library`). This project models the
parts that keep state, checks the models with TLC on small instances and proves
with TLAPS, for every instance, the main invariants of the two programs, the
durability of leveldb's write path and its refinement of an abstract store, the
lock-free reads of its memtable, its table cache, its write batches and file
names, repair, and its operating-system layer.

## Inventory

| Component | State | Operations | What is hard | What makes it correct |
|---|---|---|---|---|
| Console program (`main.dart`, `Event`, `Session`, `Registration`, `enums`, `mixins`) | list of events, list of sessions, map of registrations; the prompt it waits at | add, list, search and delete events; add sessions; register users; exit | a prompt may throw in the middle of a handler; ids are random and collide; one counter serves all sessions; the input may end | no session is overbooked, no registration is lost or orphaned, an aborted handler stores nothing |
| Event synchronisation (`CreatEventPage.dart`, `dashboard_page.dart`, `models/event.dart`) | open form with a copy of the event, open delete dialog; per device a snapshot and unacknowledged writes | create, edit, delete an event; receive a snapshot | several devices; stale forms; acknowledgements lost and writes resent; refused writes; a killed process | attendees survive edits, concurrent edits do not mix, success messages are true, all devices converge |
| Firebase Realtime Database (external) | the events | set, update, remove, push, onValue | at-least-once writes, optimistic local view | modelled, not verified |
| leveldb write path (`db_impl.cc`) | queue of writers, memtables, logs, tables, manifest | Write, flush, removal of files, close, open | group commit, the mutex given up in the middle, crashes, failing disk | an answered write is there after a restart, synced ones after a power cut, batches whole |
| leveldb versions and compaction (`version_set.cc`, `db_impl.cc`) | levels of tables, snapshots, readers, compaction pointers, seek counters | flush, compact, move, CompactRange, Get | flushes inside compactions, old versions in use, dropped deletions | reads find exactly what was written, levels stay sorted, work gets done |
| leveldb log files (`log_writer.cc`, `log_reader.cc`) | the file, the reader's position | write and read records | block boundaries, torn and damaged files | what is read was written |
| leveldb tables (`table/*`, `bloom.cc`, `comparator.cc`) | builder, file, block cursor | Add, Finish, Open, Get, move the cursor | shortened index keys, filters by offset, prefix compression | a lookup finds what was added |
| leveldb iterators (`db_iter.cc`, `merger.cc`, `two_level_iterator.cc`) | positions of all levels of iterators, directions | Seek, First, Last, Next, Prev | changes of direction, a growing memtable, failing reads | the user is where the calls lead |
| leveldb records (`write_batch.cc`, `version_edit.cc`, `filename.cc`, `coding.cc`) | a record and its decoding | encode, decode, parse a file name | truncation, overflow | decoding undoes encoding or reports |
| leveldb table cache (`table_cache.cc`, `cache.cc`) | hash table, two lists, reference counts | find, insert, release, evict, prune | threads that open the same table, eviction in use | freed exactly once, never in use |
| leveldb memtable (`memtable.cc`, `skiplist.h`) | links, heights | insert, get, iterate | readers without a lock | a reader sees whole nodes and misses nothing |
| leveldb environment (`env_posix.cc`) | limiters, lock table, buffer, work queue | open, lock, append, sync, schedule | interrupted and failing system calls | limits kept, one owner, bytes in order, work runs |
| leveldb repair (`repair.cc`) | the directory, `lost/` | RepairDB | killed anywhere and run again | nothing readable is destroyed |
| Navigation, event browser, sign-up and login, profile and schedule pages | the stack of routes; forms | push, pop, filter, create an account | `Navigator.pop` after an `await`; double taps; zero capacities | see "Not modelled" |
| `src/User.dart`, platform runners, other CocoaPods, `build/`, generated Firebase options, the commented-out widget test | - | - | - | not part of the system's own logic |

The console program and the app share nothing. In the app the pages call the
database plugin, which calls back with snapshots and completes the futures the
pages await. On the device the plugin may keep its data in leveldb; the app
does not turn that on (no call of `setPersistenceEnabled`), so `EventSync` loses
its queue when the process dies, and the leveldb modules stand by themselves.

Within leveldb a call of `Write()` goes through the queue (`WritePath`) into a log
(`LogFormat`) as a batch (`Records`) and into the memtable (`MemTable`); the
background thread (`EnvPosix`) writes memtables to tables (`TableFormat`), merges
them (`Compaction`, `Iterators`) and records the result as version edits
(`Records`) in the manifest (`LogFormat` again); reads go through the table cache
(`TableCache`). `WritePath` and `Compaction` take what the format modules check as
given: a log yields the records in it up to a damaged block, a table holds the
entries it was built from.

`PROJECT.json` lists under "hazards" what is hard to test in this code, at the
line where it bites, with the properties that cover it.

## Modules

| Module | What it is |
|---|---|
| `Console` | the console program: state, one action per prompt that is answered, properties |
| `ConsoleProofs` | theorems about `Console` |
| `EventModel`, `EventSync` | the `Event` class and its database node; the app's devices and the database |
| `EventSyncProofs` | theorems about `EventSync` |
| `WritePathProofs` | theorems about the queue, the files and the types of `WritePath` |
| `WriteDurabilityProofs` | extends it: what becomes of the data |
| `WriteRefinementProofs` | extends that: `WritePath` implements `DurableStore` |
| `MemoryProofs` | theorems about `MemTable` and `TableCache` |
| `FileProofs` | theorems about `Repair` and `Records` |
| `EnvPosixProofs` | theorems about `EnvPosix` |
| `DurableStore` | abstract: what leveldb promises to callers of `Write()` |
| `WritePath` | queue, group commit, log, memtables, flush, manifest, removal of files, crash and recovery; shown to implement `DurableStore` |
| `Compaction` | levels, picking and carrying out compactions, manual compaction, snapshots, reads |
| `LogFormat`, `TableFormat`, `Records` | files and their contents |
| `Iterators`, `TableCache`, `MemTable` | structures in memory |
| `EnvPosix`, `Repair` | operating-system layer; rebuilding a directory |
| `MCConsole`, `MCEventSync`, `MCWritePath`, `MCCompaction`, `MCStorage` | instances for TLC |

A definition whose comment begins with "Mutant:", or that stands unused before
the definition it varies, is a plausible bug of the definition that follows it.
No specification uses it; it records which change of the code a property is able
to catch.

### Console

`events`, `sessions` and `registrations` are the program's globals. Titles,
dates, places, organizers and speakers are stored and printed but decide
nothing, so an event is its id; a session keeps id, event and capacity; a
registration keeps user, session and status. `events` is a function from list
positions to ids, so that removal by `removeWhere` keeps the order without
renumbering; `EndOfList` is the place where `add` appends.

A handler of `main.dart` reads several lines. Each prompt it may stop at is a
value of `pc`, and `arg` is the number it has read before: the handler is
split there because `int.parse` and `readLineSync()!` may throw and the `catch`
of `showMenu` abandons the handler. Consecutive prompts that read text which is
only stored are one prompt. `BadNumber` is the exception for a line that is no
number (the y/n prompt parses nothing and cannot raise it), `ThrowAtEof` the one
for the end of the input, `InputEnds` the environment closing the input. `reply`
is the last line printed and the id it speaks of, which the properties need.
Random ids are a choice from `Ids`, with repetition.

### EventSync

The database maps every key to a node; a node is a function from the fields that
were written to their values, and the node without fields is the event that does
not exist. `Written` is the meaning of `set`, `update` and `remove`
(`set(null)`): `update` merges fields and creates the node if it is missing.

For each device: `seen`, the snapshot its stream delivered last; `queue`, the
writes that are not acknowledged; `applied`, how many of them the server has
applied on this connection; the open form or dialog. What the device shows
(`Shown`) is the snapshot with its own writes on top, as the plugin shows local
writes at once.

`SaveEdit` and `SaveCreate` are `_saveEvent` up to its `await`; `Acknowledge` is
what follows the `await` - the message and the pop - together with the
acknowledgement that completes it. Validation that fails changes no state and is
no step. A page that is left while its write is on the way no longer awaits it
(`Abandoned`): then `_saveEvent` throws on its disposed context, and the dialog's
`context.mounted` check skips the rest. Save and Delete can be tapped again while
a write is awaited, as nothing disables them. `Reconnect` is a broken connection
whose acknowledgements are lost, after which everything unacknowledged is sent
again; `Refuse` a write that the server rejects, whose error nobody catches;
`Restart` a killed process, which loses its queue because the app enables no disk
persistence. `saved`, `landed` and `told` are history variables: the maps
submitted, the taps whose write reached the server, the taps answered with a
success message.

Abstractions. Title, date, time, location and image travel together from form
to screen: they are one field, `details`. Snapshots are delivered whole and at
the latest state; a device that lags is one to which nothing has been delivered
yet. The server refuses only the oldest write of a device, after it has
acknowledged the earlier ones. The page closes at the moment of the pop: the
transition during which it is still mounted is left out.

### WritePath and DurableStore

`mutex_` is not a variable: an action is what a thread does between taking it and
giving it up, or one step it takes without it. `pc[t]` is where thread t is in
`Write()`: in the queue, at the head (in `MakeRoomForWrite`), logging, syncing,
inserting. `writers_`, `mem_`, `imm_`, `logfile_number_`, `bg_error_` and the others
are the fields of `DBImpl` and `VersionSet`. `bgpc` is where the background thread
is; a flush that runs inside a compaction is the same steps with `compacting`
set. The disk is `logs` (records, and how many are synced), `tables` and `manifest`
(the version and the counters the last record leads to).

Entries are a sequence number and the call they came from; sizes count entries.
The levels are two, 0 and "base": which file goes where is the subject of
`Compaction`. `Crash` keeps of every log at least its synced part, and the rest up
to a point the environment chooses; a kill of the process keeps all. With "tear"
among the faults that point may lie within a record: part of it, written `{}`,
then ends the log, or ends the manifest (`torn = "tail"`). `Open` is
`VersionSet::Recover` and `DBImpl::Recover`, log by log, with `reuse_logs` on or off;
with it on, the last log and the manifest are appended to where they end.
`ReadRecords` may drop any number of records behind a torn one, the rest of its
block, and a manifest with a torn record inside (`torn = "inside"`) may be refused,
so `Recoverable` counts neither. The other `Faults` are failing syncs, table
builds, manifest writes and log creations, and appends to the log ("append") or
the manifest ("descriptor") that stop within the record.

`DurableStore` has calls and their answers, the batches that a reader sees and
those no crash can remove. Its steps are: a call, the success or failure of a
group, batches becoming durable, a restart. The refinement maps `stored` to what
a reader finds (while the store is down: what recovery would read) and `durable`
to what is in tables of the manifest or in the synced part of a log that
recovery reads.

### Compaction

A version is, for each level, a set of files; a file is its number and its
entries. Only the background thread installs versions, so its work is one step
up to each point where it gives up the mutex or installs one: start (pick the
inputs), build the outputs, install. In the phase between, writers fill and
switch the memtable, readers come and go on whatever version they took, and a
memtable may be flushed from inside the compaction. `written` is the history that
`ReadsAgree` compares lookups with. `Reopen` is a restart, whose recovery puts the
memtables on level 0. Files no version, reader or compaction needs leave `disk`.

### The other parts of leveldb

Each has its own variables and shares none, so `MCStorage` runs them side by
side: a behaviour chooses one part at the start and exercises that one.

* `LogFormat`: a byte of a file is a cell that knows which byte of which fragment
  it is; a fragment's checksum holds if its cells belong together.
* `TableFormat`: keys are short byte sequences, so that separators, successors,
  shared prefixes and the Bloom filter's bits are computed as the code does.
* `Records`: numbers are varints over a small base; decoding starts from every
  prefix of what was encoded.
* `Iterators`: the three kinds of iterator nested as in the code; every block
  read may fail, and the memtable may grow between two steps.
* `TableCache`: one shard. Lookup and insertion are separate, because the file is
  opened without the mutex. The LRU list is a sequence, since eviction follows its
  order; the handles of a hash chain and the list of handles in use are sets,
  since nothing depends on theirs.
* `MemTable`: every load and store of a link is a step; the height is loaded
  relaxed, so a reader may see any height there has been.
* `EnvPosix`: four parts - limiters, directory lock, buffered file, background
  queue. The two atomic operations of `Limiter::Acquire` are two steps. `acked`
  is what the last successful `Sync` answered for.
* `Repair`: a step per change of the directory; `CallAgain` is the process killed
  and repair run again, or run again after it has ended. A read of a log or table
  may fail (`ReadsOf`): any part of the entries is then seen. A table is read
  twice, by `ScanTable` for its metadata and by `RepairTable` for the copy, and is
  listed with what the scan saw.

## Runs

| Run | Checks | Shows |
|---|---|---|
| `console` | TypeOK, CapacityRespected, SharedPool, RegistrationsKeepTheirSession, DeletedIsGone, ChangesAreReported, LostOnlyByCollision, EofSpinsAtMenu | 580 000 states: every sequence of commands, bad lines and end of input; once the input has ended the loop goes round for ever |
| `console_full` | FullMeansNoSeats: **violated** | the check counts the registrations of all sessions, so a session nobody has booked is "full" |
| `sync` | TypeOK, AttendeesKept, WholeRecords, SuccessIsDurable, Converges | about a million states: two devices race with edits, creations and deletions; every dashboard comes to show the database |
| `sync_revive` | UpdateNeverCreates: **violated** | saving a stale edit form brings a deleted event back |
| `write_path` | TypeOK, SyncedWritesSurvive, AnsweredWritesRemain, SequenceFollowsQueue, LiveFilesExist | 1.2 million states: three calls by two threads, flushes inside compactions, two crashes or closes anywhere, recovery included; a crash may tear the record being written; every open starts a new log |
| `write_refines` | NoHalfBatch, RefinesDurableStore, EveryWriteReturns | batches of two entries, one failing sync, table build, manifest write or log creation, one crash, logs reused or not: the write path implements `DurableStore`, and every call returns |
| `write_reuse` | SyncedWritesSurvive: **violated** | a crash tears the last record of a log, `reuse_logs` appends behind it, and the second recovery drops a synced write |
| `compaction` | ReadsAgree, LevelsDisjoint, NewerAbove, CompactRangeReturns, CompactionCatchesUp | 129 000 states from an empty database and from two with tables on several levels |
| `compaction_overlap` | LevelsDisjoint: **violated** | a flush inside a manual compaction of the whole range puts a table between the inputs, on the output level |
| `compaction_resurrect` | ReadsAgree: **violated** | a deletion at the end of a file of the output level is dropped, the entry it hid in the next file is found again |
| `storage_parts` | LogReadsBack, IterAgrees, TableGetAgrees, CursorAgrees, BatchReadsBack, EditReadsBack, FileNameExact, CacheSound, MemReadsAgree, LimitsKept, OneOwner, FileInOrder, RepairKeeps, ScheduledRuns | 760 000 states over the thirteen parts |
| `lock_dropped` | OneProcess: **violated** | a refused second `LockFile` of the owner closes its descriptor and with it drops the lock, and another process takes it |

Four more configurations show why some of these properties are stated as they are.
They are not runs of `PROJECT.json`; each ends in a violation, found in seconds with
`tlc -config <file> <module>`.

| Configuration | Violates | Shows |
|---|---|---|
| `MCWritePathTorn.cfg` (`MCWritePath`) | SyncedWritesSurvive | `db_impl.cc` 1225-1240: after an append that stopped half-way the log stays in use, and recovery drops a later synced write with the torn record |
| `MCWritePathManifest.cfg` (`MCWritePath`) | AnsweredWritesRemain | `version_set.cc` 825: a flush inside a compaction leaves part of a record in the manifest, the compaction appends behind it, and the next open is refused (864-867) |
| `MCStorageMisread.cfg` (`MCStorage`) | LastSequenceCovers | `repair.cc` 340: after one failed read during the scan of a sound table its whole copy is listed, with a last sequence number below its entries, against lines 12-13 of the file |
| `MCEventSyncEmpty.cfg` (`MCEventSync`) | EmptyDashboardSaysSo | `dashboard_page.dart` 59: a dashboard without events shows a progress indicator for ever, and never the text of line 138 |

Bounds.

* Console: two ids to draw, so that every kind of id collides; a third id to type
  that nothing has; two users; capacities 0, 1 and 2, so that a full, a nearly
  full and an impossible session occur; two list positions and two sessions,
  which is what a collision, a deletion and a session of a deleted event need.
* EventSync: two devices, one event found (with attendees and without a capacity)
  and one key to mint, two taps over all devices and two lost connections or
  killed processes, so that one device's write can land between another's write
  and its resending.
* WritePath: two threads, three calls, a memtable that is full after two entries
  (after one in `write_refines`), a compaction as soon as there is a table, a stop at
  two. So a group of two, a null batch that forces a switch, a writer that waits
  behind a full memtable and a flush inside a compaction (of what the first
  recovery left on level 0) all occur, and a crash can hit each of them; the second
  crash can hit the recovery, or what was written after it.
  `write_refines` has two calls with batches of up to two entries, which is what
  half a batch needs, and one fault.
  `write_reuse` has two calls and one crash, the least it takes.
* Compaction: three keys, four levels, files of two entries, levels of three.
  How many writes, reads, snapshots, manual calls, failures and restarts follow
  is given with each starting database. `Boundary` has a user key split over two
  files of a level, `Deep` data on levels 0 and 2, `Around` two tables of level 0
  around a key of level 2. The passing run uses combinations without the two
  violations above; the violating runs show the smallest combinations that have
  them (a manual compaction over the whole range with a gap between its inputs;
  a snapshot that splits a key over two files of the output level).
* Storage parts: blocks of 8 bytes with headers of 3, records of 0 to 9 bytes, so
  that records end at every place of a block; tables of up to the seven keys with
  a filter per 6 cells; two operations or fields per record and every
  truncation; file numbers up to 16 in base 3, with more digits than fit; two
  readers, two files and capacities 0, 1 and 2 for the cache; two levels, three
  entries and two reads for the skip list; two threads and limits of one; two
  processes with two threads each for the lock; three appends over a buffer of
  three; three items of work; five directories, sound, damaged and empty, two
  calls of repair and two failures, so that a table may be misread by both the
  scan and the copy. `lock_dropped` exercises the lock alone.

The deadlock check is off: the console ends at "exit", and devices, writers and
parts whose bounds are used up may rest. Symmetry is used in `write_path` only.

Fairness. `Console!FairSpec` assumes only that the loop goes on once the input
has ended: `readLineSync` returns at once. `EventSync!FairSpec` assumes weak
fairness of `Apply`, `Acknowledge` and `Deliver`: the plugin sends queued writes and
delivers snapshots by itself while it is connected, and connections break only
`MaxDrops` times. `WritePath!FairSpec` assumes that a thread inside `Write()`, the
background thread, a close and an open that are under way go on when they can;
waiting threads need their signal. `Compaction!FairSpec` assumes that the
background thread runs once it is scheduled and that the caller of CompactRange
goes on. `SchFair` assumes that the operating system runs the background thread;
spurious wake-ups are possible and never relied on. Nobody is assumed to tap,
call, answer or crash anything, and nothing is assumed to fail.

## Theorems

All are proved for arbitrary constants that satisfy the ASSUME of their module.

`ConsoleProofs` assumes that `Ids` is finite, that capacities are integers and
that the bounds are naturals.

* `TypeCorrect`: `Spec => []TypeOK`. Only the four actions that change stored
  data need an argument; one lemma covers all steps between prompts.
* `BookingsCorrect`, and from it `NeverOverbooked`, `OnePoolOfSeats` and
  `SessionsOutliveEvents`. CapacityRespected is not inductive: a new session that
  is the first with its id would inherit registrations that name the id.
  RegistrationsKeepTheirSession excludes them, so the inductive invariant is
  `TypeOK /\ Bookings`, the conjunction of the three. When `registerUser` adds a
  registration, all registrations together fit the session it books, hence those
  of the session do; any other session loses a registration or keeps its own.
* `NoSilentLoss`: the action property LostOnlyByCollision.
* `DeletionIsComplete`: DeletedIsGone is inductive by itself. `NoSilentChange`: the
  action property ChangesAreReported, action by action.

`EventSyncProofs` assumes that the database found consists of nodes, that the
typed capacities and 0 are among the numbers, and that the bounds are naturals.

* `TypeCorrect`: `Spec => []TypeOK`.
* `GoodAlways`, and from it `AttendeesNeverLost` and `EditsNeverMix`. The
  inductive invariant `Good` follows an event round the loop: the server is good
  because every write on its way carries all fields of a submitted form and the
  attendees the event was found with; a write is good because its form is; a form
  is good because everything a device can show is (`ShownGood`), which depends on
  `WholeWrite`: an `update` that carries every field replaces the node. Keys that
  exist are never minted (`SeedIsMinted`), so a created event starts with 0.
* `ToldIsTrue`: every write in the applied part of a queue has landed
  (`AppliedLanded`), so a message that follows an acknowledgement is true.

`WritePathProofs` assumes only what `WritePathConstants` says: natural bounds, at
least one thread, a stop trigger not below the compaction trigger, and any set of
faults. It proves `WritePathTypes` (TypeOK) and, with the hypothesis `NewManifests`,
`NoLiveFileIsDeleted` (LiveFilesExist) from `WritePathInv`, which has two halves.
`NewManifests` says that no open reuses a manifest that may end in part of a
record: what a record behind the part stands for, recovery may never learn.

* `ThreadInv`: `writers_` holds waiting calls without an answer, in their order;
  only its head works; a thread that waits is in the queue or done; the group is
  a prefix of the queue.
* `FilesInv`: where the numbers of files come from. Every number on the disk or
  in a version is below `next_file_number_`; the outputs of a flush or compaction
  are in `pending_outputs_` until the version that names them is installed; after
  a failed manifest write the manifest may name what `current` does not, and
  `bg_error_` is set; the files `RemoveObsoleteFiles` has collected and is deleting
  without the mutex (`garbage`) are tables of no version and no pending output, or
  logs below `log_number_`. The last part makes LiveFilesExist inductive: the list
  is computed under the mutex and used after it.

`WriteDurabilityProofs` proves `SyncedWritesAreDurable`, `AnsweredWritesStay`,
`SequencesFollowTheQueue` and `BatchesAreAtomic` with the hypothesis
`WholeRecords`: appends to logs and to the manifest are whole or fail whole, and
`reuse_logs` is off where a crash may tear a record. It cannot be dropped for
durability: `MCWritePathTorn.cfg`, `MCWritePathManifest.cfg` and the run `write_reuse`
have counterexamples to its three parts. Syncs, table builds, manifest writes and log creations may fail, and
crashes may come anywhere, any number of times, and, if nothing is reused, in the
middle of a record. A torn record is then the last of its log (`DiskInv`) and never
in the log in use, and a torn manifest is replaced before the database is open
(`WholeInv`), so that recovery drops nothing behind either. The inductive invariant
`DataInv` follows a batch as a whole: every set of entries that is written at
once (memtable, table, record of a log) holds a batch completely or not at all
(`ContentInv`), sequence numbers follow the calls (`OwnInv`, `SeqInv`), the group's
record is the last of the log from `log` on and synced before `insert` if asked
for (`BatchInv`), a table about to be installed holds the memtable or the inputs it
replaces (`FlushInv`), an answered entry of a log that recovery would read is in a
memtable or a table as well (`LogInv`, and `RecLogInv` while recovery runs), and
every answered call is recoverable, synced if it asked for that, and served
(`AnswerInv`).

`WriteRefinementProofs` proves `WritePathImplementsDurableStore`,
`Spec => RefinesDurableStore`, under the same hypothesis: `Init` maps to
the store's, and each action maps to one abstract step or none. The actions that
change what the store holds are the end of a group (`Succeed` or `Fail`), a sync or
a manifest record (`Harden`), and the crash or close
(`Restart`); for all others a lemma shows that the same batches are stored and
durable. DataInv says that nothing is lost; the refinement also needs that
nothing appears, which is `RefInv`: a record whose sync failed stays in the log
only behind `bg_error_`, old logs and outputs hold exactly what they should, and
recovery's tables hold only what the logs held.

`MemoryProofs` assumes of the memtable positive user keys and at least one level.
It proves `LockFreeReadsAreRight` (MemReadsAgree) from `MemInv`: on every level the nodes
that `SetNext` has put there form one sorted list from `head_` that skips nobody
(`LinksInv`); a node on a level is on all levels below, and none is above
`max_height_` (`TowerInv`); only the node being inserted is newer than
`LastSequence()` (`FreshInv`); the writer's `prev[]` names the neighbours on every
level it has not linked yet (`WriterInv`); the reader stands on its level before
its target (`ReaderInv`). A level only ever gains nodes, and the one it gains is
newer than anything the reader must find, so the writer's steps cannot disturb a
walk. That a stale height does no harm is part of it: a walk may start on any
level there has been.

It also proves `CacheIsSound` (CacheSound), for finitely many readers, any file
numbers and capacities, and a first hash table with at least one bucket. The
invariant `CacheInv` counts the holders of every handle; given that count,
`ShardInv` ties the four structures together: a handle has one reference for each
holder and one for the cache, and was closed once exactly if none is left
(`RefsInv`); the hash table has the handles in the cache, one for a key, each in
its bucket, and `elems_` is their number (`TableInv`); the handles in the cache
are on the LRU list, without repetition, if nobody holds them, and on the other
if somebody does, and `usage_` is their number (`ListsInv`). In the middle of
`Insert` and `Erase` a handle is out of the table and still on a list, so
TableInv takes the set of handles as a parameter. `Resize` ends because doubling
exceeds any number of elements, and the loop of evictions keeps ShardInv at
every turn; both follow from the least number of turns at which they would not.

`FileProofs` shows what a recursive definition computes without an induction
theorem: a set of numbers that is not empty has a least element (`LeastElement`,
from the well-foundedness of <), so a property of numbers holds if its least
counterexample is impossible, and a recursive function is shown to have values
(`IterationExists`) before its equation is used.

* `BatchesReadBack` (BatchReadsBack) assumes `RecordsAssumption`: a base of at least
  two, and numbers and lengths that fit the longest varint. Below it: decoding an
  encoded varint or length-prefixed string gives it and the rest back, and a
  proper prefix of one is refused. `BatchInv` keeps the layout of a batch, the
  places at which its operations end (`Layout`), so that after n operations
  `Iterate` stands at the nth place (`Reading`), wherever the batch was cut off.
* `FileNamesAreExact` (FileNameExact), from `NameInv`: the number read so far is that
  of the digits so far and fits, so that the test against the largest number and
  its last digit is exact.
* `RepairIsSafe` (RepairKeeps) assumes `RepairConstants`: the directory has finitely
  many files, and a number is not used both for an `ldb` and an `sst` file.
  RepairKeeps speaks of any number of calls without a failure, and of one call that
  is not killed and in which operations fail, or reads do, any number of times. After
  a failed read the listed metadata may be that of a part (`MCStorageMisread.cfg`), so
  what it says of the last sequence number leaves that case out;
  `RepairInv` holds there and says, besides types, that `next_file_number_` is above
  every number in the directory (`NextInv`), what the queues of logs and tables
  still to be handled and the table being copied stand for (`LogsInv`, `QueueInv`,
  `CopyInv`, `SrcInv`), that a listed table exists and is readable (`ListedInv`),
  that a file which is in `lost/` too is whole in the directory, or is a listed copy
  this call does not touch again, so that archiving overwrites nothing (`LostInv`),
  that without failures the number of a table in
  `lost/` is not given out again (`NumberInv`), and that every entry is in the
  directory or in `lost/` at every moment (`SafeInv`), so that a kill at any step
  loses nothing.

`EnvPosixProofs` assumes finitely many threads that open files, and natural limits
and sizes.

* `DirectoryHasOneOwner` (OneOwner): the lock table admits one thread of a
  process, and the kernel's lock is the lock of the process that thread is in,
  unless it was dropped by a close (`LockInv`).
* `BytesStayInOrder` (FileInOrder): file, buffer and the rest of the append under
  way are consecutive parts of what was appended, and those of its bytes that a
  successful Sync has answered for lie in the synced part of the file (`WfInv`).
* `LimitsAreKept` (LimitsKept): permits free, permits held and permits on their
  way back add up to the limit although `Limiter::Acquire` subtracts first and
  adds again when it fails; sums over threads are cardinalities of sets of
  permits, changed by one element at a step (`LimInv`).

Only model-checked, and why:

* liveness (EofSpinsAtMenu, Converges, EveryWriteReturns, CompactRangeReturns,
  CompactionCatchesUp, ScheduledRuns): outside the prover's reach;
* ReadsAgree and LevelsDisjoint of `Compaction`: not theorems, since the runs
  `compaction_overlap` and `compaction_resurrect` violate them for some constants;
  NewerAbove needs the same restrictions on the starting databases;
* LogReadsBack, IterAgrees, TableGetAgrees, CursorAgrees, EditReadsBack: each
  compares a whole structure with what flattening, sorting or merging it yields.
  The provers cannot instantiate the library's induction theorems; the argument
  by a least counterexample that `FileProofs` uses instead has not been carried
  out for these.

## Observed while modelling

Behaviour of the code that contradicts no statement of the repository, or is
outside what a run of this project checks:

* `src/enums.dart` has the comments of `pending` and `confirmed` exchanged.
* `env_posix.cc` 657-658: the lock table is emptied before the descriptor is closed,
  so an `UnlockFile` that overlaps a new `LockFile` drops its lock, like the refused
  `LockFile` of `lock_dropped`. `OneOwner` states the exact condition.
* A `Sync` behind a failed append or flush returns ok although the bytes of the
  buffer that could not be written are gone.
* Names with leading zeros, and `N.ldb` and `N.sst`, parse to the same type and number.
* A log read from an initial offset inside a record reports a drop that is none.
* `TEST_CompactMemTable` relies on a null batch to force a switch; when the null
  batch joins another writer's group nothing is forced.
* The LRU cache may stay over its capacity with unreferenced entries until the
  next insertion.
* Index and filter blocks are read unverified unless `paranoid_checks` is set, and data
  blocks unless `verify_checksums` is; `TableFormat` reads with checksums verified.
* `VersionEdit::Clear` does not clear the compaction pointers.
* Repair puts all tables on level 0 in the order of their numbers, so that older
  data in a table with a higher number may hide newer data. A failing operation
  followed by two kills may overwrite a file in `lost/`; a kill between archiving
  the manifests and `SetCurrentFile` leaves CURRENT dangling until repair is run
  again. A read that fails while a table is copied, together with a rename into
  `lost/` that fails, replaces the table by a copy of part of it (`RepairKeeps` does not
  speak of calls in which both kinds of failure occur).

## Not modelled

* Navigation, sign-up, login, event browser and cards: the stack of routes and
  its transitions belong to the framework, and the pages' awaits, double taps and
  thresholds come without any statement of what they should do. The hazards list
  names the lines.
* Data that decides nothing: titles, dates, places, speakers; values of
  key-value pairs; formatting and logging.
* leveldb: `GetProperty`, `GetApproximateSizes`, `DestroyDB`, the clean-up of
  options, debug strings, fixed-width integers, checksums and hashes (external:
  they hold or not), compression, the arena, the choice of a cache shard, the C
  interface, the wrappers of single system calls, `mmap` reading.
* The rest of `ios/pods`, platform runners and build products.

## Plan

1. EditReadsBack of `Records` and LogReadsBack of `LogFormat`, with the lemmas of
   `FileProofs` about varints and prefixes.
2. The write path without `WholeRecords`: what still holds of durability for calls
   answered before the torn record.
