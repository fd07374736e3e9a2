----------------------------- MODULE LogFormat ------------------------------
(***************************************************************************)
(* The format of log and manifest files of the on-device leveldb           *)
(* (db/log_format.h): how log::Writer cuts records into fragments that fit *)
(* 32 KiB blocks and how log::Reader puts them together again, in a file   *)
(* that may have lost its tail or hold a damaged byte.                     *)
(*                                                                         *)
(* A byte of the file is a cell that knows what it is: byte i of the       *)
(* header of a fragment, byte o of the payload of record r, a zero of a    *)
(* trailer, or damage.  The checksum of a fragment is that its header and  *)
(* payload cells belong together.                                          *)
(***************************************************************************)
EXTENDS Integers, Sequences, FiniteSets, FiniteSetsExt, SequencesExt

CONSTANTS
    kBlockSize,      \* 32768 in the code
    kHeaderSize,     \* 7 in the code
    RecordSizes,     \* sizes of the records written
    MaxRecords,      \* bound: records written
    InitialOffsets   \* values of initial_offset the reader is given

ASSUME LogFormatAssumption ==
    /\ kHeaderSize \in Nat \ {0} /\ kBlockSize \in Nat /\ kBlockSize > kHeaderSize
    /\ RecordSizes \subseteq Nat /\ MaxRecords \in Nat
    /\ InitialOffsets \subseteq Nat

VARIABLES
    log_phase,   \* "write", "read" or "done"
    log_file,    \* the cells of the file
    log_sizes,   \* sizes of the records written (specification only)
    log_spans,   \* first and last offset of each record (specification only)
    log_damage,  \* NoDamage, Cut, or which cell was damaged
    rd           \* the reader

log_vars == <<log_phase, log_file, log_sizes, log_spans, log_damage, rd>>

NoDamage == 0
Cut      == -1

Zero    == [kind |-> "zero"]
Damaged == [kind |-> "damage"]
Payload(r, o) == [kind |-> "data", r |-> r, o |-> o]
\* EmitPhysicalRecord: the header of a fragment of type t with n payload bytes of
\* record r from byte o on, then the payload.
EmitPhysicalRecord(t, r, o, n) ==
    [i \in 1..(kHeaderSize + n) |->
        IF i <= kHeaderSize THEN [kind |-> "head", t |-> t, r |-> r, o |-> o, n |-> n, i |-> i]
        ELSE Payload(r, o + i - kHeaderSize)]

\* A block too full for a header is filled with zeros.
FillTrailer(file) ==
    LET leftover == kBlockSize - (Len(file) % kBlockSize)
    IN  IF leftover < kHeaderSize THEN file \o [i \in 1..leftover |-> Zero] ELSE file

\* Writer::AddRecord: fragments of a record of the given size.
AddRecord(file0, r, size) ==
    LET Step(st) ==
            LET file  == FillTrailer(st.file)
                avail == kBlockSize - (Len(file) % kBlockSize) - kHeaderSize
                n     == Min({st.left, avail})
                end   == st.left = n
                type  == CASE st.begin /\ end -> "full" [] st.begin -> "first"
                           [] end -> "last" [] OTHER -> "middle"
            IN  [file |-> file \o EmitPhysicalRecord(type, r, size - st.left, n),
                 left |-> st.left - n, begin |-> FALSE]
        Rounds[n \in 0..(size + 1)] ==
            IF n = 0 THEN [file |-> file0, left |-> size, begin |-> TRUE]
            ELSE LET st == Rounds[n - 1]
                 IN  IF st.left = 0 /\ ~st.begin THEN st ELSE Step(st)
    IN  Rounds[size + 1].file

LogInit ==
    /\ log_phase = "write" /\ log_file = <<>> /\ log_sizes = <<>> /\ log_spans = <<>>
    /\ log_damage = NoDamage
    /\ rd = [initial |-> 0]

\* One more record is appended.
WriteRecord(size) ==
    /\ log_phase = "write" /\ Len(log_sizes) < MaxRecords
    /\ log_sizes' = Append(log_sizes, size)
    /\ log_file' = AddRecord(log_file, Len(log_sizes) + 1, size)
    /\ log_spans' = Append(log_spans, <<Len(FillTrailer(log_file)), Len(log_file')>>)
    /\ UNCHANGED <<log_phase, log_damage, rd>>

\* SkipToInitialBlock: where the reader starts.
SkipToInitialBlock(initial) ==
    LET offset == initial % kBlockSize
        start  == initial - offset
    IN  IF offset > kBlockSize - (kHeaderSize - 1) THEN start + kBlockSize ELSE start

\* Reader::Reader.  at is the offset of buffer_, end its end.
StartReading(file, damage, initial) ==
    /\ log_phase' = "read" /\ log_file' = file /\ log_damage' = damage
    /\ rd' = [initial |-> initial, at |-> SkipToInitialBlock(initial),
              end |-> SkipToInitialBlock(initial), eof |-> FALSE, resync |-> initial > 0,
              infrag |-> FALSE, scratch |-> <<>>, out |-> <<>>, drops |-> 0]
    /\ UNCHANGED <<log_sizes, log_spans>>

OpenIntact ==
    /\ log_phase = "write"
    /\ \E i \in {x \in InitialOffsets : x = 0 \/ x < Len(log_file)} :
          StartReading(log_file, NoDamage, i)

\* The writer died: the file ends at any byte.
OpenCut ==
    /\ log_phase = "write"
    /\ \E n \in 0..(Len(log_file) - 1) : StartReading(SubSeq(log_file, 1, n), Cut, 0)

OpenDamaged ==
    /\ log_phase = "write"
    /\ \E i \in 1..Len(log_file) : StartReading([log_file EXCEPT ![i] = Damaged], i, 0)

-----------------------------------------------------------------------------
(* ReadPhysicalRecord *)

Reading == log_phase = "read"

\* The buffer holds less than a header: read the next block.
ReadBlock ==
    /\ Reading /\ rd.end - rd.at < kHeaderSize /\ ~rd.eof
    /\ LET end == Min({rd.end + kBlockSize, Len(log_file)})
       IN  rd' = [rd EXCEPT !.at = rd.end, !.end = Max({end, rd.end}),
                            !.eof = end - rd.end < kBlockSize]
    /\ UNCHANGED <<log_phase, log_file, log_sizes, log_spans, log_damage>>

\* End of file; a record that was not completed is ignored without a report.
EndOfFile ==
    /\ rd' = [rd EXCEPT !.at = rd.end]
    /\ log_phase' = "done"
    /\ UNCHANGED <<log_file, log_sizes, log_spans, log_damage>>

AtEof == Reading /\ rd.end - rd.at < kHeaderSize /\ rd.eof /\ EndOfFile

\* What lies at the front of the buffer.
Cell(i) == log_file[rd.at + i]
Header  == Cell(1)
HeaderIntact ==
    /\ Header.kind = "head" /\ Header.i = 1
    /\ \A i \in 1..kHeaderSize : Cell(i) = [Header EXCEPT !.i = i]
TooLong == kHeaderSize + Header.n > rd.end - rd.at
Fragment == [i \in 1..Header.n |-> Cell(kHeaderSize + i)]
ChecksumOk == \A i \in 1..Header.n : Fragment[i] = Payload(Header.r, Header.o + i)

HasHeader == Reading /\ rd.end - rd.at >= kHeaderSize

\* kBadRecord: the reader gives up on the record it was putting together.
BadRecord(at, reports) ==
    rd' = [rd EXCEPT !.at = at, !.infrag = FALSE, !.scratch = <<>>, !.resync = FALSE,
             !.drops = @ + reports + (IF rd.infrag THEN 1 ELSE 0)]

\* A length that runs past the buffer: the rest of the block is dropped, or the
\* writer is taken to have died.
ReadTooLong ==
    /\ HasHeader /\ Header.kind # "zero" /\ (HeaderIntact => TooLong)
    /\ \/ /\ rd.eof /\ EndOfFile
       \/ /\ ~rd.eof /\ BadRecord(rd.end, 1)
          /\ UNCHANGED <<log_phase, log_file, log_sizes, log_spans, log_damage>>

\* A zero-filled region ends the block without a report.
ReadZeros ==
    /\ HasHeader /\ Header.kind = "zero"
    /\ BadRecord(rd.end, 0)
    /\ UNCHANGED <<log_phase, log_file, log_sizes, log_spans, log_damage>>

\* The checksum does not match: nothing else in the block is trusted.
ReadMismatch ==
    /\ HasHeader /\ Header.kind # "zero" /\ (HeaderIntact => ~TooLong /\ ~ChecksumOk)
    /\ BadRecord(rd.end, 1)
    /\ UNCHANGED <<log_phase, log_file, log_sizes, log_spans, log_damage>>

-----------------------------------------------------------------------------
(* ReadRecord: what is done with a good fragment. *)

GoodFragment == HasHeader /\ HeaderIntact /\ ~TooLong /\ ChecksumOk
Next_at == rd.at + kHeaderSize + Header.n
Report(bad) == rd.drops + (IF bad THEN 1 ELSE 0)

\* A fragment that began before initial_offset.
SkipEarly ==
    /\ GoodFragment /\ rd.at < rd.initial
    /\ BadRecord(Next_at, 0)
    /\ UNCHANGED <<log_phase, log_file, log_sizes, log_spans, log_damage>>

\* While resynchronising, the rest of a record that began earlier is skipped.
SkipResync ==
    /\ GoodFragment /\ rd.at >= rd.initial /\ rd.resync /\ Header.t \in {"middle", "last"}
    /\ rd' = [rd EXCEPT !.at = Next_at, !.resync = Header.t = "middle"]
    /\ UNCHANGED <<log_phase, log_file, log_sizes, log_spans, log_damage>>

Accept(t) == GoodFragment /\ rd.at >= rd.initial /\ Header.t = t
             /\ ~(rd.resync /\ t \in {"middle", "last"})

TakeFull ==
    /\ Accept("full")
    /\ rd' = [rd EXCEPT !.at = Next_at, !.resync = FALSE, !.infrag = FALSE, !.scratch = <<>>,
                !.out = Append(@, Fragment), !.drops = Report(rd.scratch # <<>>)]
    /\ UNCHANGED <<log_phase, log_file, log_sizes, log_spans, log_damage>>

TakeFirst ==
    /\ Accept("first")
    /\ rd' = [rd EXCEPT !.at = Next_at, !.resync = FALSE, !.infrag = TRUE,
                !.scratch = Fragment, !.drops = Report(rd.scratch # <<>>)]
    /\ UNCHANGED <<log_phase, log_file, log_sizes, log_spans, log_damage>>

TakeMiddle ==
    /\ Accept("middle")
    /\ rd' = IF rd.infrag THEN [rd EXCEPT !.at = Next_at, !.scratch = @ \o Fragment]
                          ELSE [rd EXCEPT !.at = Next_at, !.drops = @ + 1]
    /\ UNCHANGED <<log_phase, log_file, log_sizes, log_spans, log_damage>>

\* Mutant: a last fragment without a first one is taken for a record.
TakeLastAlways ==
    /\ Accept("last")
    /\ rd' = [rd EXCEPT !.at = Next_at, !.infrag = FALSE, !.scratch = <<>>,
                !.out = Append(@, rd.scratch \o Fragment)]
    /\ UNCHANGED <<log_phase, log_file, log_sizes, log_spans, log_damage>>

TakeLast ==
    /\ Accept("last")
    /\ rd' = IF rd.infrag
             THEN [rd EXCEPT !.at = Next_at, !.infrag = FALSE, !.scratch = <<>>,
                     !.out = Append(@, rd.scratch \o Fragment)]
             ELSE [rd EXCEPT !.at = Next_at, !.drops = @ + 1]
    /\ UNCHANGED <<log_phase, log_file, log_sizes, log_spans, log_damage>>

LogNext ==
    \/ \E n \in RecordSizes : WriteRecord(n)
    \/ OpenIntact \/ OpenCut \/ OpenDamaged
    \/ ReadBlock \/ AtEof \/ ReadTooLong \/ ReadZeros \/ ReadMismatch
    \/ SkipEarly \/ SkipResync \/ TakeFull \/ TakeFirst \/ TakeMiddle \/ TakeLast

-----------------------------------------------------------------------------
(* Properties. *)

Record(r) == [o \in 1..log_sizes[r] |-> Payload(r, o)]
BlocksOf(r) == {i \div kBlockSize : i \in log_spans[r][1]..(log_spans[r][2] - 1)}

\* The records a reader must find: those from initial_offset on, those that were
\* complete when the file was cut, those of undamaged blocks.
Survives(r) ==
    CASE log_damage = NoDamage -> log_spans[r][1] >= rd.initial
      [] log_damage = Cut      -> log_spans[r][2] <= Len(log_file)
      [] OTHER -> (log_damage - 1) \div kBlockSize \notin BlocksOf(r)

\* The reader returns what was written: every record it must find, in order, and
\* from a damaged file possibly others, but never bytes that were not one
\* record (fragments of different records are never joined).  A log whose writer
\* died in the middle of a record is not corrupt: nothing is reported to the
\* Reporter, so that a paranoid recovery does not fail.
LogReadsBack ==
    log_phase = "done" =>
        /\ \E S \in SUBSET (1..Len(log_sizes)) :
              /\ \A r \in 1..Len(log_sizes) :
                    /\ Survives(r) => r \in S
                    /\ log_damage <= 0 /\ r \in S => Survives(r)
              /\ rd.out = LET order == SetToSortSeq(S, <)
                          IN  [i \in 1..Len(order) |-> Record(order[i])]
        /\ log_damage <= 0 /\ rd.initial = 0 => rd.drops = 0
=============================================================================
