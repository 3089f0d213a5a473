--------------------------- MODULE EmerCircularFile ---------------------------
(* src/daemon/emer-circular-file.c: a FIFO of elements in a file of limited   *)
(* size, in which they wrap round, and a key file beside it that says where   *)
(* they begin and how much room they take.                                    *)
(*                                                                            *)
(* The file is made of cells.  A record is a length, HeaderCells cells of     *)
(* which only the first is not zero (a little-endian integer), then as many   *)
(* cells of data.  The sizes in the code are in bytes, here in cells.         *)
EXTENDS Integers, Sequences, Functions

CONSTANTS HeaderCells,    \* sizeof (guint64)
          Lengths,        \* the lengths of the elements
          Limits,         \* the values of max-size the file is opened with
          MaxElements,    \* elements are appended this often
          Faults          \* what may go wrong, see below

ASSUME CircularFileAssumption ==
  /\ HeaderCells \in Nat \ {0}
  /\ Lengths \subseteq Nat \ {0}
  /\ Limits \subseteq Nat
  /\ MaxElements \in Nat
  /\ Faults \subseteq {"write",     \* writing the data file
                       "metadata",  \* saving the metadata file
                       "remove",    \* saving it on a removal or a purge
                       "kill",      \* the process dies
                       "power",     \* power is lost
                       "corrupt"}   \* the metadata file ends up empty

VARIABLES
  (* the files *)
  data,          \* the cells of the data file
  metadata,      \* the metadata file
  (* EmerCircularFilePrivate *)
  keyFile,       \* metadata_key_file: the metadata file, in memory
  maxSize, size, head, writeBuffer,
  (* where the code is *)
  doing,         \* the call that has begun, or "idle", or "closed"
  buffer,        \* the contents resize () has read, then rewrites
  (* history *)
  answer,        \* what the last read returned, while its token is valid
  appended,      \* how many elements have been appended
  refused,       \* opening failed although every disk access succeeded
  powerLost,     \* there was a power loss
  damaged        \* the metadata no longer fit the data file, see Tears and Initialize

files   == <<data, metadata>>
memory  == <<keyFile, maxSize, size, head, writeBuffer>>
history == <<answer, appended, refused, powerLost, damaged>>
vars    == <<files, memory, doing, buffer, history>>

-----------------------------------------------------------------------------
(* Cells *)

Zero         == <<0, 0>>
Cell         == (0..MaxElements) \X Nat
Header(n)    == [i \in 1..HeaderCells |-> IF i = 1 THEN <<0, n>> ELSE Zero]
Record(e, n) == Header(n) \o [i \in 1..n |-> <<e, i>>]

(* A length that was written as one; the bytes of anything else make some     *)
(* other number, which is Garbage.                                            *)
Garbage == -1
LengthIn(cells) ==
  IF cells[1][1] = 0 /\ \A i \in 2..HeaderCells : cells[i] = Zero
  THEN cells[1][2] ELSE Garbage

(* The element of these cells of data, of id 0 if they are not those that     *)
(* were written.                                                              *)
ElementIn(cells) ==
  LET e == cells[1][1]
  IN <<IF cells = [i \in DOMAIN cells |-> <<e, i>>] THEN e ELSE 0, Len(cells)>>

(* The data file after cells were written to it at a position.                *)
Larger(m, n)  == IF m > n THEN m ELSE n
Smaller(m, n) == IF m < n THEN m ELSE n
Written(file, position, cells) ==
  [p \in 1..Larger(Len(file), position + Len(cells)) |->
     IF p \in position + 1 .. position + Len(cells) THEN cells[p - position]
     ELSE IF p <= Len(file) THEN file[p] ELSE Zero]

\* An error in After: a position at the end does not wrap round.
AfterEnd(from, n, max) == IF from + n <= max THEN from + n ELSE from + n - max

(* (head + n) % max, for n at most max.                                       *)
After(from, n, max) == IF from + n < max THEN from + n ELSE from + n - max

-----------------------------------------------------------------------------
(* Reading *)

(* n cells of a stream on the file, which is at a position: it goes on from   *)
(* the start if it has ended where it should, and fails otherwise.            *)
CellsFrom(file, max, position, n) ==
  IF position + n <= Len(file) THEN SubSeq(file, position + 1, position + n)
  ELSE IF Larger(position, Len(file)) = max /\ position + n - max <= Len(file)
  THEN SubSeq(file, position + 1, Len(file)) \o SubSeq(file, 1, position + n - max)
  ELSE << >>
PositionAfter(file, position, n) ==
  IF position + n <= Len(file) THEN position + n ELSE position + n - Len(file)

(* A round of the loop of emer_circular_file_read, by a reader who takes up   *)
(* to limit cells of data, after some have got what they have got.            *)
ReadElement(file, max, from, room, limit, got) ==
  LET position == PositionAfter(file, from, got.cells)
      header   == CellsFrom(file, max, position, HeaderCells)
      length   == LengthIn(header)
      start    == PositionAfter(file, position, HeaderCells)
      contents == CellsFrom(file, max, start, length)
      Ends(how) == [got EXCEPT !.ended = how]
  IN IF got.ended # "no" THEN got
     ELSE IF got.cells >= room THEN Ends("all")
     ELSE IF header = << >> THEN Ends("short")
     ELSE IF length = Garbage THEN Ends("garbage")
     ELSE IF length = 0 THEN Ends("invalid")
     ELSE IF got.dataCells + length > limit THEN Ends("limit")
     ELSE IF contents = << >> THEN Ends("short")
     ELSE [elems |-> Append(got.elems, ElementIn(contents)), ended |-> "no",
           cells |-> got.cells + HeaderCells + length,
           dataCells |-> got.dataCells + length]

(* The whole loop: a round reads a cell or more, or is the last.              *)
Got == [elems : Seq((0..MaxElements) \X Nat), cells : Nat, dataCells : Nat,
        ended : {"no", "all", "short", "garbage", "invalid", "limit"}]
NothingRead == [elems |-> << >>, cells |-> 0, dataCells |-> 0, ended |-> "no"]
Reading(file, max, from, room, limit) ==
  LET round == [got \in Got |-> ReadElement(file, max, from, room, limit, got)]
      after[n \in Nat] == IF n = 0 THEN NothingRead ELSE round[after[n - 1]]
  IN after[room + 1]

(* get_trimmed_size: the prefix of the cells that is made of whole records.   *)
TrimRecord(cells, at) ==
  LET length == LengthIn(SubSeq(cells, at + 1, at + HeaderCells))
      next   == at + HeaderCells + length
  IN IF at + HeaderCells < Len(cells) /\ length # Garbage /\ next <= Len(cells)
     THEN next ELSE at
TrimmedSize(cells) ==
  LET round == [at \in Nat |-> TrimRecord(cells, at)]
      after[n \in Nat] == IF n = 0 THEN 0 ELSE round[after[n - 1]]
  IN after[Len(cells)]

-----------------------------------------------------------------------------
(* The metadata file *)

NoMetadata == [exists |-> FALSE, maxSize |-> 0, size |-> 0, head |-> 0]

(* save_metadata_file: replaces the file by what is in memory, or fails.      *)
SaveMetadata      == metadata' = keyFile'
SaveMetadataFails == "metadata" \in Faults /\ UNCHANGED metadata

(* set_metadata, on success *)
SetMetadata(newSize, newHead) ==
  /\ keyFile' = [keyFile EXCEPT !.size = newSize, !.head = newHead]
  /\ SaveMetadata
  /\ size' = newSize /\ head' = newHead
SetMetadataFails(newSize, newHead) ==
  /\ keyFile' = [keyFile EXCEPT !.size = newSize, !.head = newHead]
  /\ UNCHANGED <<metadata, size, head>>

Idle == doing = "idle"

-----------------------------------------------------------------------------
(* Opening *)

Closed ==
  /\ doing' = "closed"
  /\ keyFile' = NoMetadata /\ maxSize' = 0 /\ size' = 0 /\ head' = 0
  /\ writeBuffer' = << >> /\ buffer' = << >>
  /\ answer' = << >>

(* The file is not there yet, or reinitialized: its metadata are.  The data   *)
(* file stays as it was, even if it is longer than the maximum size.          *)
Initialize(limit) ==
  /\ doing = "closed" /\ ~metadata.exists
  /\ maxSize' = limit
  /\ keyFile' = [exists |-> TRUE, maxSize |-> limit, size |-> 0, head |-> 0]
  /\ SaveMetadata
  /\ doing' = "idle" /\ refused' = FALSE
  /\ damaged' = (damaged \/ Len(data) > limit)
  /\ UNCHANGED <<data, size, head, writeBuffer, buffer, answer, appended, powerLost>>

\* An error in Valid: a full file is refused.
ValidUnlessFull(meta) == meta.size \in 0..meta.maxSize - 1 /\ meta.head < meta.maxSize

(* Metadata the code accepts.                                                 *)
Valid(meta) == meta.size \in 0..meta.maxSize /\ meta.head < meta.maxSize

RefuseMetadata(limit) ==
  /\ doing = "closed" /\ metadata.exists /\ ~Valid(metadata)
  /\ refused' = TRUE
  /\ UNCHANGED <<files, memory, doing, buffer, answer, appended, powerLost, damaged>>

(* What read_disk_bytes gets of a ring: a cell that the file does not reach   *)
(* stays as it was in the buffer, and is no error.                            *)
Ring(file, meta, n) ==
  [i \in 1..n |-> LET position == After(meta.head, i - 1, meta.maxSize) + 1
                  IN IF position \in DOMAIN file THEN file[position] ELSE Zero]

Load(limit) ==
  /\ doing = "closed" /\ metadata.exists /\ Valid(metadata)
  /\ keyFile' = metadata /\ maxSize' = limit
  /\ size' = metadata.size /\ head' = metadata.head
  /\ refused' = FALSE
  /\ IF metadata.maxSize = limit
     THEN doing' = "idle" /\ UNCHANGED buffer
     ELSE LET cells == Ring(data, metadata, Smaller(metadata.size, limit))
          IN doing' = "resizing" /\ buffer' = SubSeq(cells, 1, TrimmedSize(cells))
  /\ UNCHANGED <<files, writeBuffer, answer, appended, powerLost, damaged>>

\* An error in OverwriteEmpties: the file is not made empty before it is replaced.
OverwriteGrows ==
  /\ doing = "resizing"
  /\ keyFile' = [keyFile EXCEPT !.maxSize = Larger(maxSize, keyFile.maxSize)]
  /\ SaveMetadata
  /\ size' = 0 /\ head' = 0
  /\ doing' = "replacing"
  /\ UNCHANGED <<data, maxSize, writeBuffer, buffer, history>>

(* overwrite: the file is made logically empty, replaced, then filled again.  *)
OverwriteEmpties ==
  /\ doing = "resizing"
  /\ keyFile' = [keyFile EXCEPT !.maxSize = Larger(maxSize, keyFile.maxSize),
                                !.size = 0, !.head = 0]
  /\ SaveMetadata
  /\ size' = 0 /\ head' = 0
  /\ doing' = "replacing"
  /\ UNCHANGED <<data, maxSize, writeBuffer, buffer, history>>

OverwriteReplaces ==
  /\ doing = "replacing"
  /\ data' = buffer
  /\ doing' = "refilling"
  /\ UNCHANGED <<metadata, memory, buffer, history>>

OverwriteRefills ==
  /\ doing = "refilling"
  /\ keyFile' = [keyFile EXCEPT !.maxSize = Smaller(maxSize, keyFile.maxSize),
                                !.size = Len(buffer)]
  /\ SaveMetadata
  /\ size' = Len(buffer)
  /\ doing' = "idle" /\ buffer' = << >>
  /\ UNCHANGED <<data, maxSize, head, writeBuffer, history>>

(* A disk access of the constructor fails, which frees the object.            *)
OpenFails ==
  /\ \/ doing \in {"resizing", "refilling"} /\ "metadata" \in Faults
     \/ doing = "replacing" /\ "write" \in Faults
  /\ Closed
  /\ UNCHANGED <<files, appended, refused, powerLost, damaged>>

-----------------------------------------------------------------------------
(* emer_circular_file_append, which refuses what does not fit.                *)
AppendElement(n) ==
  /\ Idle /\ size >= 0 /\ appended < MaxElements
  /\ size + Len(writeBuffer) + HeaderCells + n <= maxSize
  /\ appended' = appended + 1
  /\ writeBuffer' = writeBuffer \o Record(appended + 1, n)
  /\ UNCHANGED <<files, keyFile, maxSize, size, head, doing, buffer, answer,
                 refused, powerLost, damaged>>

(* emer_circular_file_save: what does not fit before the end of the file is   *)
(* written first, at its start, then the rest.                                *)
TailPosition == After(head, size, maxSize)
CellsUnlimited == Len(writeBuffer)   \* an error in CellsTail: nothing wraps

CellsTail    == Smaller(Len(writeBuffer), maxSize - TailPosition)
AtTail       == SubSeq(writeBuffer, 1, CellsTail)
AtStart      == SubSeq(writeBuffer, CellsTail + 1, Len(writeBuffer))

WriteStart ==
  /\ Idle /\ size >= 0 /\ writeBuffer # << >>
  /\ data' = Written(data, 0, AtStart)
  /\ doing' = "writing"
  /\ UNCHANGED <<metadata, memory, buffer, history>>

WriteTail ==
  /\ doing = "writing"
  /\ data' = Written(data, TailPosition, AtTail)
  /\ doing' = "adding"
  /\ UNCHANGED <<metadata, memory, buffer, history>>

(* A write fails after some of its cells, and so does saving.                 *)
WriteFails ==
  /\ "write" \in Faults
  /\ \/ /\ Idle /\ size >= 0 /\ writeBuffer # << >>
        /\ \E k \in 0..Len(AtStart) : data' = Written(data, 0, SubSeq(AtStart, 1, k))
     \/ /\ doing = "writing"
        /\ \E k \in 0..Len(AtTail) : data' = Written(data, TailPosition, SubSeq(AtTail, 1, k))
  /\ doing' = "idle"
  /\ UNCHANGED <<metadata, memory, buffer, history>>

(* History: the head that is saved is that of a removal, or a purge, which    *)
(* failed.                                                                    *)
Tears ==
  /\ damaged' = (damaged \/ keyFile.head # head)
  /\ UNCHANGED <<answer, appended, refused, powerLost>>

\* An error in AddToSize: what was saved stays in the write buffer.
AddToSizeAgain ==
  /\ doing = "adding"
  /\ keyFile' = [keyFile EXCEPT !.size = size + Len(writeBuffer)]
  /\ SaveMetadata
  /\ size' = size + Len(writeBuffer)
  /\ doing' = "idle" /\ Tears
  /\ UNCHANGED <<data, maxSize, head, writeBuffer, buffer>>

(* add_to_size: only the size is set in the key file in memory.               *)
AddToSize ==
  /\ doing = "adding"
  /\ keyFile' = [keyFile EXCEPT !.size = size + Len(writeBuffer)]
  /\ SaveMetadata
  /\ size' = size + Len(writeBuffer)
  /\ writeBuffer' = << >>
  /\ doing' = "idle" /\ Tears
  /\ UNCHANGED <<data, maxSize, head, buffer>>

AddToSizeFails ==
  /\ doing = "adding"
  /\ keyFile' = [keyFile EXCEPT !.size = size + Len(writeBuffer)]
  /\ SaveMetadataFails
  /\ doing' = "idle"
  /\ UNCHANGED <<data, maxSize, size, head, writeBuffer, buffer, history>>

(* emer_circular_file_read; invalid data ahead are cut off, if saving that    *)
(* succeeds.                                                                  *)
ReadUpTo(limit) == Reading(data, maxSize, head, size, limit)

Read(limit) ==
  LET got == ReadUpTo(limit)
  IN /\ Idle /\ size > 0
     /\ got.ended \notin {"short", "garbage"}
     /\ answer' = got.elems
     /\ \/ /\ got.ended # "invalid"
           /\ UNCHANGED <<metadata, keyFile, size, head>>
        \/ got.ended = "invalid" /\ SetMetadata(got.cells, head)
        \/ /\ got.ended = "invalid" /\ "metadata" \in Faults
           /\ SetMetadataFails(got.cells, head)
     /\ UNCHANGED <<data, maxSize, writeBuffer, doing, buffer, appended, refused,
                 powerLost, damaged>>

(* emer_circular_file_remove, with the token of the last read, which is the   *)
(* number of cells it read.  It may be more than the size if the metadata are *)
(* damaged.  The size, which is unsigned, then wraps round: here it is        *)
(* negative, and it is not modelled that the code goes on to read or save, but*)
(* that the file is not accepted any more.                                    *)
Token == SumFunction([i \in DOMAIN answer |-> HeaderCells + answer[i][2]])

RemoveRead ==
  /\ Idle /\ Token # 0
  /\ \/ /\ SetMetadata(size - Token, After(head, Token, maxSize))
        /\ answer' = << >>
     \/ /\ "remove" \in Faults
        /\ SetMetadataFails(size - Token, After(head, Token, maxSize))
        /\ UNCHANGED answer
  /\ UNCHANGED <<data, maxSize, writeBuffer, doing, buffer, appended, refused,
                 powerLost, damaged>>

\* An error in Purge: a token from before stays valid.
PurgeKeepsToken ==
  /\ Idle /\ size # 0
  /\ SetMetadata(0, 0)
  /\ UNCHANGED <<data, maxSize, writeBuffer, doing, buffer, history>>

(* emer_circular_file_purge                                                   *)
Purge ==
  /\ Idle /\ size # 0
  /\ \/ SetMetadata(0, 0) /\ answer' = << >>
     \/ /\ "remove" \in Faults /\ SetMetadataFails(0, 0)
        /\ UNCHANGED answer
  /\ UNCHANGED <<data, maxSize, writeBuffer, doing, buffer, appended, refused,
                 powerLost, damaged>>

-----------------------------------------------------------------------------
(* The outside *)

(* The object is freed, or the process dies, between two of its disk accesses *)
(* or in one that fails for that.                                             *)
Quit ==
  /\ Idle \/ (doing # "closed" /\ "kill" \in Faults)
  /\ Closed
  /\ UNCHANGED <<files, appended, refused, powerLost, damaged>>

(* Power is lost, and with it what the kernel had not written of the cells    *)
(* saved last: nothing waits for that.  Once in a run.                        *)
PowerLoss ==
  /\ "power" \in Faults /\ ~powerLost
  /\ doing \notin {"resizing", "replacing", "refilling"}
  /\ \E kept \in 0 .. metadata.size - 1 :
       LET lost == {After(metadata.head, i, metadata.maxSize) + 1 :
                     i \in kept .. metadata.size - 1}
       IN data' = [p \in DOMAIN data |-> IF p \in lost THEN Zero ELSE data[p]]
  /\ powerLost' = TRUE
  /\ Closed
  /\ UNCHANGED <<metadata, appended, refused, damaged>>

(* The metadata file is empty after a crash.                                  *)
LoseMetadata ==
  /\ "corrupt" \in Faults /\ doing = "closed"
  /\ metadata' = NoMetadata
  /\ UNCHANGED <<data, memory, doing, buffer, history>>

-----------------------------------------------------------------------------
Init ==
  /\ data = << >> /\ metadata = NoMetadata
  /\ keyFile = NoMetadata /\ maxSize = 0 /\ size = 0 /\ head = 0
  /\ writeBuffer = << >> /\ buffer = << >>
  /\ doing = "closed"
  /\ answer = << >> /\ appended = 0 /\ refused = FALSE /\ powerLost = FALSE
  /\ damaged = FALSE

Next ==
  \/ \E limit \in Limits : Initialize(limit) \/ RefuseMetadata(limit) \/ Load(limit)
  \/ OverwriteEmpties \/ OverwriteReplaces \/ OverwriteRefills \/ OpenFails
  \/ \E n \in Lengths : AppendElement(n)
  \/ WriteStart \/ WriteTail \/ WriteFails \/ AddToSize \/ AddToSizeFails
  \/ \E limit \in 0..maxSize : Read(limit)
  \/ RemoveRead \/ Purge
  \/ Quit \/ PowerLoss \/ LoseMetadata

Spec == Init /\ [][Next]_vars

-----------------------------------------------------------------------------
(* The FIFO this implements *)

(* What would be read now, or once the file has been opened.                  *)
Refilling == doing \in {"replacing", "refilling"}
Readable ==
  CASE doing \in {"closed", "resizing"} ->
         Reading(data, metadata.maxSize, metadata.head, metadata.size, metadata.size)
    [] Refilling -> Reading(buffer, Len(buffer), 0, Len(buffer), Len(buffer))
    [] OTHER     -> ReadUpTo(size)

Pending == Reading(writeBuffer, Len(writeBuffer), 0, Len(writeBuffer),
                   Len(writeBuffer)).elems

Fifo == INSTANCE EmerFifo WITH
  Elements <- (1..MaxElements) \X Lengths,
  status   <- CASE doing = "closed" -> "closed"
                [] doing = "resizing" -> "opening"
                [] Refilling -> "cut"
                [] OTHER -> "open",
  limit    <- maxSize,
  saved    <- Readable.elems,
  pending  <- Pending,
  read     <- answer,
  tainted  <- Readable.ended = "invalid"

(* What is saved, removed, purged, and kept over failures, restarts, resizing *)
(* and power losses is what a bounded FIFO keeps, element for element.        *)
IsFifo == Fifo!Spec

-----------------------------------------------------------------------------
(* Properties *)

Metadata == [exists : BOOLEAN, maxSize : Nat, size : Nat, head : Nat]

TypeOK ==
  /\ data \in Seq(Cell) /\ metadata \in Metadata
  /\ keyFile \in Metadata /\ maxSize \in Nat /\ size \in Nat /\ head \in Nat
  /\ writeBuffer \in Seq(Cell) /\ buffer \in Seq(Cell)
  /\ doing \in {"closed", "idle", "resizing", "replacing", "refilling",
                "writing", "adding"}
  /\ answer \in Seq((0..MaxElements) \X Nat)
  /\ appended \in 0..MaxElements /\ refused \in BOOLEAN /\ powerLost \in BOOLEAN
  /\ damaged \in BOOLEAN

(* Only what has been saved is read, whole: reading never runs into cells that*)
(* are not a record, whatever failed or was interrupted before.  If power was *)
(* lost, it ends where contents, then a length, are missing.                  *)
OnlySavedIsRead ==
  doing # "closed" =>
    /\ Readable.ended = "all" \/ (powerLost /\ Readable.ended = "invalid")
    /\ \A i \in DOMAIN Readable.elems : powerLost \/ Readable.elems[i][1] # 0

(* A file that was closed, or left by a crash, can be opened again, with any  *)
(* maximum size, unless it was given no room at all: the head, zero, is then  *)
(* outside of the file (see OpensAgainWithoutRoom).                           *)
OpensAgain == refused /\ metadata.exists => metadata.maxSize = 0

(* The data file does not outgrow the maximum size of its metadata, over which*)
(* reading does not wrap.                                                     *)
PhysicalSizeLimited == metadata.exists => Len(data) <= metadata.maxSize

(* Whatever fails or is lost does no harm by itself: the file opens, is not   *)
(* too long, only what was saved is read, and no token exceeds the size, from *)
(* which it is subtracted.  Two things do harm: a save after a removal, or a  *)
(* purge, that failed (see EmerCircularFile_removal.cfg), and that the file is*)
(* reinitialized with less room (see EmerCircularFile_reinitialized.cfg).     *)
HarmlessUntilDamaged ==
  damaged \/ (OpensAgain /\ PhysicalSizeLimited /\ OnlySavedIsRead /\ Token <= size)

(* "The maximum size" may be any number: refuted with zero.                   *)
OpensAgainWithoutRoom == ~refused
=============================================================================
