----------------------- MODULE EmerCircularFile_proofs -----------------------
(* EmerCircularFile keeps its promises until the metadata are damaged, and if *)
(* nothing damages them (see MetadataKept) always, and implements EmerFifo.   *)
(* The inductive invariant says of three rigid values, some saved elements,   *)
(* some pending ones, and whether zeroed cells are behind the saved ones, that*)
(* the files and the buffers hold their records; each step is shown to take   *)
(* them where the FIFO takes them.                                            *)
EXTENDS EmerCircularFileCells_proofs

-----------------------------------------------------------------------------
(* The invariant *)

\* Phases in which calls are served.
Open == doing \in {"idle", "writing", "adding"}

\* The cells that hold what was saved, and where those that are being saved go.
SavedCells ==
  IF Refilling THEN buffer
  ELSE RingOf(data, metadata.maxSize, metadata.head, metadata.size)
TailCells  == Smaller(Len(writeBuffer), maxSize - After(head, size, maxSize))
StartCells == Len(writeBuffer) - TailCells

FilesOK ==
  /\ metadata.exists => Geometry(data, metadata.maxSize, metadata.head, metadata.size)
  /\ ~metadata.exists => metadata = NoMetadata
  /\ refused => doing = "closed" /\ metadata.maxSize = 0

ClosedOK ==
  doing = "closed" =>
    /\ keyFile = NoMetadata /\ maxSize = 0 /\ size = 0 /\ head = 0
    /\ writeBuffer = << >> /\ buffer = << >> /\ answer = << >>

OpenOK ==
  Open =>
    /\ metadata = [exists |-> TRUE, maxSize |-> maxSize, size |-> size, head |-> head]
    /\ keyFile.exists /\ keyFile.maxSize = maxSize
    /\ size + Len(writeBuffer) <= maxSize
    /\ buffer = << >>

ResizingOK ==
  doing = "resizing" =>
    /\ metadata.exists /\ keyFile = metadata /\ size = metadata.size /\ head = metadata.head
    /\ writeBuffer = << >> /\ answer = << >>
    /\ LET cells == Ring(data, metadata, Smaller(metadata.size, maxSize))
       IN  buffer = SubSeq(cells, 1, TrimmedSize(cells))

RefillingOK ==
  Refilling =>
    /\ metadata.exists /\ keyFile = metadata
    /\ size = 0 /\ head = 0 /\ metadata.size = 0 /\ metadata.head = 0
    /\ maxSize <= metadata.maxSize /\ Len(buffer) <= maxSize
    /\ writeBuffer = << >> /\ answer = << >>
    /\ doing = "refilling" => data = buffer

SavingOK ==
  /\ doing = "writing" =>
       /\ StartCells <= Len(data)
       /\ \A x \in 1..StartCells : data[x] = writeBuffer[TailCells + x]
  /\ doing = "adding" =>
       /\ Geometry(data, maxSize, head, size + Len(writeBuffer))
       /\ RingOf(data, maxSize, head, size + Len(writeBuffer))
            = RingOf(data, maxSize, head, size) \o writeBuffer

Shape == FilesOK /\ ClosedOK /\ OpenOK /\ ResizingOK /\ RefillingOK /\ SavingOK

\* These elements are saved, and those appended; behind them is what was zeroed.
Holds(elems, pend, tainted) ==
  /\ elems \in Seq(Element) /\ pend \in Seq(Element) /\ tainted \in BOOLEAN
  /\ Contents(SavedCells, elems, tainted)
  /\ Contents(writeBuffer, pend, FALSE)
  /\ \E k \in 0..Len(elems) : answer = First(elems, k)
  /\ \A i \in 1..Len(pend) : pend[i][1] # 0
  /\ powerLost \/ (~tainted /\ \A i \in 1..Len(elems) : elems[i][1] # 0)

Inv(elems, pend, tainted) == TypeOK /\ Shape /\ Holds(elems, pend, tainted)

-----------------------------------------------------------------------------
(* Opening *)

\* No cells can be read of no file.
LEMMA RingOfNothing ==
  ASSUME NEW max \in Nat
  PROVE  Geometry(<< >>, max, 0, 0) /\ RingOf(<< >>, max, 0, 0) = << >>
<1>1. \A z, from, room : z = << >> /\ from = 0 /\ room = 0 =>
        Geometry(z, max, from, room) /\ RingOf(z, max, from, room) = << >>
  <2> SUFFICES ASSUME NEW z, NEW from, NEW room, z = << >>, from = 0, room = 0
               PROVE  Geometry(z, max, from, room) /\ RingOf(z, max, from, room) = << >>
    OBVIOUS
  <2>1. z \in Seq(Cell) /\ Len(z) = 0
    BY EmptySeq
  <2>2. Len(z) <= max
    BY <2>1
  <2> QED
    BY <2>1, <2>2, RingEmpty
<1> QED
  BY <1>1

\* Nor with no room for any.
LEMMA RingOfNone == \A file, max, from : RingOf(file, max, from, 0) = << >>
BY DEF RingOf

\* The invariant holds initially, of nothing.
LEMMA InitInv ==
  ASSUME Init
  PROVE  Inv(<< >>, << >>, FALSE)
<1>1. << >> \in Seq(Cell) /\ << >> \in Seq(Element) /\ Len(<< >>) = 0
      /\ << >> \in Seq((0..MaxElements) \X Nat)
  BY EmptySeq
<1>2. Geometry(<< >>, 0, 0, 0) /\ RingOf(<< >>, 0, 0, 0) = << >>
  BY RingOfNothing
<1>3. TypeOK
  <2>1. NoMetadata \in Metadata
    BY DEF NoMetadata, Metadata
  <2>2. 0 \in 0..MaxElements
    BY CircularFileAssumption
  <2> QED
    BY <1>1, <2>1, <2>2 DEF Init, TypeOK
<1>4. Shape
  BY <1>2 DEF Init, Shape, FilesOK, ClosedOK, OpenOK, ResizingOK, RefillingOK, SavingOK,
              NoMetadata, Open, Refilling
<1>5. Holds(<< >>, << >>, FALSE)
  <2>1. SavedCells = << >>
    BY <1>2 DEF Init, NoMetadata, SavedCells, Refilling
  <2>2. \E k \in 0..Len(<< >>) : << >> = First(<< >>, k)
    <3>1. First(<< >>, 0) = << >>
      BY SubSeqEmpty DEF First
    <3> QED
      BY <1>1, <3>1
  <2>3. \A i \in 1..Len(<< >>) : << >>[i][1] # 0
    BY <1>1
  <2>4. Contents(<< >>, << >>, FALSE)
    BY NoContents
  <2> QED
    BY <1>1, <2>1, <2>2, <2>3, <2>4 DEF Init, Holds
<1> QED
  BY <1>3, <1>4, <1>5 DEF Inv

\* The cells and the elements stay while nothing of them changes.
LEMMA HoldsStays ==
  ASSUME NEW elems, NEW pend, NEW tainted, Holds(elems, pend, tainted),
         SavedCells' = SavedCells, UNCHANGED <<writeBuffer, answer, powerLost>>
  PROVE  Holds(elems, pend, tainted)'
BY DEF Holds

\* A new file is empty, as the one that was not there, whatever is left of its data.
LEMMA InitializeStep ==
  ASSUME NEW elems, NEW pend, NEW tainted, Inv(elems, pend, tainted),
         NEW limit \in Limits, Initialize(limit), ~damaged'
  PROVE  Inv(elems, pend, tainted)'
<1>1. /\ TypeOK /\ Shape /\ Holds(elems, pend, tainted) /\ limit \in Nat
      /\ doing = "closed" /\ metadata = NoMetadata /\ data \in Seq(Cell)
      /\ writeBuffer = << >> /\ buffer = << >> /\ size = 0 /\ head = 0
      /\ damaged' = FALSE /\ Len(data) \in Nat /\ Len(data) <= limit
  <2>1. /\ TypeOK /\ Shape /\ Holds(elems, pend, tainted) /\ limit \in Nat
        /\ doing = "closed" /\ metadata = NoMetadata /\ data \in Seq(Cell)
        /\ writeBuffer = << >> /\ buffer = << >> /\ size = 0 /\ head = 0
    BY CircularFileAssumption DEF Inv, TypeOK, Shape, FilesOK, ClosedOK, Initialize
  <2>2. Len(data) \in Nat
    BY <2>1, LenProperties
  <2>3. ~(damaged \/ Len(data) > limit) /\ damaged' = FALSE
    BY DEF Initialize
  <2>4. Len(data) <= limit
    BY <2>1, <2>2, <2>3
  <2> QED
    BY <2>1, <2>2, <2>3, <2>4
<1>2. << >> \in Seq(Cell) /\ Len(<< >>) = 0
  BY EmptySeq
<1>3. TypeOK'
  BY <1>1 DEF TypeOK, Initialize, SaveMetadata, Metadata
<1>4. \A z : z = 0 => Geometry(data, limit, z, z) /\ RingOf(data, limit, z, z) = << >>
  <2> SUFFICES ASSUME NEW z, z = 0
               PROVE  Geometry(data, limit, z, z) /\ RingOf(data, limit, z, z) = << >>
    OBVIOUS
  <2> QED
    BY <1>1, RingEmpty
<1>5. RingOf(data, 0, 0, 0) = << >>
  BY RingOfNone
<1>6. Shape'
  <2>1. Geometry(data, limit, 0, 0)
    BY <1>4
  <2> QED
    BY <1>1, <1>2, <2>1 DEF Initialize, SaveMetadata, Shape, FilesOK, ClosedOK, OpenOK,
                            ResizingOK, RefillingOK, SavingOK, Open, Refilling
<1>7. SavedCells = << >> /\ SavedCells' = << >>
  <2>1. RingOf(data, limit, 0, 0) = << >>
    BY <1>4
  <2> QED
    BY <1>1, <1>5, <2>1 DEF Initialize, SaveMetadata, NoMetadata, SavedCells, Refilling
<1>8. Holds(elems, pend, tainted)'
  BY <1>1, <1>7, HoldsStays DEF Initialize
<1> QED
  BY <1>3, <1>6, <1>8 DEF Inv

\* Without metadata nothing is saved.
LEMMA LoseMetadataStep ==
  ASSUME NEW elems, NEW pend, NEW tainted, Inv(elems, pend, tainted), LoseMetadata
  PROVE  Inv(<< >>, pend, FALSE)'
<1>1. /\ TypeOK /\ Shape /\ Holds(elems, pend, tainted)
      /\ doing = "closed" /\ metadata' = NoMetadata /\ answer = << >>
      /\ UNCHANGED <<data, keyFile, maxSize, size, head, writeBuffer, doing, buffer,
                     answer, appended, refused, powerLost, damaged>>
  BY DEF Inv, Shape, ClosedOK, LoseMetadata, memory, history
<1>2. /\ NoMetadata \in Metadata /\ ~NoMetadata.exists /\ NoMetadata.maxSize = 0
      /\ NoMetadata.head = 0 /\ NoMetadata.size = 0
  BY DEF NoMetadata, Metadata
<1>3. TypeOK'
  BY <1>1, <1>2 DEF TypeOK
<1>4. Shape'
  BY <1>1, <1>2 DEF Shape, FilesOK, ClosedOK, OpenOK, ResizingOK, RefillingOK, SavingOK,
                    Open, Refilling
<1>5. SavedCells' = << >>
  <2>1. RingOf(data, 0, 0, 0) = << >>
    BY RingOfNone
  <2> QED
    BY <1>1, <1>2, <2>1 DEF SavedCells, Refilling
<1>6. Holds(<< >>, pend, FALSE)'
  <2>1. << >> \in Seq(Element) /\ Len(<< >>) = 0
    BY EmptySeq
  <2>2. \E k \in 0..Len(<< >>) : << >> = First(<< >>, k)
    <3>1. First(<< >>, 0) = << >>
      BY SubSeqEmpty DEF First
    <3> QED
      BY <2>1, <3>1
  <2>3. Contents(<< >>, << >>, FALSE)
    BY NoContents
  <2>4. \A i \in 1..Len(<< >>) : << >>[i][1] # 0
    BY <2>1
  <2> QED
    BY <1>1, <1>5, <2>1, <2>2, <2>3, <2>4 DEF Holds
<1> QED
  BY <1>3, <1>4, <1>6 DEF Inv

\* Refusing to open a file does not change it.
LEMMA RefuseStep ==
  ASSUME NEW elems, NEW pend, NEW tainted, Inv(elems, pend, tainted),
         NEW limit \in Limits, RefuseMetadata(limit)
  PROVE  Inv(elems, pend, tainted)'
<1>1. /\ TypeOK /\ Shape /\ Holds(elems, pend, tainted)
      /\ doing = "closed" /\ metadata.exists /\ ~Valid(metadata) /\ refused' = TRUE
      /\ UNCHANGED <<data, metadata, keyFile, maxSize, size, head, writeBuffer, doing, buffer,
                     answer, appended, powerLost, damaged>>
  BY DEF Inv, RefuseMetadata, files, memory
<1>2. metadata.maxSize = 0
  BY <1>1 DEF Valid, Shape, FilesOK, Geometry
<1>3. TypeOK'
  BY <1>1 DEF TypeOK
<1>4. Shape'
  BY <1>1, <1>2 DEF Shape, FilesOK, ClosedOK, OpenOK, ResizingOK, RefillingOK, SavingOK,
                    Open, Refilling
<1>5. Holds(elems, pend, tainted)'
  <2>1. SavedCells' = SavedCells
    BY <1>1 DEF SavedCells, Refilling
  <2> QED
    BY <1>1, <2>1, HoldsStays
<1> QED
  BY <1>3, <1>4, <1>5 DEF Inv

\* Loading the metadata, and reading what is to be kept, does not change the file.
LEMMA LoadStep ==
  ASSUME NEW elems, NEW pend, NEW tainted, Inv(elems, pend, tainted),
         NEW limit \in Limits, Load(limit)
  PROVE  Inv(elems, pend, tainted)'
<1> DEFINE n == Smaller(metadata.size, limit)
           cells == Ring(data, metadata, n)
           ring == RingOf(data, metadata.maxSize, metadata.head, metadata.size)
<1>1. /\ TypeOK /\ Shape /\ Holds(elems, pend, tainted) /\ limit \in Nat
      /\ doing = "closed" /\ metadata.exists /\ metadata \in Metadata
      /\ Geometry(data, metadata.maxSize, metadata.head, metadata.size)
      /\ writeBuffer = << >> /\ buffer = << >> /\ answer = << >>
      /\ keyFile' = metadata /\ maxSize' = limit
      /\ size' = metadata.size /\ head' = metadata.head /\ refused' = FALSE
      /\ UNCHANGED <<data, metadata, writeBuffer, answer, appended, powerLost, damaged>>
  BY CircularFileAssumption DEF Inv, Shape, FilesOK, ClosedOK, Load, TypeOK, files
<1>2. \/ metadata.maxSize = limit /\ doing' = "idle" /\ buffer' = buffer
      \/ /\ metadata.maxSize # limit /\ doing' = "resizing"
         /\ buffer' = SubSeq(cells, 1, TrimmedSize(cells))
  BY DEF Load
<1>3. SavedCells = ring /\ SavedCells' = ring
  BY <1>1, <1>2 DEF SavedCells, Refilling
<1>4. n \in Nat /\ n \in 0..metadata.size /\ metadata.size \in Nat
  BY <1>1 DEF Smaller, Metadata
<1>5. ring \in Seq(Cell) /\ Len(ring) = metadata.size
  BY <1>1, RingFacts
<1>6. cells = First(ring, n)
  <2> HIDE DEF n
  <2> QED
    BY <1>1, <1>4, RingRead
<1>7. SubSeq(cells, 1, TrimmedSize(cells)) \in Seq(Cell)
  <2>1. elems \in Seq(Element) /\ tainted \in BOOLEAN /\ Contents(ring, elems, tainted)
    BY <1>1, <1>3 DEF Holds
  <2> HIDE DEF n, ring
  <2>2. HeaderCells \in Nat /\ n \in 0..Len(ring)
    BY <1>4, <1>5, CircularFileAssumption
  <2>3. PICK k \in 0..Len(elems) : Most(elems, HeaderCells, n, k)
    BY <1>4, <2>1, <2>2, MostExists
  <2>4. SubSeq(First(ring, n), 1, TrimmedSize(First(ring, n))) \in Seq(Cell)
    BY <1>5, <2>1, <2>2, <2>3, TrimmedContents
  <2> QED
    BY <1>6, <2>4
<1> HIDE DEF ring
<1>8. TypeOK'
  <2>1. buffer' \in Seq(Cell)
    BY <1>1, <1>2, <1>7 DEF TypeOK
  <2>2. maxSize' \in Nat /\ size' \in Nat /\ head' \in Nat /\ keyFile' \in Metadata
    BY <1>1, <1>4 DEF Metadata
  <2>3. doing' \in {"idle", "resizing"} /\ refused' \in BOOLEAN
    BY <1>1, <1>2
  <2> QED
    BY <1>1, <2>1, <2>2, <2>3 DEF TypeOK
<1>9. Shape'
  <2>1. FilesOK' /\ ClosedOK' /\ RefillingOK' /\ SavingOK'
    BY <1>1, <1>2 DEF Shape, FilesOK, ClosedOK, RefillingOK, SavingOK, Refilling
  <2>2. OpenOK'
    <3>1. CASE doing' = "idle"
      <4>1. metadata.maxSize = limit /\ buffer' = buffer /\ metadata.size <= metadata.maxSize
            /\ Len(<< >>) = 0
        BY <1>1, <1>2, <3>1, EmptySeq DEF Geometry
      <4>2. metadata = [exists |-> TRUE, maxSize |-> metadata.maxSize, size |-> metadata.size,
                        head |-> metadata.head]
        BY <1>1 DEF Metadata
      <4>3. size' + Len(writeBuffer') <= maxSize'
        BY <1>1, <1>4, <4>1
      <4> QED
        BY <1>1, <4>1, <4>2, <4>3 DEF OpenOK
    <3>2. CASE doing' # "idle"
      BY <1>2, <3>2 DEF OpenOK, Open
    <3> QED
      BY <3>1, <3>2
  <2>3. ResizingOK'
    BY <1>1, <1>2 DEF ResizingOK
  <2> QED
    BY <2>1, <2>2, <2>3 DEF Shape
<1>10. Holds(elems, pend, tainted)'
  BY <1>1, <1>3, HoldsStays
<1> QED
  BY <1>8, <1>9, <1>10 DEF Inv

\* Fewer elements are as well as they were.
LEMMA FewerAreWell ==
  ASSUME NEW elems \in Seq(Element), NEW k \in 0..Len(elems), NEW well,
         well \/ \A i \in 1..Len(elems) : elems[i][1] # 0
  PROVE  /\ well \/ \A i \in 1..Len(First(elems, k)) : First(elems, k)[i][1] # 0
         /\ well \/ \A i \in 1..Len(Rest(elems, k)) : Rest(elems, k)[i][1] # 0
<1>1. Len(elems) \in Nat
  BY LenProperties
<1>2. CASE ~well
  <2>1. Len(First(elems, k)) = k /\ \A i \in 1..k : First(elems, k)[i] = elems[i]
    BY FirstFacts
  <2>2. /\ Len(Rest(elems, k)) = Len(elems) - k
        /\ \A i \in 1..Len(elems) - k : Rest(elems, k)[i] = elems[k + i]
    BY RestFacts
  <2>3. \A i \in 1..k : i \in 1..Len(elems)
    BY <1>1
  <2>4. \A i \in 1..Len(elems) - k : k + i \in 1..Len(elems)
    BY <1>1
  <2> QED
    BY <1>2, <2>1, <2>2, <2>3, <2>4
<1>3. CASE well
  BY <1>3
<1> QED
  BY <1>2, <1>3

\* Making the file logically empty keeps the elements that fit in the buffer.
LEMMA OverwriteEmptiesStep ==
  ASSUME NEW elems, NEW pend, NEW tainted, Inv(elems, pend, tainted), OverwriteEmpties
  PROVE  \E k \in 0..Len(elems), t \in {tainted, FALSE} :
           Most(elems, HeaderCells, maxSize, k) /\ Inv(First(elems, k), pend, t)'
<1> DEFINE n == Smaller(metadata.size, maxSize)
           cells == Ring(data, metadata, n)
           ring == RingOf(data, metadata.maxSize, metadata.head, metadata.size)
<1>1. /\ TypeOK /\ Shape /\ Holds(elems, pend, tainted) /\ doing = "resizing"
      /\ metadata.exists /\ metadata \in Metadata /\ keyFile = metadata /\ maxSize \in Nat
      /\ Geometry(data, metadata.maxSize, metadata.head, metadata.size)
      /\ ~refused /\ writeBuffer = << >> /\ answer = << >> /\ appended \in 0..MaxElements
      /\ powerLost \in BOOLEAN /\ damaged \in BOOLEAN /\ buffer \in Seq(Cell) /\ data \in Seq(Cell)
      /\ buffer = SubSeq(cells, 1, TrimmedSize(cells))
  BY DEF Inv, Shape, FilesOK, ResizingOK, OverwriteEmpties, TypeOK
<1>2. /\ keyFile' = [metadata EXCEPT !.maxSize = Larger(maxSize, metadata.maxSize),
                                     !.size = 0, !.head = 0]
      /\ metadata' = keyFile' /\ size' = 0 /\ head' = 0 /\ doing' = "replacing"
      /\ UNCHANGED <<data, maxSize, writeBuffer, buffer, answer, appended, refused, powerLost, damaged>>
  BY <1>1 DEF OverwriteEmpties, SaveMetadata, history
<1>3. SavedCells = ring /\ SavedCells' = buffer
  BY <1>1, <1>2 DEF SavedCells, Refilling
<1>4. n \in Nat /\ n \in 0..metadata.size /\ metadata.size \in Nat /\ n <= maxSize
      /\ metadata.maxSize \in Nat
  BY <1>1 DEF Smaller, Metadata
<1>5. ring \in Seq(Cell) /\ Len(ring) = metadata.size
  BY <1>1, RingFacts
<1>6. cells = First(ring, n)
  <2> HIDE DEF n
  <2> QED
    BY <1>1, <1>4, RingRead
<1>7. /\ elems \in Seq(Element) /\ pend \in Seq(Element) /\ tainted \in BOOLEAN
      /\ Contents(ring, elems, tainted)
  BY <1>1, <1>3 DEF Holds
<1>8. HeaderCells \in Nat
  BY CircularFileAssumption
<1>9. PICK k \in 0..Len(elems) : Most(elems, HeaderCells, n, k)
  <2> HIDE DEF n
  <2> QED
    BY <1>4, <1>7, <1>8, MostExists
<1>10. Most(elems, HeaderCells, maxSize, k)
  <2>1. ASSUME NEW j \in 0..Len(elems)
        PROVE  Total(First(elems, j), HeaderCells) <= n
                 <=> Total(First(elems, j), HeaderCells) <= maxSize
    <3> HIDE DEF ring
    <3>1. Total(First(elems, j), HeaderCells) \in 0..Len(ring)
      BY <1>5, <1>7, ContentsFirst
    <3> QED
      BY <1>1, <1>4, <1>5, <3>1 DEF Smaller
  <2> HIDE DEF n
  <2> QED
    BY <1>9, <2>1 DEF Most
<1>11. Len(buffer) <= n /\ \E t \in {tainted, FALSE} : Contents(buffer, First(elems, k), t)
  <2> HIDE DEF n, ring
  <2>1. n \in 0..Len(ring)
    BY <1>4, <1>5
  <2>2. LET left == SubSeq(First(ring, n), 1, TrimmedSize(First(ring, n)))
        IN  Len(left) <= n /\ \E t \in {tainted, FALSE} : Contents(left, First(elems, k), t)
    BY <1>5, <1>7, <1>9, <2>1, TrimmedContents
  <2> QED
    BY <1>1, <1>6, <2>2
<1>12. PICK t \in {tainted, FALSE} : Contents(buffer, First(elems, k), t)
  BY <1>11
<1> HIDE DEF ring, cells
<1>13. Len(buffer) \in Nat /\ Len(buffer) <= maxSize
  <2> HIDE DEF n
  <2> QED
    BY <1>1, <1>4, <1>11, LenProperties
<1> HIDE DEF n
<1>l. /\ Larger(maxSize, metadata.maxSize) \in Nat
      /\ maxSize <= Larger(maxSize, metadata.maxSize)
      /\ metadata.maxSize <= Larger(maxSize, metadata.maxSize)
  BY <1>1, <1>4 DEF Larger
<1>14. metadata' = [exists |-> TRUE, maxSize |-> Larger(maxSize, metadata.maxSize),
                    size |-> 0, head |-> 0]
       /\ metadata'.maxSize \in Nat /\ maxSize <= metadata'.maxSize
       /\ metadata.maxSize <= metadata'.maxSize
  <2> DEFINE big == Larger(maxSize, metadata.maxSize)
  <2> HIDE DEF big
  <2>1. metadata' = [exists |-> TRUE, maxSize |-> big, size |-> 0, head |-> 0]
    BY <1>1, <1>2 DEF Metadata, big
  <2> QED
    BY <1>l, <2>1 DEF big
<1>15. TypeOK'
  <2>1. metadata' \in Metadata
    BY <1>14 DEF Metadata
  <2> QED
    BY <1>1, <1>2, <2>1 DEF TypeOK
<1>16. Shape'
  <2>1. Len(data) <= metadata'.maxSize
    <3>1. Len(data) <= metadata.maxSize /\ Len(data) \in Nat
      BY <1>1, LenProperties DEF Geometry
    <3> QED
      BY <1>4, <1>14, <3>1
  <2>2. Geometry(data, metadata'.maxSize, 0, 0)
    BY <1>1, <1>14, <2>1, RingEmpty
  <2>3. FilesOK' /\ ClosedOK' /\ OpenOK' /\ ResizingOK' /\ SavingOK'
    BY <1>1, <1>2, <1>14, <2>2 DEF FilesOK, ClosedOK, OpenOK, ResizingOK, SavingOK, Open
  <2>4. RefillingOK'
    BY <1>1, <1>2, <1>13, <1>14 DEF RefillingOK
  <2> QED
    BY <2>3, <2>4 DEF Shape
<1>17. Holds(First(elems, k), pend, t)'
  <2>1. First(elems, k) \in Seq(Element) /\ Len(First(elems, k)) \in Nat
    BY <1>7, FirstFacts, LenProperties
  <2>2. t \in BOOLEAN /\ (powerLost \/ ~t)
    <3>1. powerLost \/ ~tainted
      BY <1>1 DEF Holds
    <3>2. CASE t = tainted
      BY <1>7, <3>1, <3>2
    <3>3. CASE t = FALSE
      BY <3>3
    <3> QED
      BY <3>2, <3>3
  <2>3. powerLost \/ \A i \in 1..Len(First(elems, k)) : First(elems, k)[i][1] # 0
    <3>1. powerLost \/ \A i \in 1..Len(elems) : elems[i][1] # 0
      BY <1>1 DEF Holds
    <3> QED
      BY <1>7, <3>1, FewerAreWell
  <2>4. << >> = First(First(elems, k), 0) /\ 0 \in 0..Len(First(elems, k))
    BY <2>1, FirstAll
  <2>5. Contents(writeBuffer, pend, FALSE) /\ \A i \in 1..Len(pend) : pend[i][1] # 0
    BY <1>1 DEF Holds
  <2> QED
    BY <1>1, <1>2, <1>3, <1>7, <1>12, <2>1, <2>2, <2>3, <2>4, <2>5 DEF Holds
<1> QED
  BY <1>10, <1>12, <1>15, <1>16, <1>17 DEF Inv

\* Replacing the file, which is logically empty, loses nothing more.
LEMMA OverwriteReplacesStep ==
  ASSUME NEW elems, NEW pend, NEW tainted, Inv(elems, pend, tainted), OverwriteReplaces
  PROVE  Inv(elems, pend, tainted)'
<1>1. /\ TypeOK /\ Shape /\ Holds(elems, pend, tainted) /\ doing = "replacing" /\ ~refused
      /\ metadata.exists /\ metadata.maxSize \in Nat /\ metadata.size = 0 /\ metadata.head = 0
      /\ Len(buffer) <= maxSize /\ maxSize <= metadata.maxSize /\ maxSize \in Nat
      /\ buffer \in Seq(Cell) /\ Len(buffer) \in Nat
      /\ data' = buffer /\ doing' = "refilling"
      /\ UNCHANGED <<metadata, keyFile, maxSize, size, head, writeBuffer, buffer, answer,
                     appended, refused, powerLost, damaged>>
  BY LenProperties DEF Inv, Shape, FilesOK, RefillingOK, Refilling, OverwriteReplaces, TypeOK,
                       Metadata, memory, history
<1>2. TypeOK'
  BY <1>1 DEF TypeOK
<1>3. Len(buffer) <= metadata.maxSize
  BY <1>1
<1>4. Geometry(buffer, metadata.maxSize, 0, 0)
  BY <1>1, <1>3, RingEmpty
<1>5. Shape'
  BY <1>1, <1>4 DEF Shape, FilesOK, ClosedOK, OpenOK, ResizingOK, RefillingOK, SavingOK, Open,
                    Refilling
<1>6. Holds(elems, pend, tainted)'
  <2>1. SavedCells' = SavedCells
    BY <1>1 DEF SavedCells, Refilling
  <2> QED
    BY <1>1, <2>1, HoldsStays
<1> QED
  BY <1>2, <1>5, <1>6 DEF Inv

\* Nor does setting its size to that of the contents it was replaced with.
LEMMA OverwriteRefillsStep ==
  ASSUME NEW elems, NEW pend, NEW tainted, Inv(elems, pend, tainted), OverwriteRefills
  PROVE  Inv(elems, pend, tainted)'
<1> DEFINE n == Len(buffer)
<1>1. /\ TypeOK /\ Shape /\ Holds(elems, pend, tainted) /\ doing = "refilling" /\ ~refused
      /\ metadata.exists /\ keyFile = metadata /\ metadata \in Metadata
      /\ metadata.size = 0 /\ metadata.head = 0 /\ head = 0
      /\ n <= maxSize /\ maxSize <= metadata.maxSize /\ maxSize \in Nat
      /\ buffer \in Seq(Cell) /\ n \in Nat /\ data = buffer
      /\ writeBuffer = << >> /\ answer = << >>
      /\ metadata' = keyFile' /\ size' = n /\ doing' = "idle" /\ buffer' = << >>
      /\ UNCHANGED <<data, maxSize, head, writeBuffer, answer, appended, refused, powerLost, damaged>>
  BY LenProperties DEF Inv, Shape, FilesOK, RefillingOK, Refilling, OverwriteRefills, TypeOK,
                       SaveMetadata, history
<1>2. metadata' = [exists |-> TRUE, maxSize |-> maxSize, size |-> n, head |-> 0]
  <2>1. Smaller(maxSize, metadata.maxSize) = maxSize
    BY <1>1 DEF Metadata, Smaller
  <2>2. keyFile' = [metadata EXCEPT !.maxSize = Smaller(maxSize, metadata.maxSize), !.size = n]
    BY <1>1 DEF OverwriteRefills
  <2> HIDE DEF n
  <2> QED
    BY <1>1, <2>1, <2>2 DEF Metadata
<1> HIDE DEF n
<1>3. Geometry(data, maxSize, 0, n) /\ RingOf(data, maxSize, 0, n) = buffer
  BY <1>1, RingWhole DEF n
<1>4. TypeOK'
  <2>1. metadata' \in Metadata
    BY <1>1, <1>2 DEF Metadata
  <2>2. << >> \in Seq(Cell)
    BY EmptySeq
  <2> QED
    BY <1>1, <2>1, <2>2 DEF TypeOK
<1>5. Shape'
  <2>1. n + Len(<< >>) <= maxSize
    BY <1>1, EmptySeq
  <2>2. OpenOK'
    BY <1>1, <1>2, <2>1 DEF OpenOK
  <2> QED
    BY <1>1, <1>2, <1>3, <2>2 DEF Shape, FilesOK, ClosedOK, ResizingOK, RefillingOK, SavingOK,
                                  Refilling
<1>6. Holds(elems, pend, tainted)'
  <2>1. SavedCells = buffer /\ SavedCells' = buffer
    BY <1>1, <1>2, <1>3 DEF SavedCells, Refilling
  <2> QED
    BY <1>1, <2>1, HoldsStays
<1> QED
  BY <1>4, <1>5, <1>6 DEF Inv

-----------------------------------------------------------------------------
(* Closing *)

\* A file that was closed has what is in it.
LEMMA ClosedIsWell ==
  ASSUME NEW elems \in Seq(Element), NEW tainted \in BOOLEAN, Closed,
         data' \in Seq(Cell), metadata' \in Metadata, appended' \in 0..MaxElements,
         refused' \in BOOLEAN, powerLost' \in BOOLEAN, damaged' \in BOOLEAN,
         metadata.exists', Geometry(data, metadata.maxSize, metadata.head, metadata.size)',
         (refused => metadata.maxSize = 0)',
         Contents(RingOf(data, metadata.maxSize, metadata.head, metadata.size),
                  elems, tainted)',
         (powerLost \/ (~tainted /\ \A i \in 1..Len(elems) : elems[i][1] # 0))'
  PROVE  Inv(elems, << >>, tainted)'
<1>1. /\ << >> \in Seq(Cell) /\ << >> \in Seq(Element) /\ Len(<< >>) = 0
      /\ << >> \in Seq((0..MaxElements) \X Nat) /\ NoMetadata \in Metadata
  BY EmptySeq DEF NoMetadata, Metadata
<1>2. TypeOK'
  BY <1>1 DEF Closed, TypeOK
<1>3. Shape'
  BY <1>1 DEF Closed, Shape, FilesOK, ClosedOK, OpenOK, ResizingOK, RefillingOK, SavingOK, Open,
              Refilling
<1>4. Holds(elems, << >>, tainted)'
  <2>1. SavedCells' = RingOf(data, metadata.maxSize, metadata.head, metadata.size)'
    BY DEF Closed, SavedCells, Refilling
  <2>2. Contents(writeBuffer, << >>, FALSE)'
    BY NoContents DEF Closed
  <2>3. \E k \in 0..Len(elems) : answer' = First(elems, k)
    <3>1. 0 \in 0..Len(elems) /\ First(elems, 0) = << >>
      BY FirstAll, LenProperties
    <3> QED
      BY <3>1 DEF Closed
  <2>4. \A i \in 1..Len(<< >>) : << >>[i][1] # 0
    BY <1>1
  <2> QED
    BY <1>1, <2>1, <2>2, <2>3, <2>4 DEF Holds
<1> QED
  BY <1>2, <1>3, <1>4 DEF Inv

\* What is saved is kept, but while the file is being replaced.
LEMMA CloseStep ==
  ASSUME NEW elems, NEW pend, NEW tainted, Inv(elems, pend, tainted), doing # "closed",
         Closed, UNCHANGED <<files, appended, refused, powerLost, damaged>>
  PROVE  IF Refilling THEN Inv(<< >>, << >>, FALSE)' ELSE Inv(elems, << >>, tainted)'
<1>1. /\ TypeOK /\ Shape /\ Holds(elems, pend, tainted) /\ ~refused
      /\ elems \in Seq(Element) /\ tainted \in BOOLEAN
      /\ data \in Seq(Cell) /\ metadata \in Metadata /\ appended \in 0..MaxElements
      /\ refused \in BOOLEAN /\ powerLost \in BOOLEAN /\ damaged \in BOOLEAN
      /\ metadata.exists
      /\ Geometry(data, metadata.maxSize, metadata.head, metadata.size)
      /\ UNCHANGED <<data, metadata, appended, refused, powerLost, damaged>>
  <2>1. TypeOK /\ Shape /\ Holds(elems, pend, tainted) /\ ~refused
    BY DEF Inv, Shape, FilesOK
  <2>2. metadata.exists
    BY <2>1 DEF TypeOK, Shape, OpenOK, ResizingOK, RefillingOK, Open, Refilling
  <2> QED
    BY <2>1, <2>2 DEF Shape, FilesOK, Holds, TypeOK, files
<1>2. CASE Refilling
  <2>1. metadata.head = 0 /\ metadata.size = 0 /\ metadata.maxSize \in Nat
        /\ Len(data) <= metadata.maxSize
    BY <1>1, <1>2 DEF Shape, RefillingOK, Metadata, Geometry
  <2>2. RingOf(data, metadata.maxSize, metadata.head, metadata.size)' = << >>
    BY <1>1, <2>1, RingEmpty
  <2>3. << >> \in Seq(Element) /\ Len(<< >>) = 0
    BY EmptySeq
  <2>4. Inv(<< >>, << >>, FALSE)'
    <3>1. \A z, t : z = << >> /\ t = FALSE => Inv(z, << >>, t)'
      <4> SUFFICES ASSUME NEW z, NEW t, z = << >>, t = FALSE
                   PROVE  Inv(z, << >>, t)'
        OBVIOUS
      <4>1. Contents(RingOf(data, metadata.maxSize, metadata.head, metadata.size), z, t)'
        BY <2>2, NoContents
      <4>2. z \in Seq(Element) /\ t \in BOOLEAN
        BY <2>3
      <4>3. (powerLost \/ (~t /\ \A i \in 1..Len(z) : z[i][1] # 0))'
        BY <2>3
      <4>4. /\ data' \in Seq(Cell) /\ metadata' \in Metadata /\ appended' \in 0..MaxElements
            /\ refused' \in BOOLEAN /\ powerLost' \in BOOLEAN /\ damaged' \in BOOLEAN
            /\ Geometry(data, metadata.maxSize, metadata.head, metadata.size)'
            /\ metadata.exists'
            /\ (refused => metadata.maxSize = 0)'
        BY <1>1
      <4> QED
        BY <4>1, <4>2, <4>3, <4>4, ClosedIsWell
    <3> QED
      BY <3>1
  <2> QED
    BY <1>2, <2>4
<1>3. CASE ~Refilling
  <2>1. Contents(RingOf(data, metadata.maxSize, metadata.head, metadata.size),
                 elems, tainted)'
    BY <1>1, <1>3 DEF Holds, SavedCells
  <2>2. (powerLost \/ (~tainted /\ \A i \in 1..Len(elems) : elems[i][1] # 0))'
    BY <1>1 DEF Holds
  <2>3. /\ data' \in Seq(Cell) /\ metadata' \in Metadata /\ appended' \in 0..MaxElements
        /\ refused' \in BOOLEAN /\ powerLost' \in BOOLEAN /\ damaged' \in BOOLEAN
        /\ Geometry(data, metadata.maxSize, metadata.head, metadata.size)'
        /\ metadata.exists'
        /\ (refused => metadata.maxSize = 0)'
    BY <1>1
  <2>4. Inv(elems, << >>, tainted)'
    BY <1>1, <2>1, <2>2, <2>3, ClosedIsWell
  <2> QED
    BY <1>3, <2>4
<1> QED
  BY <1>2, <1>3

\* A power loss keeps what comes before the cells that were lost.
LEMMA PowerLossStep ==
  ASSUME NEW elems, NEW pend, NEW tainted, Inv(elems, pend, tainted), PowerLoss
  PROVE  \E k \in 0..Len(elems), kept \in Seq(Element), t \in BOOLEAN :
           Survivors(kept, elems, k) /\ Inv(kept, << >>, t)'
<1> DEFINE max  == metadata.maxSize
           from == metadata.head
           room == metadata.size
           ring == RingOf(data, max, from, room)
           after == RingOf(data', max, from, room)
<1>1. /\ TypeOK /\ Shape /\ Holds(elems, pend, tainted) /\ ~Refilling
      /\ elems \in Seq(Element) /\ tainted \in BOOLEAN /\ damaged \in BOOLEAN
      /\ metadata \in Metadata /\ appended \in 0..MaxElements /\ refused \in BOOLEAN
      /\ metadata.exists => Geometry(data, metadata.maxSize, metadata.head, metadata.size)
      /\ ~metadata.exists => metadata = NoMetadata
      /\ refused => metadata.maxSize = 0
      /\ Closed /\ powerLost' = TRUE /\ UNCHANGED <<metadata, appended, refused, damaged>>
  BY DEF Inv, Shape, FilesOK, Holds, TypeOK, PowerLoss, Refilling
<1>2. PICK keep \in 0..metadata.size - 1 :
        LET lost == {After(metadata.head, i, metadata.maxSize) + 1 :
                      i \in keep..metadata.size - 1}
        IN  data' = [p \in DOMAIN data |-> IF p \in lost THEN Zero ELSE data[p]]
  BY DEF PowerLoss
<1>3. /\ metadata.exists /\ metadata.size \in Nat
      /\ Geometry(data, metadata.maxSize, metadata.head, metadata.size)
  BY <1>1, <1>2 DEF NoMetadata, Metadata
<1>4. /\ Geometry(data', max, from, room)
      /\ \A i \in 1..room : after[i] = IF i > keep THEN Zero ELSE ring[i]
  <2> DEFINE other == data'
  <2>1. other = Zeroed(data, Lost(max, from, room, keep))
    BY <1>2 DEF Zeroed, Lost
  <2>2. Geometry(data, max, from, room) /\ keep \in 0..room - 1
    BY <1>2, <1>3
  <2> HIDE DEF other, max, from, room
  <2>3. /\ Geometry(other, max, from, room)
        /\ ZeroedFrom(RingOf(other, max, from, room), RingOf(data, max, from, room), room, keep)
    BY <2>1, <2>2, RingZeroed
  <2> QED
    BY <2>3 DEF other, ZeroedFrom
<1>5. ring \in Seq(Cell) /\ Len(ring) = metadata.size
  BY <1>3, RingFacts
<1>6. after \in Seq(Cell) /\ Len(after) = metadata.size
  BY <1>4, RingFacts
<1>7. Contents(ring, elems, tainted)
  BY <1>1 DEF Holds, SavedCells
<1> HIDE DEF ring, after
<1>8. PICK k \in 0..Len(elems), kept \in Seq(Element), t \in BOOLEAN :
        Survivors(kept, elems, k) /\ Contents(after, kept, t)
  <2>1. Len(after) = Len(ring) /\ keep \in 0..Len(ring) - 1
        /\ \A i \in 1..Len(ring) : after[i] = IF i > keep THEN Zero ELSE ring[i]
    BY <1>4, <1>5, <1>6, <1>2
  <2> QED
    BY <1>1, <1>5, <1>6, <1>7, <2>1, ZeroedContents
<1>9. Inv(kept, << >>, t)'
  <2>1. data' \in Seq(Cell) /\ Geometry(data, metadata.maxSize, metadata.head, metadata.size)'
    BY <1>1, <1>4 DEF Geometry
  <2>2. Contents(RingOf(data, metadata.maxSize, metadata.head, metadata.size), kept, t)'
    BY <1>1, <1>8 DEF after
  <2>3. /\ metadata' \in Metadata /\ appended' \in 0..MaxElements
        /\ refused' \in BOOLEAN /\ powerLost' \in BOOLEAN /\ damaged' \in BOOLEAN
        /\ metadata.exists'
        /\ (refused => metadata.maxSize = 0)'
        /\ (powerLost \/ (~t /\ \A i \in 1..Len(kept) : kept[i][1] # 0))'
    BY <1>1, <1>3
  <2> QED
    BY <1>1, <1>8, <2>1, <2>2, <2>3, ClosedIsWell
<1> QED
  BY <1>8, <1>9

-----------------------------------------------------------------------------
(* Appending and saving *)

\* What is known of a file that is open.
OpenFacts(elems, pend, tainted, ring) ==
  /\ TypeOK /\ Shape /\ Holds(elems, pend, tainted) /\ ~refused /\ ~Refilling
  /\ elems \in Seq(Element) /\ pend \in Seq(Element) /\ tainted \in BOOLEAN
  /\ maxSize \in Nat /\ size \in Nat /\ head \in Nat /\ data \in Seq(Cell)
  /\ damaged \in BOOLEAN /\ writeBuffer \in Seq(Cell) /\ Len(writeBuffer) \in Nat
  /\ metadata = [exists |-> TRUE, maxSize |-> maxSize, size |-> size, head |-> head]
  /\ keyFile \in Metadata /\ keyFile.exists /\ keyFile.maxSize = maxSize
  /\ size + Len(writeBuffer) <= maxSize /\ buffer = << >>
  /\ Geometry(data, maxSize, head, size)
  /\ ring = RingOf(data, maxSize, head, size) /\ ring \in Seq(Cell) /\ Len(ring) = size
  /\ SavedCells = ring /\ Contents(ring, elems, tainted) /\ Contents(writeBuffer, pend, FALSE)

\* The invariant says so.
LEMMA WhenOpen ==
  ASSUME NEW elems, NEW pend, NEW tainted, Inv(elems, pend, tainted), Open
  PROVE  OpenFacts(elems, pend, tainted, RingOf(data, maxSize, head, size))
<1> DEFINE ring == RingOf(data, maxSize, head, size)
<1>1. /\ TypeOK /\ Shape /\ Holds(elems, pend, tainted) /\ ~refused /\ ~Refilling
      /\ elems \in Seq(Element) /\ pend \in Seq(Element) /\ tainted \in BOOLEAN
      /\ maxSize \in Nat /\ size \in Nat /\ head \in Nat /\ data \in Seq(Cell)
      /\ damaged \in BOOLEAN /\ writeBuffer \in Seq(Cell) /\ Len(writeBuffer) \in Nat
      /\ metadata = [exists |-> TRUE, maxSize |-> maxSize, size |-> size, head |-> head]
      /\ keyFile \in Metadata /\ keyFile.exists /\ keyFile.maxSize = maxSize
      /\ size + Len(writeBuffer) <= maxSize /\ buffer = << >>
      /\ Contents(SavedCells, elems, tainted) /\ Contents(writeBuffer, pend, FALSE)
  BY LenProperties DEF Inv, Shape, FilesOK, OpenOK, Holds, TypeOK, Open, Refilling
<1>2. Geometry(data, maxSize, head, size)
  BY <1>1 DEF Shape, FilesOK
<1>3. SavedCells = ring
  BY <1>1 DEF SavedCells
<1>4. ring \in Seq(Cell) /\ Len(ring) = size
  BY <1>2, RingFacts
<1> HIDE DEF ring
<1> QED
  BY <1>1, <1>2, <1>3, <1>4 DEF OpenFacts, ring

\* The file stays well if only the data are written, and not over what is read.
LEMMA StillOpen ==
  ASSUME NEW elems, NEW pend, NEW tainted,
         OpenFacts(elems, pend, tainted, RingOf(data, maxSize, head, size)),
         UNCHANGED <<metadata, keyFile, maxSize, size, head, writeBuffer, buffer, answer,
                     appended, refused, powerLost, damaged>>,
         Geometry(data', maxSize, head, size),
         RingOf(data', maxSize, head, size) = RingOf(data, maxSize, head, size),
         doing' \in {"idle", "writing", "adding"}, SavingOK'
  PROVE  Inv(elems, pend, tainted)'
<1> DEFINE ring == RingOf(data, maxSize, head, size)
<1>1. OpenFacts(elems, pend, tainted, ring)
  OBVIOUS
<1> HIDE DEF ring
<1>2. TypeOK'
  BY <1>1 DEF TypeOK, Geometry, OpenFacts
<1>3. Shape'
  BY <1>1 DEF OpenFacts, Shape, FilesOK, ClosedOK, OpenOK, ResizingOK, RefillingOK, Open,
              Refilling
<1>4. Holds(elems, pend, tainted)'
  <2>1. SavedCells' = SavedCells
    BY <1>1 DEF OpenFacts, SavedCells, Refilling, ring
  <2> QED
    BY <1>1, <2>1, HoldsStays DEF OpenFacts
<1> QED
  BY <1>2, <1>3, <1>4 DEF Inv

\* An element that is appended is pending.
LEMMA AppendStep ==
  ASSUME NEW elems, NEW pend, NEW tainted, Inv(elems, pend, tainted),
         NEW n \in Lengths, AppendElement(n), NEW e, e = appended + 1
  PROVE  Inv(elems, Append(pend, <<e, n>>), tainted)'
<1> DEFINE ring == RingOf(data, maxSize, head, size)
           pair == <<e, n>>
           one  == <<pair>>
           rec  == Record(e, n)
           more == Append(pend, pair)
<1>1. OpenFacts(elems, pend, tainted, ring)
  BY WhenOpen DEF Open, AppendElement, Idle
<1>2. e \in 1..MaxElements /\ n \in Nat \ {0}
  BY <1>1, CircularFileAssumption DEF AppendElement, OpenFacts, TypeOK
<1>3. /\ doing = "idle" /\ size + Len(writeBuffer) + HeaderCells + n <= maxSize
      /\ appended' = e /\ writeBuffer' = writeBuffer \o rec
      /\ UNCHANGED <<data, metadata, keyFile, maxSize, size, head, doing, buffer, answer,
                     refused, powerLost, damaged>>
  BY DEF AppendElement, Idle, files
<1>e. MaxElements \in Nat /\ HeaderCells \in Nat
  BY CircularFileAssumption
<1> HIDE DEF ring
<1>4. /\ rec \in Seq(Cell) /\ Len(rec) = HeaderCells + n
      /\ pair \in Element /\ one \in Seq(Element) /\ Contents(rec, one, FALSE)
  BY <1>2, RecordFacts
<1> HIDE DEF rec, pair
<1>5. /\ writeBuffer' \in Seq(Cell)
      /\ Len(writeBuffer') = Len(writeBuffer) + (HeaderCells + n)
  <2>1. writeBuffer \in Seq(Cell)
    BY <1>1 DEF OpenFacts
  <2>2. /\ writeBuffer \o rec \in Seq(Cell)
        /\ Len(writeBuffer \o rec) = Len(writeBuffer) + Len(rec)
    BY <1>4, <2>1, ConcatProperties
  <2> QED
    BY <1>3, <1>4, <2>2
<1>6. /\ more \in Seq(Element) /\ pend \o one = more
      /\ \A i \in 1..Len(pend) : more[i] = pend[i]
      /\ more[Len(pend) + 1] = pair /\ Len(more) = Len(pend) + 1
  <2>1. pend \in Seq(Element) /\ pair \in Element
    BY <1>1, <1>4 DEF OpenFacts
  <2>2. /\ pend \o <<pair>> \in Seq(Element) /\ Len(pend \o <<pair>>) = Len(pend) + 1
        /\ \A i \in 1..Len(pend) : (pend \o <<pair>>)[i] = pend[i]
        /\ (pend \o <<pair>>)[Len(pend) + 1] = pair
        /\ pend \o <<pair>> = Append(pend, pair)
    BY <2>1, ConcatOne
  <2> QED
    BY <2>2
<1> HIDE DEF one, more
<1>7. Contents(writeBuffer', more, FALSE)
  BY <1>1, <1>3, <1>4, <1>6, ContentsConcat DEF OpenFacts
<1>8. TypeOK'
  <2>1. e \in 0..MaxElements
    BY <1>2
  <2> QED
    BY <1>1, <1>3, <1>5, <2>1 DEF OpenFacts, TypeOK
<1>9. Shape'
  <2>1. size + Len(writeBuffer') <= maxSize
    BY <1>1, <1>2, <1>3, <1>5, <1>e DEF OpenFacts
  <2> QED
    BY <1>1, <1>3, <2>1 DEF OpenFacts, Shape, FilesOK, ClosedOK, OpenOK, ResizingOK,
                            RefillingOK, SavingOK, Open, Refilling
<1>10. Holds(elems, more, tainted)'
  <2>1. SavedCells' = SavedCells
    BY <1>3 DEF SavedCells, Refilling
  <2>2. \A i \in 1..Len(more) : more[i][1] # 0
    <3>1. \A i \in 1..Len(pend) : pend[i][1] # 0
      BY <1>1 DEF OpenFacts, Holds
    <3>2. \A i \in 1..Len(more) : i \in 1..Len(pend) \/ i = Len(pend) + 1
      BY <1>1, <1>6, LenProperties DEF OpenFacts
    <3>3. more[Len(pend) + 1][1] # 0
      BY <1>2, <1>6 DEF pair
    <3> QED
      BY <1>6, <3>1, <3>2, <3>3
  <2>3. more \in Seq(Element)
    BY <1>6
  <2>4. /\ elems \in Seq(Element) /\ tainted \in BOOLEAN
        /\ Contents(SavedCells, elems, tainted)
        /\ \E k \in 0..Len(elems) : answer = First(elems, k)
        /\ powerLost \/ (~tainted /\ \A i \in 1..Len(elems) : elems[i][1] # 0)
    BY <1>1 DEF OpenFacts, Holds
  <2>5. /\ Contents(SavedCells, elems, tainted)'
        /\ (\E k \in 0..Len(elems) : answer = First(elems, k))'
        /\ (powerLost \/ (~tainted /\ \A i \in 1..Len(elems) : elems[i][1] # 0))'
    BY <1>3, <2>1, <2>4
  <2>6. Contents(writeBuffer, more, FALSE)'
    BY <1>7
  <2>7. elems \in Seq(Element) /\ tainted \in BOOLEAN
    BY <2>4
  <2> QED
    BY <2>2, <2>3, <2>5, <2>6, <2>7 DEF Holds
<1> QED
  BY <1>8, <1>9, <1>10 DEF Inv, more, pair

\* Where saving writes.
LEMMA SavePlaces ==
  ASSUME NEW elems, NEW pend, NEW tainted, Inv(elems, pend, tainted), Open
  PROVE  /\ TailCells \in 0..Len(writeBuffer)
         /\ TailCells = Smaller(Len(writeBuffer), maxSize - After(head, size, maxSize))
         /\ CellsTail = TailCells /\ TailPosition = After(head, size, maxSize)
         /\ AtStart = Rest(writeBuffer, TailCells)
         /\ AtTail = First(writeBuffer, TailCells)
         /\ Len(AtStart) = Len(writeBuffer) - TailCells /\ Len(AtTail) = TailCells
         /\ AtStart \in Seq(Cell) /\ AtTail \in Seq(Cell)
<1> DEFINE ring == RingOf(data, maxSize, head, size)
           n == Len(writeBuffer)
<1>1. OpenFacts(elems, pend, tainted, ring)
  BY WhenOpen
<1>2. /\ maxSize \in Nat /\ head \in Nat /\ size \in Nat /\ n \in Nat /\ size + n <= maxSize
      /\ (head < maxSize \/ (head = 0 /\ maxSize = 0)) /\ writeBuffer \in Seq(Cell)
  BY <1>1 DEF OpenFacts, Geometry
<1>3. TailCells = Smaller(n, maxSize - After(head, size, maxSize))
  BY DEF TailCells
<1> HIDE DEF ring, n
<1>4. SavePlaced(maxSize, head, size, n, Smaller(n, maxSize - After(head, size, maxSize)),
                 After(head, size, maxSize))
  BY <1>2, SavePlace
<1>5. TailCells \in 0..n
  BY <1>3, <1>4 DEF SavePlaced
<1>6. CellsTail = TailCells /\ TailPosition = After(head, size, maxSize)
  BY DEF CellsTail, TailCells, TailPosition
<1>7. AtStart = Rest(writeBuffer, TailCells) /\ AtTail = First(writeBuffer, TailCells)
  BY <1>6 DEF AtStart, AtTail, Rest, First
<1>8. TailCells \in 0..Len(writeBuffer)
  BY <1>5 DEF n
<1> HIDE DEF TailCells
<1>9. /\ Len(Rest(writeBuffer, TailCells)) = Len(writeBuffer) - TailCells
      /\ Rest(writeBuffer, TailCells) \in Seq(Cell)
      /\ Len(First(writeBuffer, TailCells)) = TailCells
      /\ First(writeBuffer, TailCells) \in Seq(Cell)
  BY <1>2, <1>8, FirstFacts, RestFacts
<1> QED
  BY <1>3, <1>6, <1>7, <1>8, <1>9 DEF n

\* Writing to the start of the file some of what goes there.
LEMMA StartWritten ==
  ASSUME NEW elems, NEW pend, NEW tainted, Inv(elems, pend, tainted), Open,
         NEW j \in 0..Len(AtStart), data' = Written(data, 0, SubSeq(AtStart, 1, j))
  PROVE  /\ Geometry(data', maxSize, head, size)
         /\ RingOf(data', maxSize, head, size) = RingOf(data, maxSize, head, size)
         /\ j <= Len(data') /\ \A x \in 1..j : data'[x] = writeBuffer[TailCells + x]
<1> DEFINE ring == RingOf(data, maxSize, head, size)
           m == TailCells
           cells == writeBuffer
           w == Written(data, 0, First(Rest(cells, m), j))
<1>1. OpenFacts(elems, pend, tainted, ring)
  BY WhenOpen
<1>2. /\ Geometry(data, maxSize, head, size) /\ cells \in Seq(Cell)
      /\ size + Len(cells) <= maxSize
  BY <1>1 DEF OpenFacts
<1>3. /\ m = Smaller(Len(cells), maxSize - After(head, size, maxSize))
      /\ AtStart = Rest(cells, m) /\ j \in 0..Len(cells) - m
  BY SavePlaces
<1>4. data' = w
  BY <1>3 DEF First
<1> HIDE DEF ring, m, cells
<1>5. /\ Geometry(w, maxSize, head, size)
      /\ RingOf(w, maxSize, head, size) = RingOf(data, maxSize, head, size)
      /\ j <= Len(w) /\ \A x \in 1..j : w[x] = cells[m + x]
  BY <1>2, <1>3, SaveStart
<1> HIDE DEF w
<1> QED
  BY <1>4, <1>5 DEF m, cells

\* What is written to the start of the file is not read yet.
LEMMA WriteStartStep ==
  ASSUME NEW elems, NEW pend, NEW tainted, Inv(elems, pend, tainted), WriteStart
  PROVE  Inv(elems, pend, tainted)'
<1> DEFINE ring == RingOf(data, maxSize, head, size)
           j == Len(AtStart)
<1>1. Open
  BY DEF Open, WriteStart, Idle
<1>2. OpenFacts(elems, pend, tainted, ring)
  BY <1>1, WhenOpen
<1>3. AtStart \in Seq(Cell) /\ j = StartCells /\ j \in Nat
  BY <1>1, SavePlaces, LenProperties DEF StartCells
<1>4. data' = Written(data, 0, SubSeq(AtStart, 1, j)) /\ j \in 0..Len(AtStart)
  <2>1. First(AtStart, Len(AtStart)) = AtStart
    BY <1>3, FirstAll
  <2>2. SubSeq(AtStart, 1, j) = AtStart
    BY <2>1 DEF First
  <2>3. data' = Written(data, 0, AtStart)
    BY DEF WriteStart
  <2>4. j \in 0..Len(AtStart)
    BY <1>3
  <2> HIDE DEF j
  <2> QED
    BY <2>2, <2>3, <2>4
<1>5. /\ Geometry(data', maxSize, head, size)
      /\ RingOf(data', maxSize, head, size) = ring
      /\ j <= Len(data') /\ \A x \in 1..j : data'[x] = writeBuffer[TailCells + x]
  BY <1>1, <1>4, StartWritten
<1>6. /\ doing' = "writing"
      /\ UNCHANGED <<metadata, keyFile, maxSize, size, head, writeBuffer, buffer, answer,
                     appended, refused, powerLost, damaged>>
  BY DEF WriteStart, memory, history
<1> HIDE DEF j
<1>7. SavingOK'
  <2>1. StartCells' = StartCells /\ TailCells' = TailCells
    BY <1>6 DEF StartCells, TailCells
  <2> QED
    BY <1>3, <1>5, <1>6, <2>1 DEF SavingOK
<1> QED
  BY <1>2, <1>5, <1>6, <1>7, StillOpen

\* Writing behind what is saved some of what goes there.
LEMMA TailWritten ==
  ASSUME NEW elems, NEW pend, NEW tainted, Inv(elems, pend, tainted), doing = "writing",
         NEW j \in 0..Len(AtTail), data' = Written(data, TailPosition, SubSeq(AtTail, 1, j))
  PROVE  /\ Geometry(data', maxSize, head, size)
         /\ RingOf(data', maxSize, head, size) = RingOf(data, maxSize, head, size)
         /\ j = TailCells =>
              /\ Geometry(data', maxSize, head, size + Len(writeBuffer))
              /\ RingOf(data', maxSize, head, size + Len(writeBuffer))
                   = RingOf(data, maxSize, head, size) \o writeBuffer
<1> DEFINE ring == RingOf(data, maxSize, head, size)
           m == TailCells
           cells == writeBuffer
           w == Written(data, After(head, size, maxSize), First(First(cells, m), j))
<1>o. Open
  BY DEF Open
<1>1. OpenFacts(elems, pend, tainted, ring)
  BY <1>o, WhenOpen
<1>2. /\ Geometry(data, maxSize, head, size) /\ cells \in Seq(Cell)
      /\ size + Len(cells) <= maxSize
  BY <1>1 DEF OpenFacts
<1>3. /\ m = Smaller(Len(cells), maxSize - After(head, size, maxSize))
      /\ AtTail = First(cells, m) /\ j \in 0..m /\ TailPosition = After(head, size, maxSize)
  BY <1>o, SavePlaces
<1>4. data' = w
  BY <1>3 DEF First
<1>5. /\ Len(cells) - m <= Len(data)
      /\ \A x \in 1..Len(cells) - m : data[x] = cells[m + x]
  BY <1>1 DEF OpenFacts, Shape, SavingOK, StartCells
<1> HIDE DEF ring, m, cells
<1>6. /\ Geometry(w, maxSize, head, size)
      /\ RingOf(w, maxSize, head, size) = RingOf(data, maxSize, head, size)
      /\ j = m => /\ Geometry(w, maxSize, head, size + Len(cells))
                  /\ RingOf(w, maxSize, head, size + Len(cells))
                       = RingOf(data, maxSize, head, size) \o cells
  BY <1>2, <1>3, <1>5, SaveTail, SMTT(40)
<1> HIDE DEF w
<1> QED
  BY <1>4, <1>6 DEF m, cells

\* Nor is what is written behind what is saved.
LEMMA WriteTailStep ==
  ASSUME NEW elems, NEW pend, NEW tainted, Inv(elems, pend, tainted), WriteTail
  PROVE  Inv(elems, pend, tainted)'
<1> DEFINE ring == RingOf(data, maxSize, head, size)
           j == Len(AtTail)
<1>1. Open /\ doing = "writing"
  BY DEF Open, WriteTail
<1>2. OpenFacts(elems, pend, tainted, ring)
  BY <1>1, WhenOpen
<1>3. AtTail \in Seq(Cell) /\ j = TailCells /\ j \in Nat
  BY <1>1, SavePlaces, LenProperties
<1>4. data' = Written(data, TailPosition, SubSeq(AtTail, 1, j)) /\ j \in 0..Len(AtTail)
  <2>1. First(AtTail, Len(AtTail)) = AtTail
    BY <1>3, FirstAll
  <2>2. SubSeq(AtTail, 1, j) = AtTail
    BY <2>1 DEF First
  <2>3. data' = Written(data, TailPosition, AtTail)
    BY DEF WriteTail
  <2>4. j \in 0..Len(AtTail)
    BY <1>3
  <2> HIDE DEF j
  <2> QED
    BY <2>2, <2>3, <2>4
<1>5. /\ Geometry(data', maxSize, head, size)
      /\ RingOf(data', maxSize, head, size) = ring
      /\ Geometry(data', maxSize, head, size + Len(writeBuffer))
      /\ RingOf(data', maxSize, head, size + Len(writeBuffer)) = ring \o writeBuffer
  BY <1>1, <1>3, <1>4, TailWritten
<1>6. /\ doing' = "adding"
      /\ UNCHANGED <<metadata, keyFile, maxSize, size, head, writeBuffer, buffer, answer,
                     appended, refused, powerLost, damaged>>
  BY DEF WriteTail, memory, history
<1>7. SavingOK'
  BY <1>5, <1>6 DEF SavingOK
<1> QED
  BY <1>2, <1>5, <1>6, <1>7, StillOpen

\* Nor is what a write that fails has written.
LEMMA WriteFailsStep ==
  ASSUME NEW elems, NEW pend, NEW tainted, Inv(elems, pend, tainted), WriteFails
  PROVE  Inv(elems, pend, tainted)'
<1> DEFINE ring == RingOf(data, maxSize, head, size)
<1>1. Open
  BY DEF Open, WriteFails, Idle
<1>2. OpenFacts(elems, pend, tainted, ring)
  BY <1>1, WhenOpen
<1>3. /\ Geometry(data', maxSize, head, size)
      /\ RingOf(data', maxSize, head, size) = ring
  <2>1. CASE Idle /\ \E k \in 0..Len(AtStart) :
                       data' = Written(data, 0, SubSeq(AtStart, 1, k))
    BY <1>1, <2>1, StartWritten
  <2>2. CASE doing = "writing" /\ \E k \in 0..Len(AtTail) :
                       data' = Written(data, TailPosition, SubSeq(AtTail, 1, k))
    BY <2>2, TailWritten
  <2> QED
    BY <2>1, <2>2 DEF WriteFails
<1>4. /\ doing' = "idle"
      /\ UNCHANGED <<metadata, keyFile, maxSize, size, head, writeBuffer, buffer, answer,
                     appended, refused, powerLost, damaged>>
  BY DEF WriteFails, memory, history
<1>5. SavingOK'
  BY <1>4 DEF SavingOK
<1> QED
  BY <1>2, <1>3, <1>4, <1>5, StillOpen

\* The size is not saved: the key file has it, the metadata do not.
LEMMA AddToSizeFailsStep ==
  ASSUME NEW elems, NEW pend, NEW tainted, Inv(elems, pend, tainted), AddToSizeFails
  PROVE  Inv(elems, pend, tainted)'
<1> DEFINE ring == RingOf(data, maxSize, head, size)
           n == size + Len(writeBuffer)
<1>1. OpenFacts(elems, pend, tainted, ring)
  BY WhenOpen DEF Open, AddToSizeFails
<1>2. /\ doing' = "idle"
      /\ UNCHANGED <<data, metadata, maxSize, size, head, writeBuffer, buffer, answer,
                     appended, refused, powerLost, damaged>>
  BY DEF AddToSizeFails, SaveMetadataFails, history
<1>3. n \in Nat
  BY <1>1 DEF OpenFacts
<1>4. keyFile' = [keyFile EXCEPT !.size = n]
  BY DEF AddToSizeFails
<1> HIDE DEF ring, n
<1>5. /\ keyFile' \in Metadata /\ keyFile'.exists /\ keyFile'.maxSize = maxSize
  BY <1>1, <1>3, <1>4 DEF OpenFacts, Metadata
<1>6. TypeOK'
  BY <1>1, <1>2, <1>5 DEF OpenFacts, TypeOK
<1>7. Shape'
  BY <1>1, <1>2, <1>5 DEF OpenFacts, Shape, FilesOK, ClosedOK, OpenOK, ResizingOK, RefillingOK,
                          SavingOK, Open, Refilling
<1>8. Holds(elems, pend, tainted)'
  <2>1. SavedCells' = SavedCells
    BY <1>1, <1>2 DEF OpenFacts, SavedCells, Refilling
  <2> QED
    BY <1>1, <1>2, <2>1, HoldsStays DEF OpenFacts
<1> QED
  BY <1>6, <1>7, <1>8 DEF Inv

\* What has been read is of the type of the answers.
LEMMA AnswerType ==
  ASSUME NEW s \in Seq(Element)
  PROVE  s \in Seq((0..MaxElements) \X Nat)
<1>1. Len(s) \in Nat /\ s \in [1..Len(s) -> Element]
  BY LenProperties
<1>2. \A i \in 1..Len(s) : s[i] \in (0..MaxElements) \X Nat
  BY <1>1 DEF Element
<1>3. s \in [1..Len(s) -> (0..MaxElements) \X Nat]
  BY <1>1, <1>2
<1> QED
  BY <1>1, <1>3, FunctionIsSeq

\* A call that sets the metadata or the key file leaves the file well if they tell where what is saved is.
LEMMA KeyFileSet ==
  ASSUME NEW elems, NEW pend, NEW tainted,
         OpenFacts(elems, pend, tainted, RingOf(data, maxSize, head, size)),
         NEW newSize \in Nat, NEW newHead \in Nat, NEW left \in Seq(Element),
         NEW still \in Seq(Element), NEW t \in BOOLEAN, NEW k \in 0..Len(left),
         metadata' = [exists |-> TRUE, maxSize |-> maxSize, size |-> newSize,
                      head |-> newHead],
         keyFile' \in Metadata, keyFile'.exists, keyFile'.maxSize = maxSize,
         size' = newSize, head' = newHead, doing' = "idle",
         writeBuffer' \in Seq(Cell), newSize + Len(writeBuffer') <= maxSize,
         damaged' \in BOOLEAN, UNCHANGED <<data, maxSize, buffer, appended, refused, powerLost>>,
         Geometry(data, maxSize, newHead, newSize),
         Contents(RingOf(data, maxSize, newHead, newSize), left, t),
         Contents(writeBuffer', still, FALSE), answer' = First(left, k),
         \A i \in 1..Len(still) : still[i][1] # 0,
         powerLost \/ (~t /\ \A i \in 1..Len(left) : left[i][1] # 0)
  PROVE  Inv(left, still, t)'
<1> DEFINE ring == RingOf(data, maxSize, head, size)
<1>1. OpenFacts(elems, pend, tainted, ring)
  OBVIOUS
<1> HIDE DEF ring
<1>2. metadata' \in Metadata
  BY <1>1 DEF OpenFacts, Metadata
<1>3. answer' \in Seq((0..MaxElements) \X Nat)
  BY FirstFacts, AnswerType
<1>4. TypeOK'
  BY <1>1, <1>2, <1>3 DEF OpenFacts, TypeOK
<1>5. Shape'
  BY <1>1 DEF OpenFacts, Shape, FilesOK, ClosedOK, OpenOK, ResizingOK, RefillingOK,
                     SavingOK, Open, Refilling
<1>6. SavedCells' = RingOf(data, maxSize, newHead, newSize)
  BY DEF SavedCells, Refilling
<1>7. Holds(left, still, t)'
  <2>1. (\E j \in 0..Len(left) : answer = First(left, j))'
    OBVIOUS
  <2>2. Contents(SavedCells, left, t)' /\ Contents(writeBuffer, still, FALSE)'
    BY <1>6
  <2>3. (powerLost \/ (~t /\ \A i \in 1..Len(left) : left[i][1] # 0))'
    OBVIOUS
  <2> QED
    BY <2>1, <2>2, <2>3 DEF Holds
<1> QED
  BY <1>4, <1>5, <1>7 DEF Inv

\* The same where the metadata file is replaced by the key file.
LEMMA MetadataSet ==
  ASSUME NEW elems, NEW pend, NEW tainted,
         OpenFacts(elems, pend, tainted, RingOf(data, maxSize, head, size)),
         NEW newSize \in Nat, NEW newHead \in Nat, NEW left \in Seq(Element),
         NEW still \in Seq(Element), NEW t \in BOOLEAN, NEW k \in 0..Len(left),
         metadata' = [exists |-> TRUE, maxSize |-> maxSize, size |-> newSize,
                      head |-> newHead],
         keyFile' = metadata', size' = newSize, head' = newHead, doing' = "idle",
         writeBuffer' \in Seq(Cell), newSize + Len(writeBuffer') <= maxSize,
         damaged' \in BOOLEAN, UNCHANGED <<data, maxSize, buffer, appended, refused, powerLost>>,
         Geometry(data, maxSize, newHead, newSize),
         Contents(RingOf(data, maxSize, newHead, newSize), left, t),
         Contents(writeBuffer', still, FALSE), answer' = First(left, k),
         \A i \in 1..Len(still) : still[i][1] # 0,
         powerLost \/ (~t /\ \A i \in 1..Len(left) : left[i][1] # 0)
  PROVE  Inv(left, still, t)'
<1>1. keyFile' \in Metadata /\ keyFile'.exists /\ keyFile'.maxSize = maxSize
  BY DEF OpenFacts, Metadata
<1> QED
  BY <1>1, KeyFileSet

\* What was pending is saved, unless something that was zeroed is before it.
LEMMA AddToSizeStep ==
  ASSUME NEW elems, NEW pend, NEW tainted, Inv(elems, pend, tainted), AddToSize, ~damaged'
  PROVE  Inv(IF tainted THEN elems ELSE elems \o pend, << >>, tainted)'
<1> DEFINE ring == RingOf(data, maxSize, head, size)
           n    == size + Len(writeBuffer)
           new  == RingOf(data, maxSize, head, n)
           left == IF tainted THEN elems ELSE elems \o pend
<1>1. OpenFacts(elems, pend, tainted, ring)
  BY WhenOpen DEF Open, AddToSize
<1>2. /\ doing' = "idle" /\ size' = n /\ metadata' = keyFile' /\ writeBuffer' = << >>
      /\ UNCHANGED <<data, maxSize, head, buffer, answer, appended, refused, powerLost>>
      /\ damaged' = FALSE /\ keyFile.head = head
  BY DEF AddToSize, SaveMetadata, Tears
<1>3. n \in Nat /\ head \in Nat /\ n + Len(<< >>) <= maxSize /\ << >> \in Seq(Cell)
  BY <1>1, EmptySeq DEF OpenFacts
<1>4. keyFile' = [keyFile EXCEPT !.size = n]
  BY DEF AddToSize
<1>5. Geometry(data, maxSize, head, n) /\ new = ring \o writeBuffer
  BY <1>1 DEF OpenFacts, Shape, SavingOK, AddToSize
<1> HIDE DEF ring, n, new
<1>6. keyFile' = [exists |-> TRUE, maxSize |-> maxSize, size |-> n, head |-> head]
  BY <1>1, <1>2, <1>4 DEF OpenFacts, Metadata
<1>7. /\ elems \in Seq(Element) /\ pend \in Seq(Element) /\ ring \in Seq(Cell)
      /\ writeBuffer \in Seq(Cell) /\ tainted \in BOOLEAN
      /\ Contents(ring, elems, tainted) /\ Contents(writeBuffer, pend, FALSE)
  BY <1>1 DEF OpenFacts
<1>8. PICK k \in 0..Len(elems) : answer = First(elems, k)
  BY <1>1 DEF OpenFacts, Holds
<1>9. /\ left \in Seq(Element) /\ k \in 0..Len(left) /\ answer = First(left, k)
      /\ Contents(new, left, tainted)
      /\ powerLost \/ (~tainted /\ \A i \in 1..Len(left) : left[i][1] # 0)
  <2>1. CASE tainted
    <3>1. powerLost
      BY <1>1, <2>1 DEF OpenFacts, Holds
    <3>2. Contents(ring \o writeBuffer, elems, TRUE)
      BY <1>7, <2>1, TaintedConcat
    <3> QED
      BY <1>5, <1>7, <1>8, <2>1, <3>1, <3>2
  <2>2. CASE ~tainted
    <3> DEFINE both == elems \o pend
    <3>1. Contents(ring \o writeBuffer, both, FALSE)
      BY <1>7, <2>2, ContentsConcat
    <3>2. /\ both \in Seq(Element) /\ Len(both) = Len(elems) + Len(pend)
          /\ Len(elems) \in Nat /\ Len(pend) \in Nat
          /\ \A i \in 1..Len(elems) : both[i] = elems[i]
          /\ \A i \in 1..Len(pend) : both[Len(elems) + i] = pend[i]
      BY <1>7, ConcatProperties, LenProperties
    <3>3. First(both, k) = First(elems, k)
      BY <1>7, FirstOfConcat
    <3> HIDE DEF both
    <3>4. k \in 0..Len(both)
      BY <1>8, <3>2
    <3>5. powerLost \/ \A i \in 1..Len(both) : both[i][1] # 0
      <4>1. CASE \A i \in 1..Len(elems) : elems[i][1] # 0
        <5>1. \A i \in 1..Len(pend) : pend[i][1] # 0
          BY <1>1 DEF OpenFacts, Holds
        <5>2. ASSUME NEW i \in 1..Len(both) PROVE both[i][1] # 0
          <6>1. CASE i <= Len(elems)
            BY <3>2, <4>1, <6>1
          <6>2. CASE i > Len(elems)
            <7>1. i - Len(elems) \in 1..Len(pend) /\ Len(elems) + (i - Len(elems)) = i
              BY <3>2, <6>2
            <7> DEFINE j == i - Len(elems)
            <7>2. both[Len(elems) + j] = pend[j]
              BY <3>2, <7>1
            <7> QED
              BY <5>1, <7>1, <7>2
          <6> QED
            BY <3>2, <6>1, <6>2
        <5> QED
          BY <5>2
      <4>2. CASE powerLost
        BY <4>2
      <4> QED
        BY <1>1, <4>1, <4>2 DEF OpenFacts, Holds
    <3>6. left = both
      BY <2>2 DEF both
    <3> HIDE DEF left
    <3> QED
      BY <1>5, <1>7, <1>8, <2>2, <3>1, <3>2, <3>3, <3>4, <3>5, <3>6
  <2> QED
    BY <1>7, <2>1, <2>2
<1>10. << >> \in Seq(Element) /\ Contents(writeBuffer', << >>, FALSE)
       /\ \A i \in 1..Len(<< >>) : << >>[i][1] # 0
  <2>1. << >> \in Seq(Element) /\ Len(<< >>) = 0
    BY EmptySeq
  <2>2. Contents(<< >>, << >>, FALSE)
    BY NoContents
  <2>3. Contents(writeBuffer', << >>, FALSE)
    BY <1>2, <2>2
  <2>4. \A i \in 1..Len(<< >>) : << >>[i][1] # 0
    BY <2>1
  <2> QED
    BY <2>1, <2>3, <2>4
<1> HIDE DEF left
<1>11. Inv(left, << >>, tainted)'
  <2> SUFFICES ASSUME NEW still, still = << >> PROVE Inv(left, still, tainted)'
    OBVIOUS
  <2>1. /\ still \in Seq(Element) /\ Contents(writeBuffer', still, FALSE)
        /\ \A i \in 1..Len(still) : still[i][1] # 0
        /\ writeBuffer' \in Seq(Cell) /\ n + Len(writeBuffer') <= maxSize
    BY <1>2, <1>3, <1>10
  <2>2. Contents(RingOf(data, maxSize, head, n), left, tainted)
    BY <1>9 DEF new
  <2>3. OpenFacts(elems, pend, tainted, RingOf(data, maxSize, head, size))
    BY <1>1 DEF ring
  <2> QED
    BY <1>2, <1>3, <1>5, <1>6, <1>7, <1>9, <2>1, <2>2, <2>3, MetadataSet
<1> QED
  BY <1>11 DEF left

-----------------------------------------------------------------------------
(* Reading and removing *)

\* A ring without its first n cells.
LEMMA RingMovesTo ==
  ASSUME NEW file, NEW max, NEW from, NEW room, Geometry(file, max, from, room),
         NEW n \in 0..room, NEW to, to = After(from, n, max), NEW left, left = room - n
  PROVE  /\ Geometry(file, max, to, left)
         /\ RingOf(file, max, to, left) = Rest(RingOf(file, max, from, room), n)
BY RingMoves

\* The token is of elements that are saved, so the size does not wrap round.
LEMMA TokenFacts ==
  ASSUME NEW elems, NEW pend, NEW tainted, Inv(elems, pend, tainted), Open
  PROVE  /\ Token = Total(answer, HeaderCells) /\ Token \in 0..size
         /\ size - Token \in Nat /\ After(head, Token, maxSize) \in Nat
<1> DEFINE ring == RingOf(data, maxSize, head, size)
           n    == Total(answer, HeaderCells)
<1>1. OpenFacts(elems, pend, tainted, ring)
  BY WhenOpen
<1>2. PICK k \in 0..Len(elems) : answer = First(elems, k)
  BY <1>1 DEF OpenFacts, Holds
<1>3. Token = n
  BY DEF Token, Total
<1>4. /\ elems \in Seq(Element) /\ tainted \in BOOLEAN /\ ring \in Seq(Cell)
      /\ Len(ring) = size /\ Contents(ring, elems, tainted)
      /\ size \in Nat /\ maxSize \in Nat /\ head \in Nat /\ size <= maxSize
  BY <1>1 DEF OpenFacts, Geometry
<1> HIDE DEF ring
<1>5. n \in 0..size
  BY <1>2, <1>4, ContentsFirst
<1>6. \A m \in 0..size : size - m \in Nat /\ After(head, m, maxSize) \in Nat
  BY <1>4 DEF After
<1> QED
  BY <1>3, <1>5, <1>6

\* Without an answer there is no token.
LEMMA TokenOfNone ==
  ASSUME answer = << >>
  PROVE  Token = 0
<1>1. Token = Total(answer, HeaderCells)
  BY DEF Token, Total
<1>2. << >> \in Seq(Element) /\ First(<< >>, 0) = << >> /\ HeaderCells \in Nat
  BY EmptySeq, FirstAll, CircularFileAssumption
<1>3. Total(First(<< >>, 0), HeaderCells) = 0
  BY <1>2, TotalOfFirst
<1> QED
  BY <1>1, <1>2, <1>3

\* A call that fails to set the metadata leaves the file as it was, but not the key file.
LEMMA KeyFileAhead ==
  ASSUME NEW elems, NEW pend, NEW tainted, Inv(elems, pend, tainted), doing = "idle",
         NEW n \in Nat, NEW h \in Nat, SetMetadataFails(n, h),
         UNCHANGED <<data, maxSize, writeBuffer, doing, buffer, answer, appended, refused,
                     powerLost, damaged>>
  PROVE  Inv(elems, pend, tainted)'
<1> DEFINE ring == RingOf(data, maxSize, head, size)
<1>1. OpenFacts(elems, pend, tainted, ring)
  BY WhenOpen DEF Open
<1>2. UNCHANGED <<metadata, size, head>> /\ keyFile' = [keyFile EXCEPT !.size = n, !.head = h]
  BY DEF SetMetadataFails
<1> HIDE DEF ring
<1>3. keyFile' \in Metadata /\ keyFile'.exists /\ keyFile'.maxSize = maxSize
  BY <1>1, <1>2 DEF OpenFacts, Metadata
<1> HIDE DEF SetMetadataFails
<1>4. TypeOK'
  BY <1>1, <1>2, <1>3 DEF OpenFacts, TypeOK
<1>5. Shape'
  BY <1>1, <1>2, <1>3 DEF OpenFacts, Shape, FilesOK, ClosedOK, OpenOK, ResizingOK, RefillingOK,
                          SavingOK, Open, Refilling
<1>6. Holds(elems, pend, tainted)'
  <2>1. SavedCells' = SavedCells
    BY <1>1, <1>2 DEF OpenFacts, SavedCells, Refilling
  <2> QED
    BY <1>1, <2>1, HoldsStays DEF OpenFacts
<1> QED
  BY <1>4, <1>5, <1>6 DEF Inv

\* Removing what was read leaves the rest.
LEMMA RemoveStep ==
  ASSUME NEW elems, NEW pend, NEW tainted, Inv(elems, pend, tainted), RemoveRead,
         SetMetadata(size - Token, After(head, Token, maxSize)), answer' = << >>
  PROVE  \E k \in 0..Len(elems) :
           answer = First(elems, k) /\ Inv(Rest(elems, k), pend, tainted)'
<1> DEFINE ring == RingOf(data, maxSize, head, size)
           n    == Total(answer, HeaderCells)
<1>1. OpenFacts(elems, pend, tainted, ring) /\ doing = "idle"
  BY WhenOpen DEF Open, RemoveRead, Idle
<1>2. PICK k \in 0..Len(elems) : answer = First(elems, k)
  BY <1>1 DEF OpenFacts, Holds
<1>3. Token = n
  BY DEF Token, Total
<1> DEFINE newSize == size - n
           newHead == After(head, n, maxSize)
           left    == Rest(elems, k)
<1>4. /\ keyFile' = [keyFile EXCEPT !.size = newSize, !.head = newHead]
      /\ metadata' = keyFile' /\ size' = newSize /\ head' = newHead /\ answer' = << >>
      /\ UNCHANGED <<data, maxSize, writeBuffer, doing, buffer, appended, refused, powerLost, damaged>>
  BY <1>3 DEF RemoveRead, SetMetadata, SaveMetadata
<1> HIDE DEF SetMetadata
<1>5. /\ elems \in Seq(Element) /\ pend \in Seq(Element) /\ tainted \in BOOLEAN
      /\ ring \in Seq(Cell) /\ Len(ring) = size /\ Contents(ring, elems, tainted)
      /\ Geometry(data, maxSize, head, size) /\ size \in Nat /\ maxSize \in Nat
      /\ head \in Nat /\ writeBuffer \in Seq(Cell) /\ Len(writeBuffer) \in Nat
      /\ size + Len(writeBuffer) <= maxSize /\ Contents(writeBuffer, pend, FALSE)
  BY <1>1 DEF OpenFacts
<1> HIDE DEF ring
<1>6. n \in 0..size
  BY <1>2, <1>5, ContentsFirst
<1>7. left \in Seq(Element) /\ Contents(Rest(ring, n), left, tainted)
  BY <1>2, <1>5, ContentsRest, RestFacts
<1> HIDE DEF n, left
<1>8. /\ Geometry(data, maxSize, newHead, newSize)
      /\ RingOf(data, maxSize, newHead, newSize) = Rest(ring, n)
  <2> HIDE DEF newSize, newHead
  <2>1. newHead = After(head, n, maxSize) /\ newSize = size - n
    BY DEF newSize, newHead
  <2> QED
    BY <1>5, <1>6, <2>1, RingMovesTo DEF ring
<1>9. newSize \in Nat /\ newHead \in Nat /\ newSize + Len(writeBuffer) <= maxSize
  BY <1>5, <1>6, <1>8 DEF Geometry
<1> HIDE DEF newSize, newHead
<1>10. metadata' = [exists |-> TRUE, maxSize |-> maxSize, size |-> newSize, head |-> newHead]
  BY <1>1, <1>4 DEF OpenFacts, Metadata
<1>11. powerLost \/ (~tainted /\ \A i \in 1..Len(left) : left[i][1] # 0)
  <2>1. powerLost \/ \A i \in 1..Len(elems) : elems[i][1] # 0
    BY <1>1 DEF OpenFacts, Holds
  <2>2. powerLost \/ ~tainted
    BY <1>1 DEF OpenFacts, Holds
  <2>3. powerLost \/ \A i \in 1..Len(left) : left[i][1] # 0
    BY <1>2, <1>5, <2>1, FewerAreWell DEF left
  <2> QED
    BY <2>2, <2>3
<1>12. Inv(left, pend, tainted)'
  <2> SUFFICES ASSUME NEW j, j = 0 PROVE Inv(left, pend, tainted)'
    OBVIOUS
  <2>1. j \in 0..Len(left) /\ answer' = First(left, j)
    BY <1>4, <1>7, FirstAll, LenProperties
  <2>2. Contents(RingOf(data, maxSize, newHead, newSize), left, tainted)
    BY <1>7, <1>8
  <2>3. OpenFacts(elems, pend, tainted, RingOf(data, maxSize, head, size))
    BY <1>1 DEF ring
  <2>4. \A i \in 1..Len(pend) : pend[i][1] # 0
    BY <1>1 DEF OpenFacts, Holds
  <2>5. /\ writeBuffer' \in Seq(Cell) /\ newSize + Len(writeBuffer') <= maxSize
        /\ Contents(writeBuffer', pend, FALSE) /\ doing' = "idle" /\ keyFile' = metadata'
    BY <1>1, <1>4, <1>5, <1>9
  <2>6. /\ newSize \in Nat /\ newHead \in Nat /\ left \in Seq(Element)
        /\ pend \in Seq(Element) /\ tainted \in BOOLEAN
        /\ size' = newSize /\ head' = newHead
        /\ UNCHANGED <<data, maxSize, buffer, appended, refused, powerLost, damaged>>
        /\ Geometry(data, maxSize, newHead, newSize)
    BY <1>4, <1>5, <1>7, <1>8, <1>9
  <2>7. damaged' \in BOOLEAN
    BY <1>1, <1>4 DEF OpenFacts
  <2> QED
    BY <1>10, <1>11, <2>1, <2>2, <2>3, <2>4, <2>5, <2>6, <2>7, MetadataSet
<1> QED
  BY <1>2, <1>12 DEF left

\* Purging leaves nothing but what is pending.
LEMMA PurgeStep ==
  ASSUME NEW elems, NEW pend, NEW tainted, Inv(elems, pend, tainted), Purge,
         SetMetadata(0, 0), answer' = << >>
  PROVE  Inv(<< >>, pend, FALSE)'
<1> DEFINE ring == RingOf(data, maxSize, head, size)
<1>1. OpenFacts(elems, pend, tainted, ring) /\ doing = "idle"
  BY WhenOpen DEF Open, Purge, Idle
<1>2. /\ metadata' = keyFile' /\ size' = 0 /\ head' = 0 /\ answer' = << >>
      /\ UNCHANGED <<data, maxSize, writeBuffer, doing, buffer, appended, refused, powerLost, damaged>>
  BY DEF Purge, SetMetadata, SaveMetadata
<1>3. /\ pend \in Seq(Element) /\ data \in Seq(Cell) /\ maxSize \in Nat
      /\ Len(data) <= maxSize /\ writeBuffer \in Seq(Cell) /\ Len(writeBuffer) \in Nat
      /\ size \in Nat /\ size + Len(writeBuffer) <= maxSize /\ Contents(writeBuffer, pend, FALSE)
  BY <1>1 DEF OpenFacts, Geometry
<1> HIDE DEF ring
<1>4. metadata' = [exists |-> TRUE, maxSize |-> maxSize, size |-> 0, head |-> 0]
  <2>1. keyFile' = [keyFile EXCEPT !.size = 0, !.head = 0]
    BY DEF Purge, SetMetadata
  <2> QED
    BY <1>1, <1>2, <2>1 DEF OpenFacts, Metadata
<1> SUFFICES ASSUME NEW left, left = << >>, NEW t, t = FALSE, NEW z, z = 0
             PROVE  Inv(left, pend, t)'
  OBVIOUS
<1>5. Geometry(data, maxSize, z, z) /\ RingOf(data, maxSize, z, z) = << >>
  BY <1>3, RingEmpty
<1>6. Contents(RingOf(data, maxSize, z, z), left, t)
  BY <1>5, NoContents
<1>7. /\ left \in Seq(Element) /\ Len(left) = 0 /\ z \in Nat /\ t \in BOOLEAN
      /\ z \in 0..Len(left)
  <2>1. left \in Seq(Element) /\ Len(left) = 0
    BY EmptySeq
  <2>2. t \in BOOLEAN
    OBVIOUS
  <2> QED
    BY <2>1, <2>2
<1>8. answer' = First(left, z)
  BY <1>2, <1>7, FirstAll
<1>9. /\ \A i \in 1..Len(left) : left[i][1] # 0
      /\ \A i \in 1..Len(pend) : pend[i][1] # 0
  BY <1>1, <1>7 DEF OpenFacts, Holds
<1>10. OpenFacts(elems, pend, tainted, RingOf(data, maxSize, head, size))
  BY <1>1 DEF ring
<1>11. /\ writeBuffer' \in Seq(Cell) /\ z + Len(writeBuffer') <= maxSize
       /\ Contents(writeBuffer', pend, FALSE) /\ doing' = "idle" /\ keyFile' = metadata'
       /\ metadata' = [exists |-> TRUE, maxSize |-> maxSize, size |-> z, head |-> z]
       /\ size' = z /\ head' = z
       /\ UNCHANGED <<data, maxSize, buffer, appended, refused, powerLost, damaged>>
  <2>1. 0 + Len(writeBuffer) <= maxSize
    BY <1>3
  <2> QED
    BY <1>1, <1>2, <1>3, <1>4, <2>1
<1>12. powerLost \/ (~t /\ \A i \in 1..Len(left) : left[i][1] # 0)
  BY <1>9
<1>13. damaged' \in BOOLEAN
  BY <1>1, <1>2 DEF OpenFacts
<1> QED
  BY <1>3, <1>5, <1>6, <1>7, <1>8, <1>9, <1>10, <1>11, <1>12, <1>13, MetadataSet

\* What is read are the first elements, as many as the reader takes.
LEMMA ReadStep ==
  ASSUME NEW elems, NEW pend, NEW tainted, Inv(elems, pend, tainted),
         NEW limit \in Nat, Read(limit)
  PROVE  \E k \in 0..Len(elems), t \in {tainted, FALSE} :
           /\ Most(elems, 0, limit, k) /\ answer' = First(elems, k)
           /\ t = tainted \/ k = Len(elems)
           /\ Inv(elems, pend, t)'
<1> DEFINE ring == RingOf(data, maxSize, head, size)
           got  == Reading(data, maxSize, head, size, limit)
<1>1. OpenFacts(elems, pend, tainted, ring) /\ doing = "idle"
  BY WhenOpen DEF Open, Read, Idle
<1>2. /\ answer' = got.elems
      /\ UNCHANGED <<data, maxSize, writeBuffer, doing, buffer, appended, refused, powerLost, damaged>>
      /\ \/ /\ got.ended # "invalid"
            /\ UNCHANGED <<metadata, keyFile, size, head>>
         \/ got.ended = "invalid" /\ SetMetadata(got.cells, head)
         \/ /\ got.ended = "invalid"
            /\ SetMetadataFails(got.cells, head)
  BY DEF Read, ReadUpTo
<1>3. /\ elems \in Seq(Element) /\ pend \in Seq(Element) /\ tainted \in BOOLEAN
      /\ ring \in Seq(Cell) /\ Len(ring) = size /\ Contents(ring, elems, tainted)
      /\ Geometry(data, maxSize, head, size) /\ size \in Nat /\ maxSize \in Nat
      /\ head \in Nat /\ writeBuffer \in Seq(Cell) /\ Len(writeBuffer) \in Nat
      /\ size + Len(writeBuffer) <= maxSize /\ Contents(writeBuffer, pend, FALSE)
      /\ Len(elems) \in Nat
  BY <1>1, LenProperties DEF OpenFacts
<1>4. /\ \A i \in 1..Len(pend) : pend[i][1] # 0
      /\ powerLost \/ (~tainted /\ \A i \in 1..Len(elems) : elems[i][1] # 0)
      /\ metadata = [exists |-> TRUE, maxSize |-> maxSize, size |-> size, head |-> head]
      /\ keyFile \in Metadata /\ keyFile.exists /\ keyFile.maxSize = maxSize
  BY <1>1 DEF OpenFacts, Holds
<1>5. PICK k \in 0..Len(elems) : Most(elems, 0, limit, k)
  <2>1. \E h : h = 0 /\ h \in Nat
    OBVIOUS
  <2>2. PICK h : h = 0 /\ h \in Nat
    BY <2>1
  <2>3. \E k \in 0..Len(elems) : Most(elems, h, limit, k)
    BY <1>3, <2>2, MostExists
  <2> QED
    BY <2>2, <2>3
<1>6. got = [SoFar(elems, k) EXCEPT !.ended =
               IF k < Len(elems) THEN "limit" ELSE IF tainted THEN "invalid" ELSE "all"]
  BY <1>3, <1>5, ReadingOfContents DEF ring
<1> HIDE DEF got
<1>7. /\ got.elems = First(elems, k) /\ got.cells = Total(First(elems, k), HeaderCells)
      /\ got.ended = IF k < Len(elems) THEN "limit" ELSE IF tainted THEN "invalid" ELSE "all"
  BY <1>6 DEF SoFar
<1>8. OpenFacts(elems, pend, tainted, RingOf(data, maxSize, head, size))
  BY <1>1
<1>9. damaged' \in BOOLEAN
  BY <1>1, <1>2 DEF OpenFacts
<1> HIDE DEF ring
<1>10. ASSUME UNCHANGED <<metadata, size, head>>, keyFile' \in Metadata, keyFile'.exists,
             keyFile'.maxSize = maxSize
      PROVE  Inv(elems, pend, tainted)'
  <2>1. /\ writeBuffer' \in Seq(Cell) /\ size + Len(writeBuffer') <= maxSize
        /\ Contents(writeBuffer', pend, FALSE) /\ doing' = "idle" /\ size' = size /\ head' = head
        /\ metadata' = [exists |-> TRUE, maxSize |-> maxSize, size |-> size, head |-> head]
        /\ UNCHANGED <<data, maxSize, buffer, appended, refused, powerLost, damaged>>
        /\ answer' = First(elems, k)
    BY <1>1, <1>2, <1>3, <1>4, <1>7, <1>10
  <2>2. Contents(RingOf(data, maxSize, head, size), elems, tainted)
    BY <1>3 DEF ring
  <2> QED
    BY <1>3, <1>4, <1>5, <1>8, <1>10, <1>9, <2>1, <2>2, KeyFileSet, ZenonT(60)
<1>11. CASE got.ended # "invalid"
  <2>1. UNCHANGED <<metadata, keyFile, size, head>>
    BY <1>2, <1>11
  <2>2. Inv(elems, pend, tainted)'
    BY <1>4, <1>10, <2>1
  <2> QED
    BY <1>2, <1>5, <1>7, <2>2
<1>12. CASE got.ended = "invalid"
  <2> DEFINE n == Total(elems, HeaderCells)
  <2>1. k = Len(elems) /\ First(elems, k) = elems /\ got.cells = n
    BY <1>3, <1>5, <1>7, <1>12, FirstAll
  <2>2. n \in 0..size /\ Contents(First(ring, n), elems, FALSE)
    BY <1>3, <1>5, <2>1, ContentsFirst
  <2> HIDE DEF n
  <2>3. Geometry(data, maxSize, head, n) /\ RingOf(data, maxSize, head, n) = First(ring, n)
    BY <1>3, <2>2, RingShrinks DEF ring
  <2>4. keyFile' = [keyFile EXCEPT !.size = n, !.head = head]
    BY <1>2, <1>12, <2>1 DEF SetMetadata, SetMetadataFails
  <2>5. /\ keyFile' = [exists |-> TRUE, maxSize |-> maxSize, size |-> n, head |-> head]
        /\ n \in Nat
    <3>1. n \in Nat
      BY <1>3, <2>2
    <3> QED
      BY <1>4, <2>4, <3>1 DEF Metadata
  <2>6. /\ keyFile' \in Metadata /\ keyFile'.exists
        /\ keyFile'.maxSize = maxSize
    BY <1>3, <2>5 DEF Metadata
  <2>7. CASE SetMetadataFails(got.cells, head)
    <3>1. UNCHANGED <<metadata, size, head>>
      BY <2>7 DEF SetMetadataFails
    <3>2. Inv(elems, pend, tainted)'
      BY <1>10, <2>6, <3>1
    <3> QED
      BY <1>2, <1>5, <1>7, <3>2
  <2>8. CASE SetMetadata(got.cells, head)
    <3>1. metadata' = keyFile' /\ size' = n /\ head' = head
      BY <2>1, <2>8 DEF SetMetadata, SaveMetadata
    <3>2. \A t : t = FALSE => Inv(elems, pend, t)'
      <4> SUFFICES ASSUME NEW t, t = FALSE PROVE Inv(elems, pend, t)'
        OBVIOUS
      <4>1. /\ writeBuffer' \in Seq(Cell) /\ n + Len(writeBuffer') <= maxSize
            /\ Contents(writeBuffer', pend, FALSE) /\ doing' = "idle"
            /\ metadata' = [exists |-> TRUE, maxSize |-> maxSize, size |-> n, head |-> head]
            /\ UNCHANGED <<data, maxSize, buffer, appended, refused, powerLost, damaged>>
            /\ answer' = First(elems, k)
        <5>1. n + Len(writeBuffer) <= maxSize
          BY <1>3, <2>2
        <5> QED
          BY <1>1, <1>2, <1>3, <1>7, <2>5, <3>1, <5>1
      <4>2. Contents(RingOf(data, maxSize, head, n), elems, t)
        BY <2>2, <2>3
      <4>3. t \in BOOLEAN
        OBVIOUS
      <4>4. powerLost \/ (~t /\ \A i \in 1..Len(elems) : elems[i][1] # 0)
        BY <1>4
      <4>5. \A i \in 1..Len(pend) : pend[i][1] # 0
        BY <1>4
      <4> QED
        BY <1>3, <1>5, <1>8, <1>9, <2>3, <2>5, <2>6, <3>1, <4>1, <4>2, <4>3, <4>4, <4>5, KeyFileSet
    <3>3. Inv(elems, pend, FALSE)'
      BY <3>2
    <3> QED
      BY <1>2, <1>5, <1>7, <2>1, <3>3
  <2> QED
    BY <1>2, <1>12, <2>7, <2>8
<1> QED
  BY <1>11, <1>12

-----------------------------------------------------------------------------
(* The invariant of the file *)

\* Some elements are saved, and some pending, unless the metadata were damaged.
IInv == damaged \in BOOLEAN /\ (~damaged => \E elems, pend, tainted : Inv(elems, pend, tainted))

\* The invariant is about the variables only.
LEMMA StutterStep ==
  ASSUME NEW elems, NEW pend, NEW tainted, Inv(elems, pend, tainted), UNCHANGED vars
  PROVE  Inv(elems, pend, tainted)'
<1>1. UNCHANGED <<data, metadata, keyFile, maxSize, size, head, writeBuffer, doing, buffer,
                  answer, appended, refused, powerLost, damaged>>
  BY DEF vars, files, memory, history
<1>2. SavedCells' = SavedCells /\ Open' = Open /\ Refilling' = Refilling
  BY <1>1 DEF SavedCells, Open, Refilling
<1>3. TypeOK' /\ Shape'
  BY <1>1, <1>2, SMTT(40) DEF Inv, TypeOK, Shape, FilesOK, ClosedOK, OpenOK, ResizingOK, RefillingOK,
                    SavingOK, StartCells, TailCells
<1>4. Holds(elems, pend, tainted)'
  BY <1>1, <1>2, HoldsStays DEF Inv
<1> QED
  BY <1>3, <1>4 DEF Inv

\* Every step that does not damage the metadata keeps the invariant, of the elements that
\* are left.
LEMMA InvStep ==
  ASSUME NEW elems, NEW pend, NEW tainted, Inv(elems, pend, tainted), [Next]_vars, ~damaged'
  PROVE  \E e, p, t : Inv(e, p, t)'
<1>1. elems \in Seq(Element) /\ maxSize \in Nat
  BY DEF Inv, Holds, TypeOK
<1>2. ASSUME NEW limit \in Limits, Initialize(limit) \/ RefuseMetadata(limit) \/ Load(limit)
      PROVE  \E e, p, t : Inv(e, p, t)'
  BY <1>2, InitializeStep, RefuseStep, LoadStep
<1>3. CASE OverwriteEmpties
  BY <1>3, OverwriteEmptiesStep
<1>4. CASE OverwriteReplaces
  BY <1>4, OverwriteReplacesStep
<1>5. CASE OverwriteRefills
  BY <1>5, OverwriteRefillsStep
<1>6. CASE OpenFails \/ Quit
  <2>1. Closed /\ doing # "closed" /\ UNCHANGED <<files, appended, refused, powerLost, damaged>>
    BY <1>6 DEF OpenFails, Quit, Idle
  <2> QED
    BY <2>1, CloseStep
<1>7. ASSUME NEW n \in Lengths, AppendElement(n) PROVE \E e, p, t : Inv(e, p, t)'
  <2>1. PICK id : id = appended + 1
    OBVIOUS
  <2> QED
    BY <1>7, <2>1, AppendStep
<1>8. CASE WriteStart \/ WriteTail \/ WriteFails
  BY <1>8, WriteStartStep, WriteTailStep, WriteFailsStep
<1>9. CASE AddToSize
  BY <1>9, AddToSizeStep
<1>10. CASE AddToSizeFails
  BY <1>10, AddToSizeFailsStep
<1>11. ASSUME NEW limit \in 0..maxSize, Read(limit) PROVE \E e, p, t : Inv(e, p, t)'
  <2>1. limit \in Nat
    BY <1>1
  <2> QED
    BY <1>11, <2>1, ReadStep
<1>12. CASE RemoveRead
  <2>1. doing = "idle" /\ Open
    BY <1>12 DEF RemoveRead, Idle, Open
  <2>2. size - Token \in Nat /\ After(head, Token, maxSize) \in Nat
    BY <2>1, TokenFacts
  <2>3. CASE SetMetadata(size - Token, After(head, Token, maxSize)) /\ answer' = << >>
    BY <1>12, <2>3, RemoveStep
  <2>4. CASE /\ SetMetadataFails(size - Token, After(head, Token, maxSize))
             /\ UNCHANGED answer
    <3>1. UNCHANGED <<data, maxSize, writeBuffer, doing, buffer, answer, appended, refused,
                      powerLost, damaged>>
      BY <1>12, <2>4 DEF RemoveRead
    <3> QED
      BY <2>1, <2>2, <2>4, <3>1, KeyFileAhead
  <2> QED
    BY <1>12, <2>3, <2>4 DEF RemoveRead
<1>13. CASE Purge
  <2>1. CASE SetMetadata(0, 0) /\ answer' = << >>
    BY <1>13, <2>1, PurgeStep
  <2>2. CASE SetMetadataFails(0, 0) /\ UNCHANGED answer
    <3>1. UNCHANGED <<data, maxSize, writeBuffer, doing, buffer, answer, appended, refused,
                      powerLost, damaged>> /\ doing = "idle"
      BY <1>13, <2>2 DEF Purge, Idle
    <3>2. \A z : z = 0 => Inv(elems, pend, tainted)'
      <4> SUFFICES ASSUME NEW z, z = 0 PROVE Inv(elems, pend, tainted)'
        OBVIOUS
      <4>1. z \in Nat /\ SetMetadataFails(z, z)
        BY <2>2
      <4> QED
        BY <3>1, <4>1, KeyFileAhead
    <3> QED
      BY <3>2
  <2> QED
    BY <1>13, <2>1, <2>2 DEF Purge
<1>14. CASE PowerLoss
  BY <1>14, PowerLossStep
<1>15. CASE LoseMetadata
  BY <1>15, LoseMetadataStep
<1>16. CASE UNCHANGED vars
  BY <1>16, StutterStep
<1> QED
  BY <1>2, <1>3, <1>4, <1>5, <1>6, <1>7, <1>8, <1>9, <1>10, <1>11, <1>12, <1>13, <1>14, <1>15,
     <1>16 DEF Next

\* What was damaged stays so.
LEMMA DamageStays ==
  ASSUME damaged \in BOOLEAN, [Next]_vars
  PROVE  damaged' \in BOOLEAN /\ (damaged => damaged')
BY DEF Next, Initialize, RefuseMetadata, Load, OverwriteEmpties, OverwriteReplaces,
       OverwriteRefills, OpenFails, AppendElement, WriteStart, WriteTail, WriteFails, AddToSize,
       Tears, AddToSizeFails, Read, RemoveRead, Purge, Quit, PowerLoss, LoseMetadata, vars,
       history

\* The invariant holds always.
LEMMA Invariance == Spec => []IInv
<1>1. Init => IInv
  BY InitInv DEF IInv, Init
<1>2. IInv /\ [Next]_vars => IInv'
  <2> SUFFICES ASSUME IInv, [Next]_vars, ~damaged'
               PROVE  \E e, p, t : Inv(e, p, t)'
    BY DamageStays DEF IInv
  <2>1. PICK elems, pend, tainted : Inv(elems, pend, tainted)
    BY DamageStays DEF IInv
  <2> QED
    BY <2>1, InvStep
<1> QED
  BY <1>1, <1>2, PTL DEF Spec

-----------------------------------------------------------------------------
(* Where nothing damages the metadata *)

\* Saving the metadata does not fail in a removal or a purge, which would leave the key
\* file ahead of the metadata file, and the metadata are not lost, which would leave the
\* data file longer than a smaller new maximum.
MetadataKept == Faults \cap {"remove", "corrupt"} = {}

\* Then a save finds the head in the key file that it is in memory, and a file that is
\* not there has no data either.
InStep ==
  /\ ~damaged
  /\ Open => keyFile.head = head
  /\ ~metadata.exists => data = << >>

\* Every step keeps that so.
LEMMA InStepStep ==
  ASSUME MetadataKept, IInv, InStep, [Next]_vars
  PROVE  InStep'
<1>1. PICK elems, pend, tainted : Inv(elems, pend, tainted)
  BY DEF IInv, InStep
<1>2. "remove" \notin Faults /\ "corrupt" \notin Faults
  BY DEF MetadataKept
<1>3. /\ TypeOK /\ FilesOK /\ ClosedOK /\ OpenOK /\ ResizingOK /\ RefillingOK
      /\ ~damaged /\ (Open => keyFile.head = head) /\ (~metadata.exists => data = << >>)
  BY <1>1 DEF Inv, Shape, InStep
<1>4. ASSUME NEW limit \in Limits, Initialize(limit) \/ RefuseMetadata(limit) \/ Load(limit)
      PROVE  InStep'
  <2>1. CASE Initialize(limit)
    <3>1. data = << >> /\ head = 0 /\ limit \in Nat
      BY <1>3, <2>1, CircularFileAssumption DEF Initialize, ClosedOK
    <3>2. Len(data) = 0
      BY <3>1, EmptySeq
    <3>3. ~(Len(data) > limit)
      BY <3>1, <3>2
    <3> QED
      BY <1>3, <2>1, <3>1, <3>3 DEF Initialize, SaveMetadata, InStep
  <2>2. CASE RefuseMetadata(limit)
    BY <1>3, <2>2 DEF RefuseMetadata, InStep, Open, files, memory
  <2>3. CASE Load(limit)
    BY <1>3, <2>3 DEF Load, InStep, Open, files
  <2> QED
    BY <1>4, <2>1, <2>2, <2>3
<1>5. CASE OverwriteEmpties \/ OverwriteReplaces
  <2>1. /\ metadata'.exists /\ damaged' = damaged /\ ~Open'
    BY <1>3, <1>5
    DEF OverwriteEmpties, OverwriteReplaces, SaveMetadata, ResizingOK, RefillingOK, Refilling,
        Open, Metadata, TypeOK, memory, history
  <2> QED
    BY <1>3, <2>1 DEF InStep
<1>6. CASE OverwriteRefills
  BY <1>3, <1>6
  DEF OverwriteRefills, SaveMetadata, RefillingOK, Refilling, InStep, Metadata, TypeOK, history
<1>7. CASE OpenFails \/ Quit
  BY <1>3, <1>7 DEF OpenFails, Quit, Closed, InStep, Open, files
<1>8. ASSUME NEW n \in Lengths, AppendElement(n) PROVE InStep'
  BY <1>3, <1>8 DEF AppendElement, InStep, Open, files
<1>9. CASE WriteStart \/ WriteTail \/ WriteFails
  BY <1>3, <1>9 DEF WriteStart, WriteTail, WriteFails, InStep, Open, Idle, OpenOK, memory, history
<1>10. CASE AddToSize \/ AddToSizeFails
  <2>1. /\ keyFile'.head = keyFile.head /\ keyFile'.exists = keyFile.exists /\ head' = head
        /\ metadata' \in {keyFile', metadata} /\ data' = data /\ Open
    BY <1>3, <1>10
    DEF AddToSize, AddToSizeFails, SaveMetadata, SaveMetadataFails, TypeOK, Metadata, Open
  <2>2. ~damaged'
    BY <1>3, <1>10, <2>1 DEF AddToSize, AddToSizeFails, Tears, history
  <2> QED
    BY <1>3, <2>1, <2>2 DEF InStep, OpenOK
<1>11. ASSUME NEW n, NEW h, SetMetadata(n, h), doing = "idle", UNCHANGED <<data, damaged>>
       PROVE  InStep'
  BY <1>3, <1>11 DEF SetMetadata, SaveMetadata, InStep, Open, OpenOK, TypeOK, Metadata
<1>12. ASSUME NEW limit \in 0..maxSize, Read(limit) PROVE InStep'
  <2> DEFINE got == ReadUpTo(limit)
  <2>1. /\ doing = "idle" /\ UNCHANGED <<data, doing, damaged>>
        /\ \/ UNCHANGED <<metadata, keyFile, size, head>>
           \/ SetMetadata(got.cells, head) \/ SetMetadataFails(got.cells, head)
    BY <1>12 DEF Read, Idle
  <2> HIDE DEF got
  <2>2. CASE UNCHANGED <<metadata, keyFile, size, head>>
    BY <1>3, <2>1, <2>2 DEF InStep, Open
  <2>3. CASE SetMetadata(got.cells, head)
    BY <1>11, <2>1, <2>3
  <2>4. CASE SetMetadataFails(got.cells, head)
    BY <1>3, <2>1, <2>4 DEF SetMetadataFails, InStep, Open, TypeOK, Metadata
  <2> QED
    BY <2>1, <2>2, <2>3, <2>4
<1>13. CASE RemoveRead
  BY <1>2, <1>11, <1>13 DEF RemoveRead, Idle
<1>14. CASE Purge
  BY <1>2, <1>11, <1>14 DEF Purge, Idle
<1>15. CASE PowerLoss
  <2>1. metadata.exists
    <3>1. metadata.size \in Nat /\ \E kept : kept \in 0 .. metadata.size - 1
      BY <1>3, <1>15 DEF PowerLoss, TypeOK, Metadata
    <3>2. metadata.size # 0
      BY <3>1
    <3> QED
      BY <1>3, <3>2 DEF FilesOK, NoMetadata
  <2> QED
    BY <1>3, <1>15, <2>1 DEF PowerLoss, Closed, InStep, Open
<1>16. CASE LoseMetadata
  BY <1>2, <1>16 DEF LoseMetadata
<1>17. CASE UNCHANGED vars
  BY <1>3, <1>17 DEF InStep, Open, vars, files, memory, history
<1> QED
  BY <1>4, <1>5, <1>6, <1>7, <1>8, <1>9, <1>10, <1>12, <1>13, <1>14, <1>15, <1>16, <1>17 DEF Next

\* So nothing is ever damaged, and the invariant holds of some elements.
WholeInv == IInv /\ InStep
LEMMA WholeInvariance ==
  ASSUME MetadataKept
  PROVE  Spec => []WholeInv
<1>1. Init => InStep
  BY DEF Init, InStep, Open
<1>2. IInv /\ InStep /\ [Next]_vars => InStep'
  BY InStepStep
<1> QED
  BY <1>1, <1>2, Invariance, PTL DEF Spec, WholeInv

-----------------------------------------------------------------------------
(* What can be read *)

\* The elements that are saved are those that can be read, and reading ends behind them.
Mapped(elems, pend, tainted) ==
  /\ Readable.elems = elems /\ Pending = pend
  /\ Readable.ended = IF tainted THEN "invalid" ELSE "all"

\* Reading cells from their start returns what they contain.
LEMMA ReadingOfBuffer ==
  ASSUME NEW cells \in Seq(Cell), NEW elems \in Seq(Element), NEW tainted \in BOOLEAN,
         Contents(cells, elems, tainted)
  PROVE  LET got == Reading(cells, Len(cells), 0, Len(cells), Len(cells))
         IN  got.elems = elems /\ got.ended = IF tainted THEN "invalid" ELSE "all"
<1> DEFINE n == Len(cells)
<1>1. n \in Nat /\ n <= n
  BY LenProperties
<1>2. Geometry(cells, n, 0, n) /\ RingOf(cells, n, 0, n) = cells
  BY <1>1, RingWhole
<1> HIDE DEF n
<1>3. \A z : z = 0 => /\ Reading(cells, n, z, n, n).elems = elems
                      /\ Reading(cells, n, z, n, n).ended = IF tainted THEN "invalid" ELSE "all"
  BY <1>2, ReadingOfAll
<1> QED
  BY <1>3 DEF n

\* Where there is no room nothing is read, and reading ends.
LEMMA ReadingOfNone ==
  ASSUME NEW file \in Seq(Cell), NEW z, z = 0
  PROVE  Reading(file, z, z, z, z).elems = << >> /\ Reading(file, z, z, z, z).ended = "all"
<1>1. PICK after : Rounds(after, file, z, z, z, z)
  BY ReadingLoop
<1>2. /\ after[0] = NothingRead /\ Reading(file, z, z, z, z) = after[z + 1]
      /\ after[0 + 1] = ReadElement(file, z, z, z, z, after[0])
  BY <1>1 DEF Rounds
<1>3. Reading(file, z, z, z, z) = ReadElement(file, z, z, z, z, NothingRead)
  BY <1>2
<1>4. /\ NothingRead.ended = "no" /\ NothingRead.cells = 0 /\ NothingRead.elems = << >>
  BY DEF NothingRead
<1>5. NothingRead.cells >= z
  BY <1>4
<1>6. ReadElement(file, z, z, z, z, NothingRead) = [NothingRead EXCEPT !.ended = "all"]
  BY <1>4, <1>5 DEF ReadElement
<1> QED
  BY <1>3, <1>6 DEF NothingRead

\* No cells hold no element, and nothing zeroed is behind them.
LEMMA ContentsOfNone ==
  ASSUME NEW elems \in Seq(Element), NEW tainted \in BOOLEAN, Contents(<< >>, elems, tainted)
  PROVE  elems = << >> /\ tainted = FALSE
<1> DEFINE total == Total(elems, HeaderCells)
<1>1. Len(elems) \in 0..Len(elems) /\ First(elems, Len(elems)) = elems /\ HeaderCells \in Nat \ {0}
  BY LenProperties, FirstAll, CircularFileAssumption
<1>2. total \in Nat /\ Len(elems) \in Nat
  BY TotalType
<1>3. Len(elems) <= total
  BY <1>1, TotalGrows
<1>4. Len(<< >>) = 0
  BY EmptySeq
<1>5. IF tainted THEN total + HeaderCells <= Len(<< >>) ELSE total = Len(<< >>)
  BY DEF Contents
<1> HIDE DEF total
<1>6. ~tainted /\ Len(elems) = 0
  BY <1>1, <1>2, <1>3, <1>4, <1>5
<1> QED
  BY <1>6, EmptySeq

\* What the invariant says is saved is what can be read.
LEMMA ReadableIs ==
  ASSUME NEW elems, NEW pend, NEW tainted, Inv(elems, pend, tainted)
  PROVE  Mapped(elems, pend, tainted)
<1>1. /\ elems \in Seq(Element) /\ pend \in Seq(Element) /\ tainted \in BOOLEAN
      /\ TypeOK /\ Shape /\ Contents(SavedCells, elems, tainted)
      /\ writeBuffer \in Seq(Cell) /\ buffer \in Seq(Cell)
      /\ Contents(writeBuffer, pend, FALSE) /\ data \in Seq(Cell)
      /\ metadata.exists => Geometry(data, metadata.maxSize, metadata.head, metadata.size)
      /\ ~metadata.exists => metadata = NoMetadata
  BY DEF Inv, Holds, TypeOK, Shape, FilesOK
<1>2. Pending = pend
  <2>1. \A f : f = FALSE => Pending = pend
    <3> SUFFICES ASSUME NEW f, f = FALSE PROVE Pending = pend
      OBVIOUS
    <3>1. f \in BOOLEAN /\ Contents(writeBuffer, pend, f)
      BY <1>1
    <3> QED
      BY <1>1, <3>1, ReadingOfBuffer DEF Pending
  <2> QED
    BY <2>1
<1>3. Readable.elems = elems /\ Readable.ended = IF tainted THEN "invalid" ELSE "all"
  <2>1. CASE doing \in {"closed", "resizing"} /\ metadata.exists
    <3> DEFINE max  == metadata.maxSize
               from == metadata.head
               room == metadata.size
    <3>1. Readable = Reading(data, max, from, room, room)
      BY <2>1 DEF Readable, Refilling
    <3>2. Contents(RingOf(data, max, from, room), elems, tainted)
      BY <1>1, <2>1 DEF SavedCells, Refilling
    <3>3. Geometry(data, max, from, room)
      BY <1>1, <2>1
    <3> HIDE DEF max, from, room
    <3> QED
      BY <1>1, <3>1, <3>2, <3>3, ReadingOfAll
  <2>2. CASE Refilling
    <3>1. Readable = Reading(buffer, Len(buffer), 0, Len(buffer), Len(buffer))
      BY <2>2 DEF Readable, Refilling
    <3>2. Contents(buffer, elems, tainted)
      BY <1>1, <2>2 DEF SavedCells
    <3> QED
      BY <1>1, <3>1, <3>2, ReadingOfBuffer
  <2>3. CASE Open
    <3>1. Readable = Reading(data, maxSize, head, size, size)
      BY <2>3 DEF Readable, Open, Refilling, ReadUpTo
    <3>2. /\ Geometry(data, maxSize, head, size)
          /\ Contents(RingOf(data, maxSize, head, size), elems, tainted)
      BY <2>3, WhenOpen DEF OpenFacts
    <3> QED
      BY <1>1, <3>1, <3>2, ReadingOfAll
  <2>4. CASE doing \in {"closed", "resizing"} /\ ~metadata.exists
    <3>1. Readable = Reading(data, 0, 0, 0, 0)
      BY <1>1, <2>4 DEF Readable, Refilling, NoMetadata
    <3>2. SavedCells = << >>
      <4>1. RingOf(data, 0, 0, 0) = << >>
        BY RingOfNone
      <4> QED
        BY <1>1, <2>4, <4>1 DEF SavedCells, Refilling, NoMetadata
    <3>3. Contents(<< >>, elems, tainted)
      BY <1>1, <3>2
    <3>4. elems = << >> /\ tainted = FALSE
      BY <1>1, <3>3, ContentsOfNone
    <3>5. \A z : z = 0 => /\ Reading(data, z, z, z, z).elems = << >>
                          /\ Reading(data, z, z, z, z).ended = "all"
      <4> SUFFICES ASSUME NEW z, z = 0
                   PROVE  /\ Reading(data, z, z, z, z).elems = << >>
                          /\ Reading(data, z, z, z, z).ended = "all"
        OBVIOUS
      <4> QED
        BY <1>1, ReadingOfNone
    <3> QED
      BY <3>1, <3>4, <3>5
  <2> QED
    BY <1>1, <2>1, <2>2, <2>3, <2>4 DEF TypeOK, Open, Refilling
<1> QED
  BY <1>2, <1>3 DEF Mapped

\* The same as a formula, to be taken to the state after a step.
LEMMA ReadableOfAll == \A elems, pend, tainted :
                         Inv(elems, pend, tainted) => Mapped(elems, pend, tainted)
BY ReadableIs

\* The same of the state after a step.
LEMMA ReadableAfter == (\A elems, pend, tainted :
                          Inv(elems, pend, tainted) => Mapped(elems, pend, tainted))'
BY ReadableOfAll, PTL

-----------------------------------------------------------------------------
(* The theorems *)

\* The invariant is one of some elements where nothing was damaged.
LEMMA WholeIs ==
  ASSUME WholeInv
  PROVE  \E elems, pend, tainted : Inv(elems, pend, tainted)
BY DEF WholeInv, IInv, InStep

\* Every variable of the circular file keeps its type.
THEOREM TypeCorrect ==
  ASSUME MetadataKept
  PROVE  Spec => []TypeOK
<1>1. WholeInv => TypeOK
  BY WholeIs DEF Inv
<1> QED
  BY <1>1, WholeInvariance, PTL

\* What the invariant says of reading.
LEMMA SavedIsRead ==
  ASSUME NEW elems, NEW pend, NEW tainted, Inv(elems, pend, tainted)
  PROVE  OnlySavedIsRead
<1>1. /\ Readable.elems = elems
      /\ Readable.ended = IF tainted THEN "invalid" ELSE "all"
  BY ReadableIs DEF Mapped
<1>2. /\ elems \in Seq(Element) /\ DOMAIN elems = 1..Len(elems)
      /\ powerLost \/ (~tainted /\ \A i \in 1..Len(elems) : elems[i][1] # 0)
  BY LenProperties DEF Inv, Holds
<1>3. CASE powerLost
  BY <1>1, <1>3 DEF OnlySavedIsRead
<1>4. CASE ~tainted /\ \A i \in 1..Len(elems) : elems[i][1] # 0
  BY <1>1, <1>2, <1>4 DEF OnlySavedIsRead
<1> QED
  BY <1>2, <1>3, <1>4

\* What the invariant says of the size of the data file.
LEMMA FileIsLimited ==
  ASSUME NEW elems, NEW pend, NEW tainted, Inv(elems, pend, tainted)
  PROVE  PhysicalSizeLimited
BY DEF Inv, Shape, FilesOK, Geometry, PhysicalSizeLimited

\* What the invariant says of opening the file again.
LEMMA FileOpens ==
  ASSUME NEW elems, NEW pend, NEW tainted, Inv(elems, pend, tainted)
  PROVE  OpensAgain
BY DEF Inv, Shape, FilesOK, OpensAgain

\* emer_circular_file_read returns only elements that were saved, whole, and
\* never runs into cells that are not a record, whatever write failed and
\* wherever the process was killed before.  After a power loss it may also end
\* where cells were zeroed.
THEOREM ReadsOnlySaved ==
  ASSUME MetadataKept
  PROVE  Spec => []OnlySavedIsRead
<1>1. WholeInv => OnlySavedIsRead
  BY WholeIs, SavedIsRead
<1> QED
  BY <1>1, WholeInvariance, PTL

\* emer_circular_file_new accepts what is on the disk, with any maximum size,
\* unless the file was given no room at all.
THEOREM OpensEveryTime ==
  ASSUME MetadataKept
  PROVE  Spec => []OpensAgain
<1>1. WholeInv => OpensAgain
  BY WholeIs, FileOpens
<1> QED
  BY <1>1, WholeInvariance, PTL

\* The data file never outgrows the maximum size its metadata state.
THEOREM DataFileLimited ==
  ASSUME MetadataKept
  PROVE  Spec => []PhysicalSizeLimited
<1>1. WholeInv => PhysicalSizeLimited
  BY WholeIs, FileIsLimited
<1> QED
  BY <1>1, WholeInvariance, PTL

\* All of that holds whatever fails, and no token exceeds the size it is subtracted from,
\* until a save follows a failed removal or purge, or the file is reinitialized with less
\* room than its data take: nothing else does harm.
THEOREM HarmlessFaults == Spec => []HarmlessUntilDamaged
<1>1. IInv => HarmlessUntilDamaged
  <2> SUFFICES ASSUME NEW elems, NEW pend, NEW tainted, Inv(elems, pend, tainted)
               PROVE  HarmlessUntilDamaged
    BY DEF IInv, HarmlessUntilDamaged
  <2>1. Token <= size
    <3>1. CASE Open
      <4>1. Token \in 0..size /\ size \in Nat
        BY <3>1, TokenFacts DEF Inv, TypeOK
      <4> QED
        BY <4>1
    <3>2. CASE ~Open
      <4>1. answer = << >> /\ size \in Nat
        BY <3>2 DEF Inv, TypeOK, Shape, ClosedOK, ResizingOK, RefillingOK, Open, Refilling
      <4>2. Token = 0
        BY <4>1, TokenOfNone
      <4> QED
        BY <4>1, <4>2
    <3> QED
      BY <3>1, <3>2
  <2> QED
    BY <2>1, SavedIsRead, FileIsLimited, FileOpens DEF HarmlessUntilDamaged
<1> QED
  BY <1>1, Invariance, PTL

-----------------------------------------------------------------------------
(* The FIFO *)

\* The state of the FIFO, and its actions, in terms of what can be read.
Status ==
  CASE doing = "closed" -> "closed"
    [] doing = "resizing" -> "opening"
    [] Refilling -> "cut"
    [] OTHER -> "open"
Saved   == Readable.elems
Tainted == Readable.ended = "invalid"

FifoIs(elems, pend, tainted) == Saved = elems /\ Pending = pend /\ Tainted = tainted

\* The invariant determines the state of the FIFO.
LEMMA FifoState == \A elems, pend, tainted :
  Inv(elems, pend, tainted) => FifoIs(elems, pend, tainted)
<1> SUFFICES ASSUME NEW elems, NEW pend, NEW tainted, Inv(elems, pend, tainted)
             PROVE  FifoIs(elems, pend, tainted)
  OBVIOUS
<1>1. Mapped(elems, pend, tainted) /\ tainted \in BOOLEAN
  BY ReadableIs DEF Inv, Holds
<1>2. Tainted = tainted
  <2>1. CASE tainted = TRUE
    BY <1>1, <2>1 DEF Mapped, Tainted
  <2>2. CASE tainted = FALSE
    BY <1>1, <2>2 DEF Mapped, Tainted
  <2> QED
    BY <1>1, <2>1, <2>2
<1> QED
  BY <1>1, <1>2 DEF Mapped, FifoIs, Saved

\* Also after a step.
LEMMA FifoStateAfter == (\A elems, pend, tainted :
  Inv(elems, pend, tainted) => FifoIs(elems, pend, tainted))'
BY FifoState, PTL

\* The FIFO and its steps are what EmerFifo says, of the state above.
LEMMA FifoStutters ==
  UNCHANGED <<Status, maxSize, Saved, Pending, answer, Tainted>> => UNCHANGED Fifo!vars
BY DEF Fifo!vars, Status, Saved, Tainted

\* Its initial state.
LEMMA FifoInit ==
  Status = "closed" /\ maxSize = 0 /\ Saved = << >> /\ Pending = << >> /\ answer = << >>
    /\ Tainted = FALSE => Fifo!Init
BY DEF Fifo!Init, Status, Saved, Tainted

\* Open.
LEMMA FifoOpen ==
  /\ Status = "closed" /\ Status' \in {"opening", "open"} /\ maxSize' \in Limits
  /\ UNCHANGED <<Saved, Pending, answer, Tainted>>
  => Fifo!Open
BY DEF Fifo!Open, Status, Saved, Tainted

\* Cut.
LEMMA FifoCut ==
  /\ Status = "opening" /\ Status' = "cut" /\ Saved' = Fifo!Fitting(Saved, maxSize)
  /\ Tainted' \in {Tainted, FALSE} /\ UNCHANGED <<maxSize, Pending, answer>>
  => Fifo!Cut
BY DEF Fifo!Cut, Status, Saved, Tainted

\* Opened.
LEMMA FifoOpened ==
  /\ Status = "cut" /\ Status' = "open"
  /\ UNCHANGED <<maxSize, Saved, Pending, answer, Tainted>>
  => Fifo!Opened
BY DEF Fifo!Opened, Status, Saved, Tainted

\* Close.
LEMMA FifoClose ==
  /\ Status # "closed" /\ Status' = "closed" /\ maxSize' = 0
  /\ IF Status = "cut" THEN Saved' = << >> /\ Tainted' = FALSE
                       ELSE UNCHANGED <<Saved, Tainted>>
  /\ Pending' = << >> /\ answer' = << >>
  => Fifo!Close
BY DEF Fifo!Close, Status, Saved, Tainted

\* PowerLoss.
LEMMA FifoPowerLoss ==
  /\ \E k \in 0..Len(Saved) :
       \/ Saved' = SubSeq(Saved, 1, k)
       \/ k > 0 /\ Saved' = [SubSeq(Saved, 1, k) EXCEPT ![k] = <<0, Saved[k][2]>>]
  /\ Tainted' \in BOOLEAN /\ Status' = "closed" /\ maxSize' = 0
  /\ Pending' = << >> /\ answer' = << >>
  => Fifo!PowerLoss
BY DEF Fifo!PowerLoss, Status, Saved, Tainted

\* AppendElement.
LEMMA FifoAppend ==
  \A e : /\ Status = "open"
         /\ Fifo!Cost(Saved) + Fifo!Cost(Pending) + Fifo!Cost(<<e>>) <= maxSize
         /\ Pending' = Append(Pending, e)
         /\ UNCHANGED <<Status, maxSize, Saved, answer, Tainted>>
         => Fifo!AppendElement(e)
BY DEF Fifo!AppendElement, Status, Saved, Tainted

\* Save.
LEMMA FifoSave ==
  /\ Status = "open" /\ Saved' = IF Tainted THEN Saved ELSE Saved \o Pending
  /\ Pending' = << >> /\ UNCHANGED <<Status, maxSize, answer, Tainted>>
  => Fifo!Save
BY DEF Fifo!Save, Status, Saved, Tainted

\* Read.
LEMMA FifoRead ==
  /\ Status = "open" /\ \E n \in 0..maxSize : answer' = Fifo!Holding(Saved, n)
  /\ UNCHANGED Tainted \/ (answer' = Saved /\ Tainted' = FALSE)
  /\ UNCHANGED <<Status, maxSize, Saved, Pending>>
  => Fifo!Read
BY DEF Fifo!Read, Status, Saved, Tainted

\* RemoveRead.
LEMMA FifoRemove ==
  /\ Status = "open" /\ Saved' = SubSeq(Saved, Len(answer) + 1, Len(Saved))
  /\ answer' = << >> /\ UNCHANGED <<Status, maxSize, Pending, Tainted>>
  => Fifo!RemoveRead
BY DEF Fifo!RemoveRead, Status, Saved, Tainted

\* Purge.
LEMMA FifoPurge ==
  /\ Status = "open" /\ Saved' = << >> /\ answer' = << >> /\ Tainted' = FALSE
  /\ UNCHANGED <<Status, maxSize, Pending>>
  => Fifo!Purge
BY DEF Fifo!Purge, Status, Saved, Tainted

-----------------------------------------------------------------------------
(* What elements cost, and how many there is room for *)

\* What elements cost is the room they take.
LEMMA CostIs ==
  ASSUME NEW elems
  PROVE  Fifo!Cost(elems) = Total(elems, HeaderCells)
BY DEF Fifo!Cost, Total, SumFunction, Fifo!SumFunction, SumFunctionOnSet,
       Fifo!SumFunctionOnSet, FoldFunctionOnSet, Fifo!FoldFunctionOnSet, MapThenFoldSet,
       Fifo!MapThenFoldSet

\* How long they are is the room they would take without headers.
LEMMA LengthIs ==
  ASSUME NEW elems \in Seq(Element)
  PROVE  Fifo!Length(elems) = Total(elems, 0)
<1>1. \A i \in DOMAIN elems : 0 + elems[i][2] = elems[i][2]
  BY LenProperties, ElementOfSeq DEF Element
<1>2. [i \in DOMAIN elems |-> 0 + elems[i][2]] = [i \in DOMAIN elems |-> elems[i][2]]
  BY <1>1
<1>3. Total(elems, 0) = SumFunction([i \in DOMAIN elems |-> elems[i][2]])
  BY <1>2 DEF Total
<1> QED
  BY <1>3 DEF Fifo!Length, SumFunction, Fifo!SumFunction, SumFunctionOnSet,
       Fifo!SumFunctionOnSet, FoldFunctionOnSet, Fifo!FoldFunctionOnSet, MapThenFoldSet,
       Fifo!MapThenFoldSet

\* The greatest number of a set is the one that is not less than any.
LEMMA MaxIs ==
  ASSUME NEW S, NEW k \in S, S \subseteq Nat, \A j \in S : j <= k
  PROVE  Fifo!Max(S) = k
<1>1. \E x \in S : \A y \in S : x >= y
  BY SMT
<1>2. Fifo!Max(S) \in S /\ \A y \in S : Fifo!Max(S) >= y
  BY <1>1 DEF Fifo!Max
<1> DEFINE m == Fifo!Max(S)
<1> HIDE DEF m
<1>3. m \in Nat /\ k \in Nat /\ m >= k /\ m <= k
  BY <1>2 DEF m
<1>4. m = k
  BY <1>3
<1> QED
  BY <1>4 DEF m

\* The elements that fit are the most there is room for.
LEMMA FittingIs ==
  ASSUME NEW elems \in Seq(Element), NEW n \in Nat, NEW k \in 0..Len(elems),
         Most(elems, HeaderCells, n, k)
  PROVE  Fifo!Fitting(elems, n) = First(elems, k)
<1> DEFINE S == {j \in 0..Len(elems) : Fifo!Cost(First(elems, j)) <= n}
<1>1. Fifo!Fitting(elems, n) = First(elems, Fifo!Max(S))
  BY DEF Fifo!Fitting, First
<1>2. \A j \in 0..Len(elems) : j \in S <=> j <= k
  BY CostIs DEF Most
<1>3. k \in S /\ S \subseteq Nat /\ \A j \in S : j <= k
  BY <1>2, LenProperties
<1> HIDE DEF S
<1> QED
  BY <1>1, <1>3, MaxIs

\* So are those that a reader takes.
LEMMA HoldingIs ==
  ASSUME NEW elems \in Seq(Element), NEW n \in Nat, NEW k \in 0..Len(elems),
         Most(elems, 0, n, k)
  PROVE  Fifo!Holding(elems, n) = First(elems, k)
<1> DEFINE S == {j \in 0..Len(elems) : Fifo!Length(First(elems, j)) <= n}
<1>1. Fifo!Holding(elems, n) = First(elems, Fifo!Max(S))
  BY DEF Fifo!Holding, First
<1>2. \A j \in 0..Len(elems) : j \in S <=> j <= k
  <2>1. \A j \in 0..Len(elems) : First(elems, j) \in Seq(Element)
    BY FirstFacts
  <2> QED
    BY <2>1, LengthIs DEF Most
<1>3. k \in S /\ S \subseteq Nat /\ \A j \in S : j <= k
  BY <1>2, LenProperties
<1> HIDE DEF S
<1> QED
  BY <1>1, <1>3, MaxIs

-----------------------------------------------------------------------------
(* The steps *)

\* What the FIFO is before and after a step, if both states are well.
LEMMA FifoBefore ==
  ASSUME NEW elems, NEW pend, NEW tainted, Inv(elems, pend, tainted)
  PROVE  /\ Saved = elems /\ Pending = pend /\ Tainted = tainted
         /\ elems \in Seq(Element) /\ pend \in Seq(Element) /\ tainted \in BOOLEAN
         /\ Len(elems) \in Nat
<1>1. FifoIs(elems, pend, tainted)
  BY FifoState
<1>2. elems \in Seq(Element) /\ pend \in Seq(Element) /\ tainted \in BOOLEAN
  BY DEF Inv, Holds
<1> QED
  BY <1>1, <1>2, LenProperties DEF FifoIs

\* The same after a step.
LEMMA FifoAfter ==
  ASSUME NEW elems, NEW pend, NEW tainted, Inv(elems, pend, tainted)'
  PROVE  Saved' = elems /\ Pending' = pend /\ Tainted' = tainted
<1>1. FifoIs(elems, pend, tainted)'
  BY FifoStateAfter
<1> QED
  BY <1>1 DEF FifoIs

\* A step that leaves the elements, and the phase, leaves the FIFO.
LEMMA SameFifo ==
  ASSUME NEW elems, NEW pend, NEW tainted, Inv(elems, pend, tainted),
         Inv(elems, pend, tainted)', Status' = Status, UNCHANGED <<maxSize, answer>>
  PROVE  UNCHANGED Fifo!vars
<1>1. Saved' = Saved /\ Pending' = Pending /\ Tainted' = Tainted
  BY FifoBefore, FifoAfter
<1> QED
  BY <1>1, FifoStutters

\* Opening a file opens the FIFO.
LEMMA OpenRefines ==
  ASSUME NEW elems, NEW pend, NEW tainted, Inv(elems, pend, tainted),
         NEW limit \in Limits, Initialize(limit) \/ Load(limit), ~damaged'
  PROVE  Fifo!Open
<1>1. Inv(elems, pend, tainted)'
  BY InitializeStep, LoadStep
<1>2. Saved' = Saved /\ Pending' = Pending /\ Tainted' = Tainted
  BY <1>1, FifoBefore, FifoAfter
<1>3. /\ doing = "closed" /\ doing' \in {"idle", "resizing"} /\ maxSize' = limit
      /\ answer' = answer
  BY DEF Initialize, Load
<1>4. Status = "closed" /\ Status' \in {"opening", "open"}
  BY <1>3 DEF Status, Refilling
<1> QED
  BY <1>2, <1>3, <1>4, FifoOpen

\* Making the file logically empty cuts the FIFO.
LEMMA CutRefines ==
  ASSUME NEW elems, NEW pend, NEW tainted, Inv(elems, pend, tainted), OverwriteEmpties
  PROVE  Fifo!Cut
<1>1. PICK k, t : /\ k \in 0..Len(elems) /\ (t = tainted \/ t = FALSE)
                  /\ Most(elems, HeaderCells, maxSize, k) /\ Inv(First(elems, k), pend, t)'
  BY OverwriteEmptiesStep
<1>2. /\ Saved = elems /\ Pending = pend /\ Tainted = tainted
      /\ elems \in Seq(Element) /\ maxSize \in Nat
  BY FifoBefore DEF Inv, TypeOK
<1>3. Saved' = First(elems, k) /\ Pending' = pend /\ Tainted' = t
  BY <1>1, FifoAfter
<1>4. Fifo!Fitting(elems, maxSize) = First(elems, k)
  BY <1>1, <1>2, FittingIs
<1>5. doing = "resizing" /\ doing' = "replacing" /\ UNCHANGED <<maxSize, answer>>
  BY DEF OverwriteEmpties, history
<1>6. Status = "opening" /\ Status' = "cut"
  BY <1>5 DEF Status, Refilling
<1> QED
  BY <1>1, <1>2, <1>3, <1>4, <1>5, <1>6, FifoCut

\* Setting the size of what it was replaced with ends opening.
LEMMA OpenedRefines ==
  ASSUME NEW elems, NEW pend, NEW tainted, Inv(elems, pend, tainted), OverwriteRefills
  PROVE  Fifo!Opened
<1>1. Saved' = Saved /\ Pending' = Pending /\ Tainted' = Tainted
  BY OverwriteRefillsStep, FifoBefore, FifoAfter
<1>2. doing = "refilling" /\ doing' = "idle" /\ UNCHANGED <<maxSize, answer>>
  BY DEF OverwriteRefills, history
<1>3. Status = "cut" /\ Status' = "open"
  BY <1>2 DEF Status, Refilling
<1> QED
  BY <1>1, <1>2, <1>3, FifoOpened

\* Freeing the file, or dying, closes the FIFO.
LEMMA CloseRefines ==
  ASSUME NEW elems, NEW pend, NEW tainted, Inv(elems, pend, tainted), doing # "closed",
         Closed, UNCHANGED <<files, appended, refused, powerLost, damaged>>
  PROVE  Fifo!Close
<1>1. doing' = "closed" /\ maxSize' = 0 /\ answer' = << >>
  BY DEF Closed
<1>2. Status' = "closed" /\ Status # "closed" /\ (Status = "cut" <=> Refilling)
  BY <1>1 DEF Status, Refilling
<1>3. Saved = elems /\ Tainted = tainted
  BY FifoBefore
<1>4. CASE Refilling
  <2>1. Inv(<< >>, << >>, FALSE)'
    BY <1>4, CloseStep
  <2>2. Saved' = << >> /\ Pending' = << >> /\ Tainted' = FALSE
    BY <2>1, FifoAfter
  <2> QED
    BY <1>1, <1>2, <1>4, <2>2, FifoClose
<1>5. CASE ~Refilling
  <2>1. Inv(elems, << >>, tainted)'
    BY <1>5, CloseStep
  <2>2. Saved' = elems /\ Pending' = << >> /\ Tainted' = tainted
    BY <2>1, FifoAfter
  <2> QED
    BY <1>1, <1>2, <1>3, <1>5, <2>2, FifoClose
<1> QED
  BY <1>4, <1>5

\* A power loss is one of the FIFO.
LEMMA PowerLossRefines ==
  ASSUME NEW elems, NEW pend, NEW tainted, Inv(elems, pend, tainted), PowerLoss
  PROVE  Fifo!PowerLoss
<1>1. PICK k \in 0..Len(elems), kept \in Seq(Element), t \in BOOLEAN :
        Survivors(kept, elems, k) /\ Inv(kept, << >>, t)'
  BY PowerLossStep
<1>2. Saved = elems
  BY FifoBefore
<1>3. Saved' = kept /\ Pending' = << >> /\ Tainted' = t
  BY <1>1, FifoAfter
<1>4. doing' = "closed" /\ maxSize' = 0 /\ answer' = << >>
  BY DEF PowerLoss, Closed
<1>5. Status' = "closed"
  BY <1>4 DEF Status, Refilling
<1>6. \/ Saved' = SubSeq(Saved, 1, k)
      \/ k > 0 /\ Saved' = [SubSeq(Saved, 1, k) EXCEPT ![k] = <<0, Saved[k][2]>>]
  BY <1>1, <1>2, <1>3 DEF Survivors, First
<1>7. Tainted' \in BOOLEAN
  BY <1>1, <1>3
<1> QED
  BY <1>2, <1>3, <1>4, <1>5, <1>6, <1>7, FifoPowerLoss

\* Appending to the write buffer appends to the FIFO.
LEMMA AppendRefines ==
  ASSUME NEW elems, NEW pend, NEW tainted, Inv(elems, pend, tainted),
         NEW n \in Lengths, AppendElement(n)
  PROVE  \E e \in (1..MaxElements) \X Lengths : Fifo!AppendElement(e)
<1> DEFINE ring == RingOf(data, maxSize, head, size)
<1>1. PICK id : id = appended + 1
  OBVIOUS
<1> DEFINE e == <<id, n>>
<1>2. Inv(elems, Append(pend, e), tainted)'
  BY <1>1, AppendStep
<1>3. Saved' = Saved /\ Pending = pend /\ Pending' = Append(pend, e) /\ Tainted' = Tainted
  <2> DEFINE more == Append(pend, e)
  <2>1. Inv(elems, more, tainted)'
    BY <1>2
  <2> HIDE DEF more
  <2>2. Saved' = elems /\ Pending' = more /\ Tainted' = tainted
    BY <2>1, FifoAfter
  <2> QED
    BY <2>2, FifoBefore DEF more
<1>4. OpenFacts(elems, pend, tainted, ring)
  BY WhenOpen DEF Open, AppendElement, Idle
<1>5. /\ doing = "idle" /\ doing' = doing /\ UNCHANGED <<maxSize, answer>>
      /\ size + Len(writeBuffer) + HeaderCells + n <= maxSize
  BY DEF AppendElement, Idle
<1>6. id \in 1..MaxElements /\ n \in Nat \ {0}
  BY <1>1, <1>4, CircularFileAssumption DEF AppendElement, OpenFacts, TypeOK
<1>7. Status = "open" /\ Status' = Status
  BY <1>5 DEF Status, Refilling
<1>8. /\ elems \in Seq(Element) /\ pend \in Seq(Element) /\ tainted \in BOOLEAN
      /\ ring \in Seq(Cell) /\ Len(ring) = size /\ Contents(ring, elems, tainted)
      /\ Contents(writeBuffer, pend, FALSE) /\ size \in Nat /\ Len(writeBuffer) \in Nat
      /\ maxSize \in Nat /\ HeaderCells \in Nat /\ Saved = elems
  BY <1>4, FifoBefore, CircularFileAssumption DEF OpenFacts
<1> HIDE DEF ring
<1>9. Total(elems, HeaderCells) \in Nat /\ Total(elems, HeaderCells) <= size
  BY <1>8, TotalType DEF Contents
<1>10. Total(pend, HeaderCells) = Len(writeBuffer)
  BY <1>8 DEF Contents
<1>11. Fifo!Cost(<<e>>) = HeaderCells + n
  BY <1>6, RecordFacts, CostIs
<1>12. Fifo!Cost(Saved) + Fifo!Cost(Pending) + Fifo!Cost(<<e>>) <= maxSize
  <2>1. /\ Fifo!Cost(Saved) = Total(elems, HeaderCells)
        /\ Fifo!Cost(Pending) = Total(pend, HeaderCells)
    BY <1>3, <1>8, CostIs
  <2> DEFINE a == Total(elems, HeaderCells)
             b == Total(pend, HeaderCells)
  <2> HIDE DEF a, b
  <2>2. a + b + (HeaderCells + n) <= maxSize
    BY <1>5, <1>6, <1>8, <1>9, <1>10 DEF a, b
  <2> QED
    BY <1>11, <2>1, <2>2 DEF a, b
<1>13. e \in (1..MaxElements) \X Lengths
  BY <1>6
<1> HIDE DEF e
<1>14. Fifo!AppendElement(e)
  BY <1>3, <1>5, <1>7, <1>12, FifoAppend
<1> QED
  BY <1>13, <1>14

\* Adding to the size is when what was pending is saved.
LEMMA SaveRefines ==
  ASSUME NEW elems, NEW pend, NEW tainted, Inv(elems, pend, tainted), AddToSize, ~damaged'
  PROVE  Fifo!Save
<1> DEFINE left == IF tainted THEN elems ELSE elems \o pend
<1>1. Inv(left, << >>, tainted)'
  BY AddToSizeStep
<1>2. Saved = elems /\ Pending = pend /\ Tainted = tainted
  BY FifoBefore
<1> HIDE DEF left
<1>3. Saved' = left /\ Pending' = << >> /\ Tainted' = tainted
  BY <1>1, FifoAfter
<1>4. doing = "adding" /\ doing' = "idle" /\ UNCHANGED <<maxSize, answer>>
  BY DEF AddToSize, Tears
<1>5. Status = "open" /\ Status' = "open"
  BY <1>4 DEF Status, Refilling
<1>6. Saved' = IF Tainted THEN Saved ELSE Saved \o Pending
  BY <1>2, <1>3 DEF left
<1> QED
  BY <1>2, <1>3, <1>4, <1>5, <1>6, FifoSave

\* Reading reads the FIFO.
LEMMA ReadRefines ==
  ASSUME NEW elems, NEW pend, NEW tainted, Inv(elems, pend, tainted),
         NEW limit \in 0..maxSize, Read(limit)
  PROVE  Fifo!Read
<1>1. limit \in Nat
  BY DEF Inv, TypeOK
<1>2. PICK k, t : /\ k \in 0..Len(elems) /\ (t = tainted \/ t = FALSE)
                  /\ Most(elems, 0, limit, k) /\ answer' = First(elems, k)
                  /\ t = tainted \/ k = Len(elems)
                  /\ Inv(elems, pend, t)'
  BY <1>1, ReadStep
<1>3. Saved = elems /\ Pending = pend /\ Tainted = tainted /\ elems \in Seq(Element)
  BY FifoBefore
<1>4. Saved' = elems /\ Pending' = pend /\ Tainted' = t
  BY <1>2, FifoAfter
<1>5. Fifo!Holding(Saved, limit) = answer'
  BY <1>1, <1>2, <1>3, HoldingIs
<1>6. doing = "idle" /\ doing' = doing /\ maxSize' = maxSize
  BY DEF Read, Idle
<1>7. Status = "open" /\ Status' = Status
  BY <1>6 DEF Status, Refilling
<1>8. UNCHANGED Tainted \/ (answer' = Saved /\ Tainted' = FALSE)
  <2>1. CASE t = tainted
    BY <1>3, <1>4, <2>1
  <2>2. CASE t # tainted
    <3>1. k = Len(elems) /\ t = FALSE
      BY <1>2, <2>2
    <3>2. answer' = elems
      BY <1>2, <1>3, <3>1, FirstAll
    <3> QED
      BY <1>3, <1>4, <3>1, <3>2
  <2> QED
    BY <2>1, <2>2
<1> QED
  BY <1>3, <1>4, <1>5, <1>6, <1>7, <1>8, FifoRead

\* Removing what was read removes it from the FIFO.
LEMMA RemoveRefines ==
  ASSUME NEW elems, NEW pend, NEW tainted, Inv(elems, pend, tainted), RemoveRead,
         "remove" \notin Faults
  PROVE  Fifo!RemoveRead
<1>0. SetMetadata(size - Token, After(head, Token, maxSize)) /\ answer' = << >>
  BY DEF RemoveRead
<1>1. PICK k \in 0..Len(elems) :
        answer = First(elems, k) /\ Inv(Rest(elems, k), pend, tainted)'
  BY <1>0, RemoveStep
<1>2. Saved = elems /\ Pending = pend /\ Tainted = tainted /\ elems \in Seq(Element)
  BY FifoBefore
<1>3. Saved' = Rest(elems, k) /\ Pending' = pend /\ Tainted' = tainted
  BY <1>1, FifoAfter
<1>4. Len(answer) = k
  BY <1>1, <1>2, FirstFacts
<1>5. doing = "idle" /\ doing' = doing /\ maxSize' = maxSize /\ answer' = << >>
  BY <1>0 DEF RemoveRead, Idle
<1>6. Status = "open" /\ Status' = Status
  BY <1>5 DEF Status, Refilling
<1>7. Saved' = SubSeq(Saved, Len(answer) + 1, Len(Saved))
  BY <1>2, <1>3, <1>4 DEF Rest
<1> QED
  BY <1>2, <1>3, <1>5, <1>6, <1>7, FifoRemove

\* Purging the file purges the FIFO.
LEMMA PurgeRefines ==
  ASSUME NEW elems, NEW pend, NEW tainted, Inv(elems, pend, tainted), Purge,
         "remove" \notin Faults
  PROVE  Fifo!Purge
<1>0. SetMetadata(0, 0) /\ answer' = << >>
  BY DEF Purge
<1>1. Inv(<< >>, pend, FALSE)'
  BY <1>0, PurgeStep
<1>2. Pending = pend
  BY FifoBefore
<1>3. Saved' = << >> /\ Pending' = pend /\ Tainted' = FALSE
  BY <1>1, FifoAfter
<1>4. doing = "idle" /\ doing' = doing /\ maxSize' = maxSize /\ answer' = << >>
  BY <1>0 DEF Purge, Idle
<1>5. Status = "open" /\ Status' = Status
  BY <1>4 DEF Status, Refilling
<1> QED
  BY <1>2, <1>3, <1>4, <1>5, FifoPurge

\* The other steps are not seen.
LEMMA StutterRefines ==
  ASSUME NEW elems, NEW pend, NEW tainted, Inv(elems, pend, tainted),
         \/ \E limit \in Limits : RefuseMetadata(limit)
         \/ OverwriteReplaces \/ WriteStart \/ WriteTail \/ WriteFails \/ AddToSizeFails
         \/ UNCHANGED vars
  PROVE  UNCHANGED Fifo!vars
<1>1. Inv(elems, pend, tainted)'
  BY RefuseStep, OverwriteReplacesStep, WriteStartStep, WriteTailStep, WriteFailsStep,
     AddToSizeFailsStep, StutterStep
<1>2. UNCHANGED <<maxSize, answer>>
  BY DEF RefuseMetadata, OverwriteReplaces, WriteStart, WriteTail, WriteFails, AddToSizeFails,
         vars, memory, history
<1>3. Status' = Status
  BY DEF Status, Refilling, RefuseMetadata, OverwriteReplaces, WriteStart, WriteTail,
         WriteFails, AddToSizeFails, Idle, vars
<1> QED
  BY <1>1, <1>2, <1>3, SameFifo

\* Every step is a step of the FIFO, or is not seen.
LEMMA NextRefines ==
  ASSUME MetadataKept, WholeInv, WholeInv', [Next]_vars
  PROVE  [Fifo!Next]_(Fifo!vars)
<1>0. ~damaged'
  BY DEF WholeInv, InStep
<1>1. PICK elems, pend, tainted : Inv(elems, pend, tainted)
  BY WholeIs
<1>2. "remove" \notin Faults /\ "corrupt" \notin Faults
  BY DEF MetadataKept
<1>3. ASSUME NEW limit \in Limits, Initialize(limit) \/ RefuseMetadata(limit) \/ Load(limit)
      PROVE  Fifo!Open \/ UNCHANGED Fifo!vars
  BY <1>0, <1>1, <1>3, OpenRefines, StutterRefines
<1>4. CASE OverwriteEmpties
  BY <1>1, <1>4, CutRefines DEF Fifo!Next
<1>5. CASE OverwriteRefills
  BY <1>1, <1>5, OpenedRefines DEF Fifo!Next
<1>6. CASE OpenFails \/ Quit
  <2>1. Closed /\ doing # "closed" /\ UNCHANGED <<files, appended, refused, powerLost, damaged>>
    BY <1>6 DEF OpenFails, Quit, Idle
  <2>2. Fifo!Close
    BY <1>1, <2>1, CloseRefines
  <2> QED
    BY <2>2 DEF Fifo!Next
<1>7. ASSUME NEW n \in Lengths, AppendElement(n) PROVE Fifo!Next
  BY <1>1, <1>7, AppendRefines DEF Fifo!Next
<1>8. CASE AddToSize
  BY <1>0, <1>1, <1>8, SaveRefines DEF Fifo!Next
<1>9. ASSUME NEW limit \in 0..maxSize, Read(limit) PROVE Fifo!Read
  BY <1>1, <1>9, ReadRefines
<1>10. CASE RemoveRead
  BY <1>1, <1>2, <1>10, RemoveRefines DEF Fifo!Next
<1>11. CASE Purge
  BY <1>1, <1>2, <1>11, PurgeRefines DEF Fifo!Next
<1>12. CASE PowerLoss
  BY <1>1, <1>12, PowerLossRefines DEF Fifo!Next
<1>13. CASE LoseMetadata
  BY <1>2, <1>13 DEF LoseMetadata
<1>14. CASE OverwriteReplaces \/ WriteStart \/ WriteTail \/ WriteFails \/ AddToSizeFails
            \/ UNCHANGED vars
  BY <1>1, <1>14, StutterRefines
<1> QED
  BY <1>3, <1>4, <1>5, <1>6, <1>7, <1>8, <1>9, <1>10, <1>11, <1>12, <1>13, <1>14
  DEF Next, Fifo!Next

\* For all lengths, maximum sizes and numbers of elements, the circular file,
\* with its ring of cells, its two files and the order in which they are written,
\* is the bounded FIFO of EmerFifo, element for element.
THEOREM Refinement ==
  ASSUME MetadataKept
  PROVE  Spec => IsFifo
<1>1. Init => Fifo!Init
  <2> SUFFICES ASSUME Init PROVE Fifo!Init
    OBVIOUS
  <2>1. Inv(<< >>, << >>, FALSE)
    BY InitInv
  <2>2. Saved = << >> /\ Pending = << >> /\ Tainted = FALSE
    BY <2>1, FifoBefore
  <2>3. doing = "closed" /\ maxSize = 0 /\ answer = << >>
    BY DEF Init
  <2>4. Status = "closed"
    BY <2>3 DEF Status, Refilling
  <2> QED
    BY <2>2, <2>3, <2>4, FifoInit
<1>2. WholeInv /\ WholeInv' /\ [Next]_vars => [Fifo!Next]_(Fifo!vars)
  BY NextRefines
<1> QED
  BY <1>1, <1>2, WholeInvariance, PTL DEF Spec, IsFifo, Fifo!Spec
=============================================================================
