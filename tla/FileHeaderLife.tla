--------------------------- MODULE FileHeaderLife ---------------------------
(***************************************************************************)
(* The life of one file, for every size and several fragmented disks: its  *)
(* header is allocated, stored, fetched by a later OpenFile, and           *)
(* deallocated from the fetched copy; while it is open, bytes are written, *)
(* and the program may be killed between the sectors of a write.           *)
(***************************************************************************)
EXTENDS OpenFile

CONSTANTS MaxBytes,            \* bound on the size of the file
          UsedChoices,         \* the sets of sectors that are in use before
          Writable,            \* the sizes of the files that are written
          Positions, Lengths,  \* where and how much
          MaxWrites            \* bound on the number of writes

VARIABLES stage, fileSize, used,
          freeMap, disk,
          root,                \* the sector of the header
          hdr,                 \* the header that Allocate built
          opened,              \* the header that FetchFrom rebuilt
          seekPosition,
          pending,             \* the sector writes WriteAt has still to do
          writing,             \* the new bytes of that call, by position
          possible,            \* what each byte of the file may be
          count                \* of writes

header == <<fileSize, used, freeMap, root, hdr>>
access == <<seekPosition, pending, writing, possible, count>>
vars == <<stage, disk, opened, header, access>>

NoHeader == [kids |-> <<>>]

Init == /\ stage = "new"
        /\ fileSize \in 1 .. MaxBytes
        /\ used \in UsedChoices
        /\ freeMap = PersistentBitmap(used)
        /\ disk = [s \in Bits |-> Data([j \in 1 .. SectorSize |-> <<s, j>>])]
        /\ root = -1 /\ hdr = NoHeader /\ opened = NoHeader
        /\ seekPosition = 0 /\ pending = <<>> /\ writing = <<>>
        /\ possible = <<>> /\ count = 0

\* CreateFileDir takes a sector for the header, then allocates the rest.
Taken == FindAndSet(freeMap)
New == Allocate(Taken.bitmap, divRoundUp(fileSize, SectorSize), 0, fileSize)

\* The file begins with what its sectors held before.
AllocateHeader ==
    /\ stage = "new" /\ New.ok
    /\ stage' = "allocated"
    /\ root' = Taken.bit /\ hdr' = New.hdr /\ freeMap' = New.freeMap
    /\ possible' = [p \in 0 .. fileSize - 1 |->
                      {<<DataSectors(New.hdr)[firstSector(p) + 1], (p % SectorSize) + 1>>}]
    /\ UNCHANGED <<fileSize, used, disk, opened, seekPosition, pending, writing, count>>

\* An ASSERT_MSG of Allocate ends the program; the free map is not stored.
Refuse ==
    /\ stage = "new" /\ ~New.ok
    /\ stage' = "refused"
    /\ UNCHANGED <<disk, opened, header, access>>

Store == /\ stage = "allocated"
         /\ stage' = "stored"
         /\ disk' = Written(disk, WriteBack(hdr, root))
         /\ UNCHANGED <<opened, header, access>>

\* OpenFile::OpenFile.
Fetch == LET found == FetchFrom(disk, root, 0)
         IN /\ stage = "stored"
            /\ stage' = IF found.ok THEN "open" ELSE "aborted"
            /\ opened' = IF found.ok THEN found.hdr ELSE NoHeader
            /\ seekPosition' = 0
            /\ UNCHANGED <<disk, header, pending, writing, possible, count>>

Seek(position) ==
    /\ stage = "open" /\ pending = <<>> /\ count < MaxWrites
    /\ position <= fileSize
    /\ seekPosition' = position
    /\ UNCHANGED <<stage, disk, opened, header, pending, writing, possible, count>>

\* OpenFile::Write of numBytes that are new on this disk.
Write(numBytes) ==
    LET from == [j \in 1 .. numBytes |-> <<numBits + count, j>>]
        n == Checked(opened, numBytes, seekPosition)
    IN  /\ stage = "open" /\ pending = <<>> /\ count < MaxWrites
        /\ pending' = WriteAt(disk, opened, from, seekPosition)
        /\ writing' = [p \in seekPosition .. seekPosition + n - 1 |-> from[p - seekPosition + 1]]
        /\ seekPosition' = seekPosition + n
        /\ count' = count + 1
        /\ UNCHANGED <<stage, disk, opened, header, possible>>

\* SynchDisk::WriteSector, and after the last the write is over.
WriteSector ==
    /\ stage = "open" /\ pending # <<>>
    /\ disk' = Written(disk, <<Head(pending)>>)
    /\ pending' = Tail(pending)
    /\ \/ /\ Len(pending) > 1 /\ UNCHANGED <<writing, possible>>
       \/ /\ Len(pending) = 1
          /\ writing' = <<>>
          /\ possible' = [p \in DOMAIN possible |->
                            IF p \in DOMAIN writing THEN {writing[p]} ELSE possible[p]]
    /\ UNCHANGED <<stage, opened, header, seekPosition, count>>

\* The file is closed, or the program is killed, in the middle of a write or
\* not; another one may open the file.
Stop == /\ stage = "open"
        /\ stage' = "stored"
        /\ opened' = NoHeader
        /\ pending' = <<>> /\ writing' = <<>>
        /\ possible' = [p \in DOMAIN possible |->
                          possible[p] \cup (IF p \in DOMAIN writing THEN {writing[p]} ELSE {})]
        /\ seekPosition' = 0
        /\ UNCHANGED <<disk, header, count>>

Release == /\ stage = "open" /\ pending = <<>>
           /\ stage' = "removed"
           /\ freeMap' = Clear(Deallocate(opened, freeMap), root)
           /\ UNCHANGED <<fileSize, used, disk, root, hdr, opened, access>>

Access == /\ fileSize \in Writable
          /\ (\E p \in Positions : Seek(p)) \/ (\E n \in Lengths : Write(n)) \/ WriteSector \/ Stop

Next == AllocateHeader \/ Refuse \/ Store \/ Fetch \/ Access \/ Release

Spec == Init /\ [][Next]_vars

-----------------------------------------------------------------------------
\* ByteToSector maps the sectors of the file one to one and in order to the
\* data sectors of the tree, which were all free and are not header sectors.
SectorsInOrder ==
    stage = "open" =>
      LET data == DataSectors(opened)
          all  == data \o HeaderSectors(opened) \o <<root>>
      IN /\ Len(data) = divRoundUp(fileSize, SectorSize)
         /\ \A k \in DOMAIN data : ByteToSector(opened, k - 1) = data[k]
         /\ Cardinality(Range(all)) = Len(all)
         /\ Range(all) \cap used = {}
         /\ freeMap.map = used \cup Range(all)

\* A header is fetched as it was allocated: no ASSERT_MSG of FetchFrom fails,
\* and startSector, which is not stored, is rebuilt.
ReadsBack == /\ stage # "aborted"
             /\ stage = "open" => opened = hdr

\* Removal frees every data sector and the header's, and no one else's.
RemovalFrees ==
    stage = "removed" =>
      /\ used \subseteq freeMap.map
      /\ (Range(DataSectors(hdr)) \cup {root}) \cap freeMap.map = {}

\* A write, which reads, changes and writes back the sectors of its ends, sets
\* its own bytes and no others, whatever part of it reached the disk before the
\* program was killed, and a read returns the bytes asked for (openfile.cc).
FileHolds ==
    stage = "open" =>
      LET whole == ReadAt(disk, opened, fileSize, 0)
      IN /\ Len(whole) = fileSize
         /\ \A p \in 0 .. fileSize - 1 :
               \/ whole[p + 1] \in possible[p]
               \/ p \in DOMAIN writing /\ whole[p + 1] = writing[p]
         /\ \A p \in Positions, n \in Lengths :
               ReadAt(disk, opened, n, p) = SubSeq(whole, p + 1, Min({p + n, fileSize}))

Needed == SectorsFor(divRoundUp(fileSize, SectorSize))

\* FindAndSet counts every sector twice (bitmap.cc), which may only hurt a
\* file that needs half of the disk: any smaller one that fits is allocated.
AllocatesUpToHalf ==
    stage = "refused" => \/ Needed > Cardinality(ClearBits(freeMap))
                         \/ 2 * Needed >= numBits
=============================================================================
