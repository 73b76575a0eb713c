------------------------------ MODULE OpenFile ------------------------------
(***************************************************************************)
(* Reading and writing any bytes of an open file (filesys/openfile.cc) on  *)
(* a disk that moves whole sectors.  Sectors of data hold SectorSize bytes *)
(* each; bytes are any values.                                             *)
(***************************************************************************)
EXTENDS FileHeader

Zero == <<>>      \* the byte that memset puts into a new buffer
Other == <<"?">>  \* a byte of a sector that holds no data of a file

Data(bytes) == [kind |-> "data", bytes |-> bytes]
ReadSector(disk, sector) == IF disk[sector].kind = "data" THEN disk[sector].bytes
                            ELSE [j \in 1 .. SectorSize |-> Other]

\* "check request": the bytes that will be moved.
Checked(hdr, numBytes, position) ==
    IF numBytes <= 0 \/ position >= hdr.numBytes THEN 0
    ELSE Min({numBytes, hdr.numBytes - position})

firstSector(position) == position \div SectorSize
lastSector(position, numBytes) == (position + numBytes - 1) \div SectorSize

\* OpenFile::ReadAt: the bytes it puts into its buffer.
ReadAt(disk, hdr, numBytes, position) ==
    LET n == Checked(hdr, numBytes, position)
        first == firstSector(position)
        start == position - first * SectorSize
        buf == FlattenSeq([i \in 1 .. 1 + lastSector(position, n) - first |->
                             ReadSector(disk, ByteToSector(hdr, first + i - 1))])
    IN  IF n = 0 THEN <<>> ELSE SubSeq(buf, start + 1, start + n)

\* bcopy of bytes to offset at of buf.
Copied(buf, at, bytes) ==
    [j \in DOMAIN buf |-> IF j - at \in DOMAIN bytes THEN bytes[j - at] ELSE buf[j]]

\* Mutant: a write within one sector is taken to have read it already.
ReadsLastOfMany(first, last, firstAligned, lastAligned) == ~lastAligned /\ first # last

\* The last sector is read if it is partly modified and has not been read.
ReadsLast(first, last, firstAligned, lastAligned) ==
    ~lastAligned /\ (first # last \/ firstAligned)

\* OpenFile::WriteAt: the sectors it writes, in order, with their contents.
WriteAt(disk, hdr, from, position) ==
    LET n == Checked(hdr, Len(from), position)
        first == firstSector(position)
        last == lastSector(position, n)
        firstAligned == position = first * SectorSize
        lastAligned == position + n = (last + 1) * SectorSize
        Sector(k) == ReadAt(disk, hdr, SectorSize, k * SectorSize)
        new == [j \in 1 .. (1 + last - first) * SectorSize |-> Zero]
        head == IF firstAligned THEN new ELSE Copied(new, 0, Sector(first))
        both == IF ReadsLast(first, last, firstAligned, lastAligned)
                THEN Copied(head, (last - first) * SectorSize, Sector(last)) ELSE head
        buf == Copied(both, position - first * SectorSize, SubSeq(from, 1, n))
    IN  IF n = 0 THEN <<>>
        ELSE [i \in 1 .. 1 + last - first |->
                [sector  |-> ByteToSector(hdr, first + i - 1),
                 content |-> Data(SubSeq(buf, (i - 1) * SectorSize + 1, i * SectorSize))]]
=============================================================================
