----------------------------- MODULE FileHeader -----------------------------
(***************************************************************************)
(* The tree-shaped file header of the MP4 project (filesys/filehdr.cc).    *)
(* In memory a header is a record with one kid per used entry of           *)
(* dataSectors: the sector and, if the map marks the entry as NON_LEAF,    *)
(* the child header whose own sector it is; otherwise it is a sector of    *)
(* the file's data.  On disk each header takes one sector, with the        *)
(* dataSectors and the map but neither startSector nor children.           *)
(***************************************************************************)
EXTENDS Bitmap, Sequences, SequencesExt

CONSTANTS N_SECTORS,           \* entries of dataSectors
          SectorSize           \* bytes

ASSUME HeaderAssumption == N_SECTORS \in Nat \ {0, 1} /\ SectorSize \in Nat \ {0}

divRoundUp(n, s) == (n + s - 1) \div s

-----------------------------------------------------------------------------
\* N_SECTORS ^ floor(log n / log N_SECTORS), for n >= 1.
LargestPower[n \in Nat] ==
    IF n < N_SECTORS THEN 1 ELSE N_SECTORS * LargestPower[n \div N_SECTORS]

\* The data sectors below entry i (counted from 0) of a header of total data
\* sectors, when remain of them are left to place.
ChildSectors(i, remain, total) ==
    LET cur == IF i + 1 < N_SECTORS THEN LargestPower[remain] ELSE remain
    IN  IF remain = 1 THEN 1
        ELSE IF cur = total THEN cur \div N_SECTORS ELSE cur

RECURSIVE Split(_, _, _)
Split(i, remain, total) ==
    IF remain < 1 THEN <<>>
    ELSE LET cur == ChildSectors(i, remain, total)
         IN  <<cur>> \o Split(i + 1, remain - cur, total)

\* FileHeader::Allocate.  ok is FALSE when an ASSERT_MSG aborts the program
\* for lack of space; what was taken until then is lost with the process.
RECURSIVE Allocate(_, _, _, _)
Allocate(freeMap, totalSector, currentSector, totalBytes) ==
    LET start == [ok |-> TRUE, freeMap |-> freeMap, left |-> totalSector,
                  bytes |-> totalBytes, kids |-> <<>>, startSector |-> <<>>]
        Place(s, curSector) ==
          LET found == FindAndSet(s.freeMap)
              position == currentSector + totalSector - s.left
              curBytes == Min({curSector * SectorSize, s.bytes})
              sub == Allocate(found.bitmap, curSector, position, curBytes)
              leaf == curSector = 1
          IN IF ~s.ok \/ found.bit = -1 \/ (~leaf /\ ~sub.ok)
             THEN [s EXCEPT !.ok = FALSE]
             ELSE [ok |-> TRUE,
                   freeMap |-> IF leaf THEN found.bitmap ELSE sub.freeMap,
                   left |-> s.left - curSector,
                   bytes |-> s.bytes - curBytes,
                   kids |-> Append(s.kids,
                              [sector |-> found.bit,
                               child |-> IF leaf THEN <<>> ELSE <<sub.hdr>>]),
                   startSector |-> Append(s.startSector, position)]
        end == IF NumClear(freeMap) > totalSector
               THEN FoldLeft(Place, start, Split(0, totalSector, totalSector))
               ELSE [start EXCEPT !.ok = FALSE]
    IN [ok |-> end.ok /\ end.left = 0 /\ end.bytes = 0,
        freeMap |-> end.freeMap,
        hdr |-> [numBytes |-> totalBytes, numSectors |-> totalSector,
                 kids |-> end.kids,
                 startSector |-> Append(end.startSector,
                                        currentSector + totalSector)]]

HeaderWrite(hdr, sector) ==
    [sector |-> sector,
     content |-> [kind |-> "header",
                  numBytes |-> hdr.numBytes, numSectors |-> hdr.numSectors,
                  map |-> {i \in DOMAIN hdr.kids : hdr.kids[i].child # <<>>},
                  dataSectors |-> [i \in DOMAIN hdr.kids |-> hdr.kids[i].sector]]]

\* Mutant: the child headers are not stored.
WriteBackTop(hdr, sector) == <<HeaderWrite(hdr, sector)>>

\* FileHeader::WriteBack: the sectors written, in order, with their contents.
RECURSIVE WriteBack(_, _)
WriteBack(hdr, sector) ==
    LET Child(kid) == IF kid.child = <<>> THEN <<>>
                      ELSE WriteBack(kid.child[1], kid.sector)
    IN  <<HeaderWrite(hdr, sector)>>
          \o FlattenSeq([i \in DOMAIN hdr.kids |-> Child(hdr.kids[i])])

\* What the disk holds after writes.
Written(disk, writes) ==
    FoldLeft(LAMBDA d, w : [d EXCEPT ![w.sector] = w.content], disk, writes)

\* FileHeader::FetchFrom: the header is rebuilt depth first, and ok is FALSE if
\* its ASSERT_MSG fails: the sectors below it are not as many as it says.
RECURSIVE FetchFrom(_, _, _)
FetchFrom(disk, sector, currentSector) ==
    LET cache == disk[sector]
        Rebuild(s, i) ==
          LET leaf == i \notin cache.map
              sub == FetchFrom(disk, cache.dataSectors[i], currentSector + s.count)
          IN [ok |-> s.ok /\ (leaf \/ sub.ok),
              count |-> s.count + IF leaf THEN 1 ELSE sub.hdr.numSectors,
              kids |-> Append(s.kids, [sector |-> cache.dataSectors[i],
                                       child |-> IF leaf THEN <<>> ELSE <<sub.hdr>>]),
              startSector |-> Append(s.startSector, currentSector + s.count)]
        end == FoldLeft(Rebuild,
                        [ok |-> TRUE, count |-> 0, kids |-> <<>>, startSector |-> <<>>],
                        [i \in DOMAIN cache.dataSectors |-> i])
    IN IF cache.kind # "header" THEN [ok |-> FALSE, hdr |-> [numSectors |-> 0]]
       ELSE [ok |-> end.ok /\ end.count = cache.numSectors,
             hdr |-> [numBytes |-> cache.numBytes, numSectors |-> cache.numSectors,
                      kids |-> end.kids,
                      startSector |-> Append(end.startSector,
                                             currentSector + end.count)]]

\* Mutant: only the sectors of the top header are cleared.
DeallocateTop(hdr, freeMap) ==
    FoldLeft(LAMBDA m, kid : IF kid.child = <<>> THEN Clear(m, kid.sector) ELSE m,
             freeMap, hdr.kids)

\* FileHeader::Deallocate.  The sector of a child header itself stays marked.
RECURSIVE Deallocate(_, _)
Deallocate(hdr, freeMap) ==
    LET Release(m, kid) == IF kid.child = <<>>
                           THEN Clear(m, kid.sector)
                           ELSE Deallocate(kid.child[1], m)
    IN  FoldLeft(Release, freeMap, hdr.kids)

\* Mutant: the end of an entry's range is taken for part of it.
EntryLast(hdr, offsetSector) ==
    Min({i \in DOMAIN hdr.kids : offsetSector <= hdr.startSector[i + 1]})

\* The entry that covers a sector of the file.
Entry(hdr, offsetSector) ==
    Min({i \in DOMAIN hdr.kids : /\ offsetSector >= hdr.startSector[i]
                                 /\ offsetSector < hdr.startSector[i + 1]})

\* FileHeader::ByteToSector, of the first byte of a sector of the file.
RECURSIVE ByteToSector(_, _)
ByteToSector(hdr, offsetSector) ==
    LET kid == hdr.kids[Entry(hdr, offsetSector)]
    IN  IF kid.child = <<>> THEN kid.sector
        ELSE ByteToSector(kid.child[1], offsetSector)

-----------------------------------------------------------------------------
\* Reference: the data sectors and the header sectors below a header, in order.
RECURSIVE DataSectors(_)
DataSectors(hdr) ==
    FlattenSeq([i \in DOMAIN hdr.kids |->
                  IF hdr.kids[i].child = <<>> THEN <<hdr.kids[i].sector>>
                  ELSE DataSectors(hdr.kids[i].child[1])])

RECURSIVE HeaderSectors(_)
HeaderSectors(hdr) ==
    FlattenSeq([i \in DOMAIN hdr.kids |->
                  IF hdr.kids[i].child = <<>> THEN <<>>
                  ELSE <<hdr.kids[i].sector>> \o HeaderSectors(hdr.kids[i].child[1])])

\* The sectors that a file of total data sectors takes, headers included.
RECURSIVE SectorsFor(_)
SectorsFor(total) ==
    FoldLeft(LAMBDA n, c : n + IF c = 1 THEN 1 ELSE SectorsFor(c),
             1, Split(0, total, total))
=============================================================================
