----------------------------- MODULE FileSystem -----------------------------
(***************************************************************************)
(* The file system of the MP4 project (filesys/filesys.cc, directory.cc,   *)
(* openfile.cc, pbitmap.cc) on a disk of sectors.  An operation reads what *)
(* it needs and computes in memory, then writes sectors one at a time; the *)
(* program may be killed between two of them, and starts again on what the *)
(* disk holds.  One operation runs at a time, as filesys.cc assumes.       *)
(* The free map and each directory take several data sectors, and an entry *)
(* of a directory may lie across two of them: a kill can leave half of it. *)
(***************************************************************************)
EXTENDS FileHeader, TLC

CONSTANTS NumDirEntries,
          FieldSector,         \* which sector of a directory's data has the
                               \* field f of the entry i, at <<i, f>>
          MapSectors,          \* sectors of the free map's data
          NoName,              \* the name of an entry never used
          Path,                \* sequences of names: what ParsePath returns
          FileSizes,           \* in bytes
          OpenFileId,
          MayCrash,            \* is the program ever killed?
          MaxCalls             \* bound on creations and removals

VARIABLES disk,
          writes,              \* the sector writes still to do
          call,                \* the last operation and what it returns
          opTable,             \* of the running program
          \* History:
          tree,                \* what can be reached on disk from the root
          stale,               \* open files that have been removed
          torn,                \* was the program killed with half of an entry
                               \* written, or while it removed?
          lost,                \* what has taken sectors for good
          calls                \* creations and removals so far

vars == <<disk, writes, call, opTable, tree, stale, torn, lost, calls>>

FreeMapSector == 0
DirectorySector == 1

NoCall == [op |-> "none", path |-> <<>>, isDir |-> FALSE, result |-> "none"]
Nothing == [id \in {} |-> "none"]

Field == {"isDir", "inUse", "sector", "name"}
Cell == (1 .. NumDirEntries) \X Field
TableSectors == Max({FieldSector[c] : c \in Cell})

ASSUME LayoutAssumption == /\ DOMAIN FieldSector = Cell
                           /\ {FieldSector[c] : c \in Cell} = 1 .. TableSectors
                           /\ MapSectors \in Nat \ {0}

\* Whatever a sector holds that is not a header, a map or a table.
Data == [kind |-> "data"]

\* Directory::Directory: an entry of zeros.
Zeros == [isDir |-> FALSE, inUse |-> FALSE, sector |-> 0, name |-> NoName]
EmptyTable == [i \in 1 .. NumDirEntries |-> Zeros]

\* The k-th sector of the data of a directory, and of the free map.
TableContent(table, k) ==
    [kind |-> "table", cells |-> [c \in {e \in Cell : FieldSector[e] = k} |-> table[c[1]][c[2]]]]
MapContent(freeMap, k) ==
    LET InSector(bit) == 1 + bit \div divRoundUp(numBits, MapSectors)
    IN  [kind |-> "map", bits |-> {b \in Export(freeMap) : InSector(b) = k}]

\* Directory::WriteBack and PersistentBitmap::WriteBack: OpenFile::WriteAt writes
\* one sector of the data after another.
TableWrites(hdr, table) ==
    [k \in 1 .. hdr.numSectors |->
       [sector |-> ByteToSector(hdr, k - 1), content |-> TableContent(table, k)]]
MapWrites(hdr, freeMap) ==
    [k \in 1 .. hdr.numSectors |->
       [sector |-> ByteToSector(hdr, k - 1), content |-> MapContent(freeMap, k)]]

\* The data of the file whose header is at sector.
DataOf(d, hdr) == [k \in 1 .. hdr.numSectors |-> d[ByteToSector(hdr, k - 1)]]
Contents(d, sector) == DataOf(d, FetchFrom(d, sector, 0).hdr)

\* Directory::FetchFrom
Table(d, sector) ==
    LET data == Contents(d, sector)
    IN  [i \in 1 .. NumDirEntries |->
           [f \in Field |-> data[FieldSector[<<i, f>>]].cells[<<i, f>>]]]

\* FileSystem::FileSystem(TRUE), the formatted disk.
Formatted ==
    LET reserved == Mark(Mark(Bitmap, FreeMapSector), DirectorySector)
        map == Allocate(reserved, MapSectors, 0, MapSectors * SectorSize)
        dir == Allocate(map.freeMap, TableSectors, 0, TableSectors * SectorSize)
    IN  Written([s \in Bits |-> Data],
                WriteBack(map.hdr, FreeMapSector)
                \o WriteBack(dir.hdr, DirectorySector)
                \o MapWrites(map.hdr, dir.freeMap)
                \o TableWrites(dir.hdr, EmptyTable))

Init == /\ disk = Formatted
        /\ writes = <<>> /\ call = NoCall /\ opTable = Nothing
        /\ tree = {} /\ stale = {} /\ torn = FALSE /\ lost = {} /\ calls = 0

-----------------------------------------------------------------------------
FreeMap == PersistentBitmap(UNION {sector.bits :
                               sector \in Range(Contents(disk, FreeMapSector))})

\* Directory::FindIndex and Find
FindIndex(table, name, isDir) ==
    {i \in DOMAIN table : /\ table[i].inUse
                          /\ table[i].isDir = isDir /\ table[i].name = name}
Find(table, name, isDir) ==
    LET found == FindIndex(table, name, isDir)
    IN  IF found = {} THEN -1 ELSE table[Min(found)].sector

\* Mutant: an entry in use is taken.
AddFirst(table, name, sector, isDir) ==
    [table EXCEPT ![1] = [inUse |-> TRUE, isDir |-> isDir,
                          name |-> name, sector |-> sector]]

\* Directory::Add, and Remove, which leaves the rest of the entry as it is.
Add(table, name, sector, isDir) ==
    LET free == {i \in DOMAIN table : ~table[i].inUse}
    IN  IF free = {} THEN table
        ELSE [table EXCEPT ![Min(free)] =
                [inUse |-> TRUE, isDir |-> isDir, name |-> name, sector |-> sector]]
RemoveEntry(table, name, isDir) ==
    [table EXCEPT ![Min(FindIndex(table, name, isDir))].inUse = FALSE]

\* TraversePath: a directory that is not found is skipped, and success FALSE.
Enter(s, sector) == IF sector = -1 THEN [s EXCEPT !.success = FALSE]
                    ELSE [s EXCEPT !.dir = sector]
At(end, table, name, isDir) ==
    LET sector == Find(table, name, isDir)
    IN  [success |-> end.success, dir |-> end.dir, table |-> table,
         name |-> name, sector |-> sector, exist |-> sector # -1]
TraversePath(path, isDir) ==
    LET end == FoldLeft(LAMBDA s, name : Enter(s, Find(Table(disk, s.dir), name, TRUE)),
                        [success |-> TRUE, dir |-> DirectorySector], Front(path))
    IN  At(end, Table(disk, end.dir), Last(path), isDir)

\* The parent's table is stored when the TraversePath is destroyed.  (It is so
\* when nothing has changed, too, which is left out.)
ParentWrites(tr, table) == TableWrites(FetchFrom(disk, tr.dir, 0).hdr, table)
FreeMapWrites(freeMap) == MapWrites(FetchFrom(disk, FreeMapSector, 0).hdr, freeMap)

Ready == writes = <<>> /\ ~torn

\* A creation or removal may start.
Counted == Ready /\ calls < MaxCalls /\ calls' = calls + 1

Returns(op, path, isDir, result) ==
    call' = [op |-> op, path |-> path, isDir |-> isDir, result |-> result]

\* A failed ASSERT_MSG ends the program; the next one starts with no open files.
Abort(op, path, isDir, why) ==
    /\ Returns(op, path, isDir, why)
    /\ opTable' = Nothing /\ stale' = {}
    /\ UNCHANGED <<disk, writes, tree, torn, lost>>

-----------------------------------------------------------------------------
SubDirWrites(new, isDir) == IF isDir THEN TableWrites(new.hdr, EmptyTable) ELSE <<>>

\* Mutant: the directory is flushed before the map.
CreateWritesEntryFirst(tr, new, sector, isDir) ==
    WriteBack(new.hdr, sector) \o SubDirWrites(new, isDir)
    \o ParentWrites(tr, Add(tr.table, tr.name, sector, isDir))
    \o FreeMapWrites(new.freeMap)

\* The writes of a successful CreateFileDir, in order: the header, the map,
\* the empty table of a directory, and the parent's.
CreateWrites(tr, new, sector, isDir) ==
    WriteBack(new.hdr, sector)
    \o FreeMapWrites(new.freeMap)
    \o SubDirWrites(new, isDir)
    \o ParentWrites(tr, Add(tr.table, tr.name, sector, isDir))

\* FileSystem::CreateFileDir, which is Create and Mkdir.
CreateNew(tr, found, new, path, isDir) ==
    \/ /\ ~new.ok
       /\ Abort("create", path, isDir, "not enough space")
    \/ /\ new.ok
       /\ writes' = CreateWrites(tr, new, found.bit, isDir)
       /\ Returns("create", path, isDir, "TRUE")
       /\ lost' = lost \cup {r \in {"full directory"} :
                             \A i \in DOMAIN tr.table : tr.table[i].inUse}
       /\ UNCHANGED <<disk, opTable, tree, stale, torn>>
CreateAt(tr, path, isDir, size) ==
    LET found == FindAndSet(FreeMap)
    IN  \/ /\ ~tr.success
           /\ Abort("create", path, isDir, "invalid path")
        \/ /\ tr.success /\ tr.exist
           /\ Returns("create", path, isDir, "FALSE")
           /\ UNCHANGED <<disk, writes, opTable, tree, stale, torn, lost>>
        \/ /\ tr.success /\ ~tr.exist
           /\ CreateNew(tr, found,
                        Allocate(found.bitmap, divRoundUp(size, SectorSize), 0, size),
                        path, isDir)
CreateFileDir(path, isDir, size) ==
    Counted /\ CreateAt(TraversePath(path, isDir), path, isDir, size)

Create(path, size) == CreateFileDir(path, FALSE, size)
Mkdir(path) == CreateFileDir(path, TRUE, TableSectors * SectorSize)

\* Mutant: the sector of the header is not cleared.
RemoveDataOnly(sector, freeMap) ==
    Deallocate(FetchFrom(disk, sector, 0).hdr, freeMap)

RemoveSingleObj(sector, freeMap) ==
    Clear(Deallocate(FetchFrom(disk, sector, 0).hdr, freeMap), sector)

\* Mutant: applied to the directory that holds the one to remove.
ApplyToParent(dirSector, freeMap) ==
    LET Callback(m, entry) ==
          IF entry.inUse /\ ~entry.isDir THEN RemoveSingleObj(entry.sector, m) ELSE m
    IN  FoldLeft(Callback, freeMap, Table(disk, DirectorySector))

\* Directory::Apply of RemoveSingleObj, depth first.
RECURSIVE Apply(_, _)
Apply(dirSector, freeMap) ==
    LET Callback(m, entry) ==
          IF ~entry.inUse THEN m
          ELSE RemoveSingleObj(entry.sector,
                               IF entry.isDir THEN Apply(entry.sector, m) ELSE m)
    IN  FoldLeft(Callback, freeMap, Table(disk, dirSector))

\* What is in an entry of a directory with that path.  new is what will be there
\* when the operation under way is done: an entry that is neither so yet nor as it
\* was is half written; one that will be free is, with all below it, being removed.
Object(path, i, entry, new, removed) ==
    LET whole == [path |-> Append(path, entry.name), entry |-> i, isDir |-> entry.isDir,
                  sector |-> entry.sector, state |-> "whole"]
    IN  IF removed \/ ~new.inUse THEN [whole EXCEPT !.state = "removed"]
        ELSE IF entry = new \/ whole \in tree THEN whole
        ELSE [whole EXCEPT !.state = "half"]

\* Everything that can be reached from the table of a directory; after is what the
\* disk will be.
RECURSIVE Reached(_, _, _, _, _, _)
Reached(d, after, table, new, path, removed) ==
    LET objects == {Object(path, i, table[i], new[i], removed)
                    : i \in {j \in DOMAIN table : table[j].inUse}}
    IN  objects \cup
        UNION {Reached(d, after, Table(d, o.sector), Table(after, o.sector), o.path,
                       o.state = "removed")
               : o \in {p \in objects : p.isDir /\ p.state # "half"}}

Tree(d, after) == Reached(d, after, Table(d, DirectorySector),
                          Table(after, DirectorySector), <<>>, FALSE)

\* Is an object what a removal removes?
RemovedBy(o, path, isDir) == \/ o.path = path /\ o.isDir = isDir
                             \/ isDir /\ IsStrictPrefix(path, o.path)

\* Remove of a file, and the end of RecursiveRemove: the map goes first.
RemoveObject(tr, path, isDir, freeMap) ==
    /\ writes' = FreeMapWrites(RemoveSingleObj(tr.sector, freeMap))
                   \o ParentWrites(tr, RemoveEntry(tr.table, tr.name, isDir))
    /\ Returns("remove", path, isDir, "TRUE")
    /\ stale' = stale \cup {id \in DOMAIN opTable :
                   \E o \in tree : /\ RemovedBy(o, path, isDir)
                                      /\ opTable[id].sector = o.sector}
    /\ lost' = lost \cup {r \in {"child headers"} :
                   \E o \in tree : /\ RemovedBy(o, path, isDir)
                                   /\ HeaderSectors(FetchFrom(disk, o.sector, 0).hdr) # <<>>}
    /\ UNCHANGED <<disk, opTable, tree, torn>>

\* FileSystem::Remove
Exists(tr) == tr.success /\ tr.exist
RemoveFileAt(tr, path) ==
    \/ Exists(tr) /\ RemoveObject(tr, path, FALSE, FreeMap)
    \/ ~Exists(tr) /\ Abort("remove", path, FALSE, "invalid path")
RemoveFile(path) == Counted /\ RemoveFileAt(TraversePath(path, FALSE), path)

\* FileSystem::RecursiveRemove: the file of that name if there is one.
RecursiveRemoveAt(file, dir, path) ==
    \/ Exists(file) /\ RemoveObject(file, path, FALSE, FreeMap)
    \/ /\ ~Exists(file) /\ Exists(dir)
       /\ RemoveObject(dir, path, TRUE, Apply(dir.sector, FreeMap))
    \/ ~Exists(file) /\ ~Exists(dir) /\ Abort("remove", path, TRUE, "invalid path")
RecursiveRemove(path) ==
    /\ Counted
    /\ RecursiveRemoveAt(TraversePath(path, FALSE), TraversePath(path, TRUE), path)

-----------------------------------------------------------------------------
\* An OpenFile whose pointer OpenAsOpenFile never set.
Uninitialized == [sector |-> -1]

\* FileSystem::Open; rand() picks any id that is not in use.
OpenAt(tr, path, id) ==
    \/ /\ ~tr.success
       /\ Abort("open", path, FALSE, "invalid path")
    \/ /\ tr.success
       /\ opTable' = (id :> IF tr.exist
                            THEN [sector |-> tr.sector,
                                  hdr |-> FetchFrom(disk, tr.sector, 0).hdr]
                            ELSE Uninitialized) @@ opTable
       /\ Returns("open", path, FALSE, "id")
       /\ UNCHANGED <<disk, writes, tree, stale, torn, lost>>
Open(path, id) == /\ Ready
                  /\ id \notin DOMAIN opTable
                  /\ OpenAt(TraversePath(path, FALSE), path, id)
                  /\ UNCHANGED calls

\* FileSystem::Write of one sector of the file, through the header in memory.
\* Bound: a removed file is not written to.
Write(id, k) ==
    /\ Ready
    /\ id \in DOMAIN opTable \ stale
    /\ opTable[id] # Uninitialized
    /\ k < opTable[id].hdr.numSectors
    /\ disk' = [disk EXCEPT ![ByteToSector(opTable[id].hdr, k)] = Data]
    /\ UNCHANGED <<writes, call, opTable, tree, stale, torn, lost, calls>>

\* FileSystem::Close
Close(id) ==
    /\ Ready
    /\ id \in DOMAIN opTable
    /\ opTable[id] # Uninitialized
    /\ opTable' = [i \in DOMAIN opTable \ {id} |-> opTable[i]]
    /\ stale' = stale \ {id}
    /\ UNCHANGED <<disk, writes, call, tree, torn, lost, calls>>

\* Read, Write or Close through the uninitialized pointer.
UseUninitialized(id) ==
    /\ Ready
    /\ id \in DOMAIN opTable
    /\ opTable[id] = Uninitialized
    /\ Abort("use", <<>>, FALSE, "undefined")
    /\ UNCHANGED calls

\* SynchDisk::WriteSector returns.
WriteSector ==
    /\ writes # <<>>
    /\ disk' = Written(disk, <<Head(writes)>>)
    /\ tree' = Tree(disk', Written(disk', Tail(writes)))
    /\ writes' = Tail(writes)
    /\ UNCHANGED <<call, opTable, stale, torn, lost, calls>>

\* The program is killed, and FileSystem(FALSE) opens the disk again.
\* Bound: a disk with half an entry, or left by an interrupted removal, is not
\* used any more ("no attempt to make the system robust to failures").
Crash ==
    /\ MayCrash
    /\ writes # <<>>
    /\ torn' = (\E o \in tree : o.state # "whole")
    /\ call' = IF torn' THEN call ELSE NoCall
    /\ writes' = <<>> /\ opTable' = Nothing /\ stale' = {}
    /\ lost' = lost \cup {"crash"}
    /\ UNCHANGED <<disk, tree, calls>>

Next == \/ \E path \in Path : \/ \E size \in FileSizes : Create(path, size)
                              \/ Mkdir(path) \/ RemoveFile(path) \/ RecursiveRemove(path)
                              \/ \E id \in OpenFileId : Open(path, id)
        \/ \E id \in OpenFileId : \/ Close(id) \/ UseUninitialized(id)
                                  \/ \E k \in 0 .. numBits : Write(id, k)
        \/ WriteSector \/ Crash

Spec == Init /\ [][Next]_vars

-----------------------------------------------------------------------------
System == {[path |-> <<>>, entry |-> 0, isDir |-> b, state |-> "whole",
            sector |-> IF b THEN DirectorySector ELSE FreeMapSector]
           : b \in BOOLEAN}

Owned(o) == LET hdr == FetchFrom(disk, o.sector, 0).hdr
            IN  {o.sector} \cup Range(DataSectors(hdr)) \cup Range(HeaderSectors(hdr))

\* After every single sector write, hence wherever the program is killed, all but
\* what the operation under way is about is sound: each file and directory that
\* can be reached has a header that can be fetched, owns its sectors alone and
\* has them marked in the free map, unless half of its entry is written or it is
\* being removed.  Sectors may be lost, never shared.
DiskIsSound ==
    LET live == System \cup {o \in tree : o.state = "whole"}
    IN /\ \A o \in live : /\ FetchFrom(disk, o.sector, 0).ok
                          /\ Owned(o) \subseteq FreeMap.map
       /\ \A o, p \in live : o # p => Owned(o) \cap Owned(p) = {}

\* The names that can be found: while the program runs, half an entry is not
\* looked at, but the next program finds it.
names == {<<o.path, o.isDir>> : o \in {p \in tree : p.state # "half" \/ torn}}
Names == INSTANCE Namespace

\* A name appears with its header and its contents in place and disappears with
\* all that is below it, in one step, unless the program is killed with half of
\* the entry written: then whatever the rest of that entry held comes to light.
HalfAdded == torn' /\ call.op = "create"
ImplementsNamespace == Names!Init /\ [][Names!Next \/ HalfAdded]_names

\* The header that an OpenFile holds in memory is the one on disk until the
\* file is removed, whatever is created and removed meanwhile: a write through
\* it changes the data of that file only.
OpenHeadersCurrent ==
    \A id \in DOMAIN opTable \ stale : opTable[id] # Uninitialized =>
      /\ \E o \in tree : ~o.isDir /\ o.sector = opTable[id].sector
      /\ opTable[id].hdr = FetchFrom(disk, opTable[id].sector, 0).hdr

AllOwned == FreeMap.map = UNION {Owned(o) : o \in System \cup tree}

\* Every sector that is marked belongs to something that can be reached, unless
\* the program was killed, a file was put into a full directory, or a file with
\* child headers was removed: nothing else loses a sector.
LosesOnlyAsKnown == writes = <<>> /\ lost = {} => AllOwned

\* "Delete the space for its header", "Delete the space for its data blocks"
\* (FileSystem::Remove): nothing is lost if the program is never killed and no
\* directory was full.
RemovalFreesAll == writes = <<>> /\ lost \subseteq {"child headers"} => AllOwned
=============================================================================
