----------------------------- MODULE MCKernelIO -----------------------------
(* KernelIO for TLC: three threads and the calls they make.                *)
EXTENDS KernelIO

CONSTANTS t1, t2, t3, a, b, x, y, f, g

Do(op, arg) == [op |-> op, arg |-> arg]
Disk(op, s, v) == Do(op, [sector |-> s, value |-> v])

Put(i) == Do("Append", i)
Take == Do("RemoveFront", NoItem)
Get == Do("GetChar", NoItem)

Create(name) == Do("Create", name)
Open(name)   == Do("Open", name)
Read(id, n)  == Do("Read", [id |-> id, size |-> n])
Write(id, s) == Do("Write", [id |-> id, size |-> Len(s), bytes |-> s])
WriteOf(id, n) == Do("Write", [id |-> id, size |-> n, bytes |-> <<>>])
Close(id)    == Do("Close", [id |-> id])

MCWorkload ==
    { \* two items for three removals, one of them by a thread that appends
      (t1 :> <<Put(a), Put(b)>> @@ t2 :> <<Take, Take>> @@ t3 :> <<Take>>),
      (t1 :> <<Put(a), Take>> @@ t2 :> <<Take, Put(b)>>
          @@ t3 :> <<Do("Apply", NoItem)>>),
      \* writers and a reader of two sectors on different tracks
      (t1 :> <<Disk("WriteSector", 4, x), Disk("ReadSector", 2, NoItem)>>
          @@ t2 :> <<Disk("WriteSector", 4, y)>>
          @@ t3 :> <<Disk("ReadSector", 4, NoItem), Disk("ReadSector", 5, NoItem)>>),
      \* strings and characters on the display
      (t1 :> <<Do("PutInt", 3), Do("PutChar", 1)>> @@ t2 :> <<Do("PutInt", 2)>>
          @@ t3 :> <<Do("PutChar", 1)>>),
      \* two readers of the keyboard next to a disk write
      (t1 :> <<Get, Get>> @@ t2 :> <<Get>> @@ t3 :> <<Disk("WriteSector", 1, x)>>),
      \* one call of each kind
      (t1 :> <<Get, Put(a)>> @@ t2 :> <<Take, Do("PutChar", 1)>>
          @@ t3 :> <<Do("PutInt", 2), Disk("ReadSector", 2, NoItem)>>),
      \* programs that share a file, which one truncates, and the descriptors
      (t1 :> <<Open(g), Write(0, <<1, 2>>), Write(0, <<3>>)>>
          @@ t2 :> <<Open(g), Read(1, 1), Read(1, 2)>>
          @@ t3 :> <<Open(g), Create(g), Close(1)>>),
      \* descriptors closed and given out again, for another file
      (t1 :> <<Open(g), Close(0), Open(f)>>
          @@ t2 :> <<Create(f), Write(0, <<4, 5>>), Write(0, <<>>)>>
          @@ t3 :> <<Open(g), Read(0, 1), Read(-1, 0), Close(1)>>),
      \* sizes the host refuses, and more files than the table holds
      (t1 :> <<Open(g), Read(0, -1), Open(g)>>
          @@ t2 :> <<Open(g), WriteOf(1, -1), Write(1, <<9>>)>>
          @@ t3 :> <<Open(g), Read(2, 2), WriteOf(2, -2)>>) }

MCExisting == g :> <<6, 7, 8>>

MCInput == {<<a, b, a>>, <<a, EOF, b>>}
=============================================================================
