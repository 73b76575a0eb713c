----------------------------- MODULE SynchDisk -----------------------------
(***************************************************************************)
(* The simulated disk (machine/disk.cc) and its synchronous interface      *)
(* (filesys/synchdisk.cc).  A request is served by the host file at once;  *)
(* the completion interrupt comes when the simulated arm, rotation and     *)
(* track buffer say so.                                                    *)
(***************************************************************************)
EXTENDS Synch, Integers

CONSTANTS NumSectors, SectorsPerTrack,  \* the geometry
          RotationTime, SeekTime,       \* ticks per sector, ticks per track
          Blank,                        \* contents of a sector never written
          Pauses                        \* ticks that may pass before a request

ASSUME DiskAssumption == /\ NumSectors \in Nat \ {0}
                         /\ SectorsPerTrack \in Nat \ {0}
                         /\ RotationTime \in Nat \ {0}
                         /\ SeekTime \in Nat
                         /\ Pauses \subseteq Nat

VARIABLES sector,      \* the host file: contents of each sector
          active,      \* a request is in progress
          lastSector,  \* the previous request
          bufferInit,  \* when the track buffer started to be loaded
          totalTicks,  \* the simulated time, as far as the disk sees it
          diskDue      \* times of the pending disk interrupts

diskVars == <<sector, active, lastSector, bufferInit, totalTicks, diskDue>>

Sector == 0 .. NumSectors - 1

DiskInit == /\ sector = [s \in Sector |-> Blank]
            /\ active = FALSE
            /\ lastSector = 0
            /\ bufferInit = 0
            /\ totalTicks = 0
            /\ diskDue = {}

-----------------------------------------------------------------------------
\* TimeToSeek returns the seek time and, in *rotation, how long it then
\* takes until a sector boundary passes.
Seek(newSector) ==
    LET tracks == (newSector \div SectorsPerTrack) - (lastSector \div SectorsPerTrack)
    IN  (IF tracks < 0 THEN -tracks ELSE tracks) * SeekTime

Rotation(newSector, now) ==
    LET over == (now + Seek(newSector)) % RotationTime
    IN  IF over > 0 THEN RotationTime - over ELSE 0

\* Sectors that pass before `to` is under the head, from position `from`.
ModuloDiff(to, from) ==
    ((to % SectorsPerTrack) - (from % SectorsPerTrack) + SectorsPerTrack) % SectorsPerTrack

TimeAfter(newSector, now) == now + Seek(newSector) + Rotation(newSector, now)

\* Mutant: a sector that is just passing counts as read.
InTrackBufferEarly(newSector, now) ==
    /\ Seek(newSector) = 0
    /\ (TimeAfter(newSector, now) - bufferInit) \div RotationTime
           >= ModuloDiff(newSector, bufferInit \div RotationTime)

\* A read of the track under the head that has passed since bufferInit.
InTrackBuffer(newSector, now) ==
    /\ Seek(newSector) = 0
    /\ (TimeAfter(newSector, now) - bufferInit) \div RotationTime
           > ModuloDiff(newSector, bufferInit \div RotationTime)

ComputeLatency(newSector, writing, now) ==
    IF ~ writing /\ InTrackBuffer(newSector, now) THEN RotationTime
    ELSE (TimeAfter(newSector, now) - now)
           + ModuloDiff(newSector, TimeAfter(newSector, now) \div RotationTime) * RotationTime
           + RotationTime

UpdateLast(newSector, now) ==
    /\ bufferInit' = IF Seek(newSector) # 0 THEN TimeAfter(newSector, now) ELSE bufferInit
    /\ lastSector' = newSector

-----------------------------------------------------------------------------
DiskAcquire(t) == /\ At(t, "disk.acquire")
                  /\ Acquire(t, "disk", "disk.request")
                  /\ UNCHANGED <<callVars, diskVars>>

\* Schedule the completion interrupt of a request made at time `now`.
Request(s, writing, now) == /\ totalTicks' = now
                            /\ diskDue' = diskDue \cup {now + ComputeLatency(s, writing, now)}
                            /\ active' = TRUE
                            /\ UpdateLast(s, now)

ReadRequest(t) ==
    /\ At(t, "disk.request") /\ cur[t].op = "ReadSector"
    /\ Goto(t, "disk.wait")
    /\ \E d \in Pauses : Request(cur[t].arg.sector, FALSE, totalTicks + d)
    /\ Returns(t, sector[cur[t].arg.sector])
    /\ UNCHANGED <<synchVars, cur, sector>>

\* Mutant: the data go where the arm was before the request.
WriteAtLastSector(t) ==
    /\ At(t, "disk.request") /\ cur[t].op = "WriteSector"
    /\ Goto(t, "disk.wait")
    /\ \E d \in Pauses : Request(cur[t].arg.sector, TRUE, totalTicks + d)
    /\ sector' = [sector EXCEPT ![lastSector] = cur[t].arg.value]
    /\ UNCHANGED <<synchVars, callVars>>

WriteRequest(t) ==
    /\ At(t, "disk.request") /\ cur[t].op = "WriteSector"
    /\ Goto(t, "disk.wait")
    /\ \E d \in Pauses : Request(cur[t].arg.sector, TRUE, totalTicks + d)
    /\ sector' = [sector EXCEPT ![cur[t].arg.sector] = cur[t].arg.value]
    /\ UNCHANGED <<synchVars, callVars>>

DiskWait(t) == /\ At(t, "disk.wait")
               /\ P(t, "disk.done", "disk.disown")
               /\ UNCHANGED <<holder, callVars, diskVars>>

DiskDisown(t) == /\ At(t, "disk.disown") /\ Goto(t, "disk.unlock")
                 /\ Disown(t, "disk")
                 /\ UNCHANGED <<sem, callVars, diskVars>>

DiskUnlock(t) == /\ At(t, "disk.unlock") /\ Goto(t, "idle")
                 /\ V("disk")
                 /\ UNCHANGED <<holder, callVars, diskVars>>

\* The disk interrupt: Disk::CallBack and SynchDisk::CallBack.
DiskInterrupt ==
    \E due \in diskDue :
        /\ diskDue' = diskDue \ {due}
        /\ totalTicks' = IF totalTicks < due THEN due ELSE totalTicks
        /\ active' = FALSE
        /\ V("disk.done")
        /\ UNCHANGED <<holder, pc, callVars, sector, lastSector, bufferInit>>

DiskStep(t) == \/ DiskAcquire(t)
               \/ ReadRequest(t) \/ WriteRequest(t)
               \/ DiskWait(t)
               \/ DiskDisown(t) \/ DiskUnlock(t)
=============================================================================
