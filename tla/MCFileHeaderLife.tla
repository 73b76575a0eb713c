-------------------------- MODULE MCFileHeaderLife --------------------------
(***************************************************************************)
(* FileHeaderLife for TLC: three entries per header, files of up to four   *)
(* levels, and free sectors that are contiguous, alternate or come in      *)
(* runs, so that the search for a free sector skips.  The largest files    *)
(* need half of the disk, and on the last disk few sectors are free.       *)
(***************************************************************************)
EXTENDS FileHeaderLife

Disks == {{}, 0 .. 5, {s \in Bits : s % 2 = 0 /\ s < 60},
          {s \in Bits : s % 7 < 3}, 5 .. numBits - 8}
=============================================================================
