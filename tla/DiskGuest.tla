----------------------------- MODULE DiskGuest -----------------------------
(***************************************************************************)
(* The 88-DSK controller under a disk driver such as a CP/M BIOS, which is *)
(* no part of the repository: it selects a drive, loads the head, steps,   *)
(* waits for a sector, and reads it or writes it, one port access at a     *)
(* time.  `want' is what the driver has stored where; the images must      *)
(* agree.  Between two operations of the driver the user may stop the Z80  *)
(* and swap images.                                                        *)
(***************************************************************************)
EXTENDS DiskEmu

CONSTANT Trailing  \* does the driver send a byte after those of the sector?

VARIABLES gpc, gtrack, gsec, gcnt, gval, want

gvars == <<gpc, gtrack, gsec, gcnt, gval, want>>
allvars == <<vars, gvars>>

Places == (0 .. NUMTRACKS - 1) \X (0 .. NUMSECTORS - 1)

GInit == /\ Init
         /\ gpc = "idle" /\ gtrack = [d \in Drives |-> 0] /\ gsec = 0
         /\ gcnt = 0 /\ gval = Zero
         /\ want = [f \in Images |-> [p \in Places |-> Zero]]

Go(pc) == gpc' = pc
Ready == Go("ready") /\ gsec' = 0 /\ gcnt' = 0 /\ gval' = Zero

Select(d) == /\ gpc \in {"idle", "ready"}
             /\ drive_select(d)
             /\ Go(IF "ENABLED" \in status'[d] THEN "unloaded" ELSE "idle")
             /\ UNCHANGED <<gtrack, gsec, gcnt, gval, want>>

LoadHead == /\ gpc = "unloaded"
            /\ drive_control({"LOAD"})
            /\ Go("ready")
            /\ UNCHANGED <<gtrack, gsec, gcnt, gval, want>>

Step(cmd, to) == /\ gpc = "ready" /\ to \in 0 .. NUMTRACKS - 1
                 /\ drive_control({cmd})
                 /\ gtrack' = [gtrack EXCEPT ![selected] = to]
                 /\ UNCHANGED <<gpc, gsec, gcnt, gval, want>>

StepIn == Step("STEPIN", gtrack[selected] + 1)
StepOut == Step("STEPOUT", gtrack[selected] - 1)

\* drive_sector returns the sector that is now under the head.
FindSector == /\ gpc \in {"ready", "found"}
              /\ drive_sector
              /\ gsec' = sector'[selected]
              /\ Go("found")
              /\ UNCHANGED <<gtrack, gcnt, gval, want>>

BeginRead == /\ gpc = "found"
             /\ drive_read
             /\ gval' = Readable(selected)
             /\ gcnt' = 1 /\ Go("read")
             /\ UNCHANGED <<gtrack, gsec, want>>

\* The rest of the sector, or not.
Read == /\ gpc = "read"
        /\ \/ /\ gcnt < SECTORSIZE
              /\ drive_read
              /\ gval' = Readable(selected) /\ gcnt' = gcnt + 1
              /\ UNCHANGED <<gpc, gsec>>
           \/ Ready /\ UNCHANGED vars
        /\ UNCHANGED <<gtrack, want>>

BeginWrite == /\ gpc = "found"
              /\ drive_control({"WRITE"})
              /\ gcnt' = 0 /\ Go("write")
              /\ gval' \in Bytes
              /\ UNCHANGED <<gtrack, gsec, want>>

Write == /\ gpc = "write"
         /\ drive_write(gval)
         /\ want' = IF gcnt + 1 = SECTORSIZE
                    THEN [want EXCEPT ![file[selected]][<<gtrack[selected], gsec>>] = gval]
                    ELSE want
         /\ IF gcnt + 1 = SECTORSIZE + (IF Trailing THEN 1 ELSE 0) THEN Ready
            ELSE gcnt' = gcnt + 1 /\ UNCHANGED <<gpc, gsec, gval>>
         /\ UNCHANGED gtrack

\* The user stops the Z80 between two operations; a driver that finds its
\* drive changed starts again.
Swap == /\ gpc \in {"idle", "ready"}
        /\ \E d \in Drives : drive_mount(d) \/ drive_unmount(d)
        /\ Go("idle")
        /\ UNCHANGED <<gtrack, gsec, gcnt, gval, want>>

GNext == \/ \E d \in Drives : Select(d)
         \/ LoadHead \/ StepIn \/ StepOut \/ FindSector
         \/ BeginRead \/ Read \/ BeginWrite \/ Write
         \/ Swap

GSpec == GInit /\ [][GNext]_allvars
-----------------------------------------------------------------------------
Holds(f, p, v) == /\ OFFSET(p[1], p[2]) < Len(image[f])
                  /\ image[f][OFFSET(p[1], p[2]) + 1] = [i \in 0 .. SECTORSIZE - 1 |-> v]

\* "Write the current sector to SD card" (diskemu.c:148): once nothing is
\* unwritten, every image holds, at every track and sector, what the driver
\* wrote there, whatever drives, tracks and images were changed in between.
Settled == ~dirtysector /\ gpc # "write" =>
               \A f \in Images, p \in Places : Holds(f, p, want[f][p])

\* A byte read is the byte last written to that track and sector of that
\* image, though the buffer is shared by the drives and by reads and writes.
ReadsBack == gpc = "read" => gval = want[file[selected]][<<gtrack[selected], gsec>>]

\* A driver that keeps to the protocol never makes the controller use 0xff as
\* a sector or as an index: no image grows, no byte lands outside the buffer.
InBounds == ~wild /\ \A f \in Images : Len(image[f]) = NUMTRACKS * NUMSECTORS
=============================================================================
