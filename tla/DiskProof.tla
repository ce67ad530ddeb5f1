----------------------------- MODULE DiskProof -----------------------------
(***************************************************************************)
(* What holds of the disk controller for any number of drives and images   *)
(* and disks of any geometry, under any sequence of port accesses, mounts  *)
(* and failing writes; and what a driver that keeps to the protocol finds  *)
(* on its disks.                                                           *)
(***************************************************************************)
EXTENDS DiskGuest, TLAPS

\* The types that the arguments need; the contents of sectors play no part.
HeadType == /\ file \in [Drives -> Images \cup {NoImage}]
            /\ status \in [Drives -> SUBSET Bits]
            /\ track \in [Drives -> 0 .. NUMTRACKS - 1]
            /\ byte \in [Drives -> 0 .. SECTORSIZE \cup {NOBYTE}]
            /\ selected \in Drives \cup {NoDrive}
            /\ dirtysector \in BOOLEAN
            /\ image = [f \in Images |-> image[f]]

\* The inductive invariant: that drives not selected are idle is what makes
\* the bits of a newly selected one right.
DInv == HeadType /\ DirtyIsSelected /\ OthersIdle /\ TrackZero

\* A flush leaves nothing unwritten, and changes no image but the one of the
\* selected drive.
LEMMA Flushed ==
  ASSUME HeadType, selected # NoDrive, NEW t, FlushIfDirty(t)
  PROVE  /\ dirtysector' = FALSE
         /\ image' = [f \in Images |-> image'[f]]
         /\ \A f \in Images : image'[f] # image[f] => file[selected] = f
<1>1. CASE dirtysector
  <2>1. write_sector(t, sectorbuf)
    BY <1>1 DEF FlushIfDirty
  <2>2. CASE UNCHANGED image
    BY <2>1, <2>2 DEF write_sector, HeadType
  <2>3. CASE /\ file[selected] # NoImage
             /\ image' = [image EXCEPT ![file[selected]] =
                            Put(image[file[selected]], OFFSET(t, sector[selected]),
                                Sector(Filled(sectorbuf, byte[selected])))]
    BY <2>1, <2>3 DEF write_sector, HeadType
  <2> QED BY <2>1, <2>2, <2>3 DEF write_sector
<1>2. CASE ~dirtysector
  BY <1>2 DEF FlushIfDirty, HeadType
<1> QED BY <1>1, <1>2

\* All drives are unmounted, none is selected and nothing is unwritten.
LEMMA InitDInv == Init => DInv
<1> SUFFICES ASSUME Init PROVE DInv
  OBVIOUS
<1>1. HeadType
  <2>1. /\ 0 \in 0 .. NUMTRACKS - 1
        /\ 0 \in 0 .. SECTORSIZE \cup {NOBYTE}
    BY DiskAssumption
  <2>2. /\ file \in [Drives -> Images \cup {NoImage}]
        /\ status \in [Drives -> SUBSET Bits]
    BY DEF Init
  <2>3. /\ track \in [Drives -> 0 .. NUMTRACKS - 1]
        /\ byte \in [Drives -> 0 .. SECTORSIZE \cup {NOBYTE}]
    BY <2>1 DEF Init
  <2>4. image = [f \in Images |-> image[f]]
    BY DEF Init
  <2> QED BY <2>2, <2>3, <2>4 DEF Init, HeadType
<1>2. DirtyIsSelected /\ OthersIdle /\ TrackZero
  BY DEF Init, DirtyIsSelected, OthersIdle, TrackZero
<1> QED BY <1>1, <1>2 DEF DInv

\* A mount or an unmount moves the mark and the image together.
LEMMA MountStep == ASSUME DInv, NEW d \in Drives, drive_mount(d) \/ drive_unmount(d)
                   PROVE  DInv'
<1> USE DEF DInv, head
<1>1. HeadType'
  BY DEF HeadType, drive_mount, drive_unmount, Bits
<1>2. DirtyIsSelected'
  BY DEF DirtyIsSelected, drive_mount, drive_unmount
<1>3. OthersIdle'
  <2>1. \A e \in Drives :
            /\ status'[e] \ {"MOUNTED"} = status[e] \ {"MOUNTED"}
            /\ "MOUNTED" \in status'[e] => \/ file'[e] # NoImage
                                           \/ "MOUNTED" \in status[e] /\ file'[e] = file[e]
    <3>1. CASE drive_mount(d)
      BY <3>1, DiskAssumption DEF drive_mount, HeadType
    <3>2. CASE drive_unmount(d)
      BY <3>2 DEF drive_unmount, HeadType
    <3> QED BY <3>1, <3>2
  <2>2. UNCHANGED selected
    BY DEF drive_mount, drive_unmount
  <2> QED BY <2>1, <2>2 DEF OthersIdle, HeadType
<1>4. TrackZero'
  <2>1. UNCHANGED track
    BY DEF drive_mount, drive_unmount
  <2>2. \A e \in Drives : /\ "ENABLED" \in status'[e] => "ENABLED" \in status[e]
                          /\ "TRACK0" \in status'[e] <=> "TRACK0" \in status[e]
    <3>1. CASE drive_mount(d)
      BY <3>1 DEF HeadType, drive_mount
    <3>2. CASE drive_unmount(d)
      BY <3>2 DEF HeadType, drive_unmount
    <3> QED BY <3>1, <3>2
  <2> QED BY <2>1, <2>2 DEF TrackZero
<1> QED BY <1>1, <1>2, <1>3, <1>4

\* Selecting a drive writes the old one's sector and sets the new one's bits
\* from nothing.
LEMMA SelectStep == ASSUME DInv, NEW n \in Drives \cup {NoDrive}, drive_select(n)
                    PROVE  DInv'
<1> USE DEF DInv
<1>1. /\ dirtysector' = FALSE
      /\ image' = [f \in Images |-> image'[f]]
  <2>1. CASE selected # NoDrive
    BY <2>1, Flushed DEF drive_select
  <2>2. CASE selected = NoDrive
    BY <2>2 DEF drive_select, HeadType, DirtyIsSelected
  <2> QED BY <2>1, <2>2
<1>2. \A d \in Drives : Deselected[d] \in SUBSET {"MOUNTED"}
  BY DEF Deselected, OthersIdle, HeadType
<1>3. \A d \in Drives : "MOUNTED" \in Deselected[d] <=> "MOUNTED" \in status[d]
  BY DEF Deselected, HeadType
<1>4. \A d \in Drives : status'[d] = IF d = n THEN Enabled(d, Deselected[d])
                                     ELSE Deselected[d]
  BY DEF drive_select
<1>5. \A d \in Drives : /\ "MOUNTED" \in status'[d] <=> "MOUNTED" \in status[d]
                        /\ status'[d] \in SUBSET Bits
                        /\ d # n => status'[d] \subseteq {"MOUNTED"}
                        /\ "ENABLED" \in status'[d] =>
                              ("TRACK0" \in status'[d] <=> track[d] = 0)
  <2> TAKE d \in Drives
  <2>1. CASE d # n
    BY <1>2, <1>3, <1>4, <2>1 DEF Bits
  <2>2. CASE d = n /\ "MOUNTED" \notin Deselected[d]
    <3>1. status'[d] = Deselected[d] \cap {"MOUNTED"}
      BY <1>4, <2>2 DEF Enabled
    <3> QED BY <1>2, <1>3, <2>2, <3>1 DEF Bits
  <2>3. CASE d = n /\ "MOUNTED" \in Deselected[d]
    <3>1. status'[d] = Deselected[d] \cup {"HEADMOVE", "ENABLED"}
                          \cup (IF track[d] = 0 THEN {"TRACK0"} ELSE {})
      BY <1>4, <2>3 DEF Enabled
    <3>2. "TRACK0" \notin Deselected[d]
      BY <1>2
    <3>3. status'[d] \in SUBSET Bits
      BY <1>2, <3>1 DEF Bits
    <3> QED BY <1>3, <2>3, <3>1, <3>2, <3>3
  <2> QED BY <2>1, <2>2, <2>3
<1>6. /\ UNCHANGED <<file, track>>
      /\ selected' \in Drives \cup {NoDrive} /\ (n \in Drives => selected' = n)
      /\ n \notin Drives => selected' = NoDrive
  BY DEF drive_select
<1>7. HeadType'
  <2>1. status' \in [Drives -> SUBSET Bits]
    BY <1>5 DEF drive_select
  <2>2. byte' \in [Drives -> 0 .. SECTORSIZE \cup {NOBYTE}]
    BY DEF drive_select, HeadType
  <2> QED BY <1>1, <1>6, <2>1, <2>2 DEF HeadType
<1>8. DirtyIsSelected'
  BY <1>1 DEF DirtyIsSelected
<1>9. OthersIdle'
  BY <1>5, <1>6 DEF OthersIdle
<1>10. TrackZero'
  BY <1>5, <1>6 DEF TrackZero
<1> QED BY <1>7, <1>8, <1>9, <1>10

\* The head stays on the disk.
LEMMA Stepping == ASSUME HeadType, selected \in Drives, NEW cmd \in SUBSET Commands
                  PROVE  /\ SteppedIn(cmd) \in 0 .. NUMTRACKS - 1
                         /\ SteppedOut(cmd) \in 0 .. NUMTRACKS - 1
<1>1. track[selected] \in 0 .. NUMTRACKS - 1
  BY DEF HeadType
<1>2. SteppedIn(cmd) \in 0 .. NUMTRACKS - 1
  BY <1>1, DiskAssumption DEF SteppedIn
<1> QED BY <1>2, DiskAssumption DEF SteppedOut

\* After a control command the track 0 bit is where the head is.
LEMMA ControlBits ==
  ASSUME HeadType, TrackZero, selected \in Drives, NEW cmd \in SUBSET Commands
  PROVE  /\ StatusAfter(cmd) \in SUBSET Bits
         /\ "MOUNTED" \in StatusAfter(cmd) <=> "MOUNTED" \in status[selected]
         /\ "ENABLED" \in StatusAfter(cmd) =>
               ("TRACK0" \in StatusAfter(cmd) <=> SteppedOut(cmd) = 0)
<1>1. status[selected] \in SUBSET Bits /\ track[selected] \in 0 .. NUMTRACKS - 1
  BY DEF HeadType
<1>2. /\ StatusAfter(cmd) \in SUBSET Bits
      /\ "MOUNTED" \in StatusAfter(cmd) <=> "MOUNTED" \in status[selected]
      /\ "ENABLED" \in StatusAfter(cmd) <=> "ENABLED" \in status[selected]
  BY <1>1 DEF StatusAfter, Bits, LoadBits
<1>3. "TRACK0" \in StatusAfter(cmd) <=>
         \/ "TRACK0" \in status[selected] /\ "STEPIN" \notin cmd
         \/ "STEPOUT" \in cmd /\ SteppedOut(cmd) = 0
  BY DEF StatusAfter, LoadBits
<1>4. SUFFICES ASSUME "ENABLED" \in status[selected]
               PROVE  "TRACK0" \in StatusAfter(cmd) <=> SteppedOut(cmd) = 0
  BY <1>2
<1>5. "TRACK0" \in status[selected] <=> track[selected] = 0
  BY <1>4 DEF TrackZero
<1>6. CASE "STEPIN" \in cmd
  <2>1. SteppedIn(cmd) > 0
    BY <1>1, <1>6, DiskAssumption DEF SteppedIn
  <2> QED BY <1>3, <1>6, <2>1 DEF SteppedOut
<1>7. CASE "STEPIN" \notin cmd
  <2>1. SteppedIn(cmd) = track[selected]
    BY <1>7 DEF SteppedIn
  <2> QED BY <1>1, <1>3, <1>5, <1>7, <2>1 DEF SteppedOut
<1> QED BY <1>6, <1>7

\* A control command writes the sector back and moves only the selected drive.
LEMMA ControlStep == ASSUME DInv, NEW cmd \in SUBSET Commands, drive_control(cmd)
                     PROVE  DInv'
<1> USE DEF DInv
<1>1. selected \in Drives /\ selected # NoDrive
  BY DEF drive_control, HeadType
<1>2. /\ dirtysector' = FALSE
      /\ image' = [f \in Images |-> image'[f]]
  BY <1>1, Flushed DEF drive_control
<1>3. UNCHANGED <<file, selected>>
  BY DEF drive_control
<1>4. /\ status' = [status EXCEPT ![selected] = StatusAfter(cmd)]
      /\ track' = [track EXCEPT ![selected] = SteppedOut(cmd)]
      /\ byte' = [byte EXCEPT ![selected] = ByteAfter(cmd)]
  BY DEF drive_control
<1>5. HeadType'
  <2>1. ByteAfter(cmd) \in 0 .. SECTORSIZE \cup {NOBYTE}
    BY <1>1, DiskAssumption DEF ByteAfter, HeadType
  <2>2. /\ status' \in [Drives -> SUBSET Bits]
        /\ track' \in [Drives -> 0 .. NUMTRACKS - 1]
        /\ byte' \in [Drives -> 0 .. SECTORSIZE \cup {NOBYTE}]
    BY <1>1, <1>4, <2>1, ControlBits, Stepping DEF HeadType
  <2> QED BY <1>2, <1>3, <2>2 DEF HeadType
<1>6. DirtyIsSelected'
  BY <1>2 DEF DirtyIsSelected
<1>7. OthersIdle'
  BY <1>1, <1>3, <1>4, ControlBits DEF OthersIdle, HeadType
<1>8. TrackZero'
  BY <1>1, <1>4, ControlBits DEF TrackZero, HeadType
<1> QED BY <1>5, <1>6, <1>7, <1>8

\* Finding the next sector writes the last one back.
LEMMA SectorStep == ASSUME DInv, drive_sector PROVE DInv'
<1> USE DEF DInv
<1>1. selected \in Drives /\ selected # NoDrive
  BY DEF drive_sector, HeadType
<1>2. /\ dirtysector' = FALSE
      /\ image' = [f \in Images |-> image'[f]]
  BY <1>1, Flushed DEF drive_sector
<1>3. /\ UNCHANGED <<file, selected, track>>
      /\ byte' \in [Drives -> 0 .. SECTORSIZE \cup {NOBYTE}]
      /\ status' \in [Drives -> SUBSET Bits]
      /\ \A d \in Drives : status'[d] \in {status[d], status[d] \ {"WRITERDY"}}
  BY <1>1 DEF drive_sector, HeadType
<1>4. HeadType'
  BY <1>2, <1>3 DEF HeadType
<1>5. DirtyIsSelected'
  BY <1>2 DEF DirtyIsSelected
<1>6. OthersIdle' /\ TrackZero'
  BY <1>3 DEF OthersIdle, TrackZero
<1> QED BY <1>4, <1>5, <1>6

\* Each byte written belongs to the selected drive, and the index counts it.
LEMMA WriteStep == ASSUME DInv, NEW v \in Bytes, drive_write(v) PROVE DInv'
<1> USE DEF DInv
<1>1. selected \in Drives /\ selected # NoDrive
  BY DEF drive_write, HeadType
<1>2. UNCHANGED <<file, selected, track>>
  BY DEF drive_write
<1>3. CASE /\ byte[selected] < SECTORSIZE
           /\ dirtysector' = TRUE
           /\ byte' = [byte EXCEPT ![selected] = byte[selected] + 1]
           /\ UNCHANGED <<status, image>>
  <2>1. byte[selected] + 1 \in 1 .. SECTORSIZE
    BY <1>1, <1>3, DiskAssumption DEF HeadType
  <2>2. HeadType'
    BY <1>1, <1>2, <1>3, <2>1 DEF HeadType
  <2>3. DirtyIsSelected'
    BY <1>1, <1>2, <1>3, <2>1 DEF DirtyIsSelected, HeadType
  <2> QED BY <1>2, <1>3, <2>2, <2>3 DEF OthersIdle, TrackZero
<1>4. CASE \E buf : /\ write_sector(track[selected], buf)
                    /\ byte' = [byte EXCEPT ![selected] = NOBYTE]
                    /\ status' = [status EXCEPT ![selected] =
                                    status[selected] \ {"WRITERDY"}]
  <2>1. dirtysector' = FALSE /\ image' = [f \in Images |-> image'[f]]
    BY <1>4 DEF write_sector, HeadType
  <2>2. /\ byte' \in [Drives -> 0 .. SECTORSIZE \cup {NOBYTE}]
        /\ status' \in [Drives -> SUBSET Bits]
        /\ \A d \in Drives : status'[d] \in {status[d], status[d] \ {"WRITERDY"}}
    BY <1>1, <1>4 DEF HeadType
  <2>3. HeadType'
    BY <1>2, <2>1, <2>2 DEF HeadType
  <2>4. DirtyIsSelected'
    BY <2>1 DEF DirtyIsSelected
  <2> QED BY <1>2, <2>2, <2>3, <2>4 DEF OthersIdle, TrackZero
<1> QED BY <1>3, <1>4 DEF drive_write

\* A read moves the index within the sector, unwritten or not.
LEMMA ReadStep == ASSUME DInv, drive_read PROVE DInv'
<1> USE DEF DInv
<1>1. selected \in Drives
  BY DEF drive_read, HeadType
<1>2. UNCHANGED <<file, status, track, selected, dirtysector>>
  BY DEF drive_read
<1>3. \E b \in 1 .. SECTORSIZE : byte' = [byte EXCEPT ![selected] = b]
  <2>1. CASE byte[selected] < SECTORSIZE /\ byte' = [byte EXCEPT ![selected] = byte[selected] + 1]
    <3>1. byte[selected] + 1 \in 1 .. SECTORSIZE
      BY <1>1, <2>1, DiskAssumption DEF HeadType
    <3> QED BY <2>1, <3>1
  <2>2. CASE byte' = [byte EXCEPT ![selected] = 1]
    <3>1. 1 \in 1 .. SECTORSIZE
      BY DiskAssumption
    <3> QED BY <2>2, <3>1
  <2> QED BY <2>1, <2>2 DEF drive_read
<1>4. image' = [f \in Images |-> image'[f]]
  BY DEF drive_read, HeadType
<1>5. HeadType'
  BY <1>1, <1>2, <1>3, <1>4 DEF HeadType
<1>6. DirtyIsSelected'
  BY <1>1, <1>2, <1>3 DEF DirtyIsSelected, HeadType
<1> QED BY <1>2, <1>5, <1>6 DEF OthersIdle, TrackZero

\* The invariant is inductive.
LEMMA NextDInv == DInv /\ [Next]_vars => DInv'
<1> SUFFICES ASSUME DInv, [Next]_vars PROVE DInv'
  OBVIOUS
<1>1. CASE Mounts
  BY <1>1, MountStep DEF Mounts
<1>2. CASE Ports
  BY <1>2, SelectStep, ControlStep, SectorStep, WriteStep, ReadStep DEF Ports
<1>3. CASE UNCHANGED vars
  BY <1>3 DEF vars, head, DInv, HeadType, DirtyIsSelected, OthersIdle, TrackZero
<1> QED BY <1>1, <1>2, <1>3 DEF Next

\* The emulation keeps to one sector of one drive: types, the owner of the
\* buffer, idle drives and the track 0 bit, for any number of drives.
THEOREM DiskInvariance == Spec => []DInv
BY InitDInv, NextDInv, PTL DEF Spec

\* Unwritten bytes are always the selected drive's, however many drives share
\* the buffer.
THEOREM BufferIsSelected == Spec => []DirtyIsSelected
<1>1. DInv => DirtyIsSelected
  BY DEF DInv
<1> QED BY DiskInvariance, <1>1, PTL

\* A boot loader that homes the head by the track 0 bit finds track 0.
THEOREM HomingIsRight == Spec => []TrackZero
<1>1. DInv => TrackZero
  BY DEF DInv
<1> QED BY DiskInvariance, <1>1, PTL

\* A drive that is not selected is idle, and none is marked mounted without an open
\* image, calls of the card that fail included.
THEOREM IdleDrives == Spec => []OthersIdle
<1>1. DInv => OthersIdle
  BY DEF DInv
<1> QED BY DiskInvariance, <1>1, PTL

\* No image changes but the one on the selected drive, whatever fails.
THEOREM ImagesApart == Spec => OnlySelectedWritten
<1> DEFINE Apart == \A f \in Images : image'[f] # image[f] =>
                       selected # NoDrive /\ file[selected] = f
<1>1. DInv /\ [Next]_vars => [Apart]_vars
  <2> SUFFICES ASSUME DInv, Next PROVE Apart
    OBVIOUS
  <2> USE DEF DInv
  <2>1. CASE UNCHANGED image
    BY <2>1
  <2>2. CASE selected # NoDrive /\ \E t : FlushIfDirty(t)
    BY <2>2, Flushed
  <2>3. CASE \E v \in Bytes : drive_write(v)
    <3>1. CASE UNCHANGED image
      BY <3>1
    <3>2. CASE \E buf : write_sector(track[selected], buf)
      BY <2>3, <3>2 DEF write_sector, drive_write, HeadType
    <3> QED BY <2>3, <3>1, <3>2 DEF drive_write
  <2>4. CASE drive_read
    BY <2>4 DEF drive_read, HeadType
  <2>5. CASE Mounts
    BY <2>5, <2>1 DEF Mounts, drive_mount, drive_unmount
  <2>6. CASE Ports
    BY <2>1, <2>2, <2>3, <2>4, <2>6 DEF Ports, drive_select, drive_control, drive_sector
  <2> QED BY <2>5, <2>6 DEF Next
<1> QED BY DiskInvariance, <1>1, PTL DEF Spec, OnlySelectedWritten
-----------------------------------------------------------------------------
(* A driver that sends the byte after the sector, over a card that works.  *)

Size == NUMTRACKS * NUMSECTORS
Cells == Bytes \cup {Junk}
Wanted == want[file[selected]][<<gtrack[selected], gsec>>]

GuestType ==
    /\ wild = FALSE
    /\ sector \in [Drives -> 0 .. NUMSECTORS - 1 \cup {NOSECTOR}]
    /\ sectorbuf \in [0 .. SECTORSIZE -> Cells]
    /\ image \in [Images -> [1 .. Size -> [0 .. SECTORSIZE - 1 -> Cells]]]
    /\ want \in [Images -> [Places -> Bytes]]
    /\ gtrack = track /\ gval \in Bytes
    /\ gpc \in {"idle", "unloaded", "ready", "found", "read", "write"}

\* Where the driver is, and what the controller has of its sector.
Driver ==
    /\ dirtysector <=> gpc = "write" /\ gcnt > 0
    /\ gpc # "idle" => selected \in Drives /\ file[selected] \in Images
    /\ gpc \in {"ready", "found", "read", "write"} => "HEADLOAD" \in status[selected]
    /\ gpc \in {"found", "read", "write"} => /\ gsec \in 0 .. NUMSECTORS - 1
                                             /\ sector[selected] = gsec
    /\ gpc = "found" => byte[selected] = NOBYTE
    /\ gpc = "read" => /\ gcnt \in 1 .. SECTORSIZE /\ byte[selected] = gcnt
                       /\ gval = Wanted
                       /\ \A i \in 0 .. SECTORSIZE - 1 : sectorbuf[i] = Wanted
    /\ gpc = "write" => /\ gcnt \in 0 .. SECTORSIZE /\ byte[selected] = gcnt
                        /\ \A i \in 0 .. gcnt - 1 : sectorbuf[i] = gval
                        /\ gcnt = SECTORSIZE => gval = Wanted

\* The image lacks what the driver wanted only in a sector that is still in the buffer.
Pending(f, p) == /\ gpc = "write" /\ gcnt = SECTORSIZE
                 /\ f = file[selected] /\ p = <<gtrack[selected], gsec>>
Kept == \A f \in Images, p \in Places : Pending(f, p) \/ Holds(f, p, want[f][p])

GInv == DInv /\ GuestType /\ Driver /\ Kept

\* Every place of the disk has a sector of the image to itself.
LEMMA Multiples ==
  ASSUME NEW m \in Nat \ {0}, NEW a \in Nat, NEW b \in Nat, a < b
  PROVE  a * m \in Nat /\ b * m \in Nat /\ a * m + m <= b * m
BY Z3

LEMMA PlaceFacts ==
  /\ Size \in Nat \ {0}
  /\ \A p \in Places : OFFSET(p[1], p[2]) \in 0 .. Size - 1
  /\ \A p, q \in Places : OFFSET(p[1], p[2]) = OFFSET(q[1], q[2]) => p = q
<1>0. /\ NUMTRACKS \in Nat \ {0} /\ NUMSECTORS \in Nat \ {0}
      /\ \A a \in Nat : a * NUMSECTORS \in Nat
  BY DiskAssumption, Z3
<1>1. Size \in Nat \ {0}
  <2>1. 0 < NUMTRACKS /\ 0 * NUMSECTORS = 0
    BY <1>0
  <2>2. 0 * NUMSECTORS + NUMSECTORS <= NUMTRACKS * NUMSECTORS
    BY <1>0, <2>1, Multiples
  <2> QED BY <1>0, <2>1, <2>2 DEF Size
<1>2. ASSUME NEW p \in Places PROVE OFFSET(p[1], p[2]) \in 0 .. Size - 1
  <2>1. p[1] \in Nat /\ p[1] < NUMTRACKS /\ p[2] \in 0 .. NUMSECTORS - 1
    BY <1>0 DEF Places
  <2>2. p[1] * NUMSECTORS \in Nat /\ p[1] * NUMSECTORS + NUMSECTORS <= NUMTRACKS * NUMSECTORS
    BY <1>0, <2>1, Multiples
  <2> QED BY <1>0, <1>1, <2>1, <2>2 DEF OFFSET, Size
<1>3. ASSUME NEW p \in Places, NEW q \in Places, OFFSET(p[1], p[2]) = OFFSET(q[1], q[2])
      PROVE  p = q
  <2>1. /\ p[1] \in Nat /\ p[2] \in 0 .. NUMSECTORS - 1 /\ p = <<p[1], p[2]>>
        /\ q[1] \in Nat /\ q[2] \in 0 .. NUMSECTORS - 1 /\ q = <<q[1], q[2]>>
    BY <1>0 DEF Places
  <2>2. p[1] * NUMSECTORS + p[2] = q[1] * NUMSECTORS + q[2]
    BY <1>3 DEF OFFSET
  <2>3. ~(p[1] < q[1])
    <3> SUFFICES ASSUME p[1] < q[1] PROVE FALSE
      OBVIOUS
    <3>1. p[1] * NUMSECTORS + NUMSECTORS <= q[1] * NUMSECTORS
      BY <1>0, <2>1, Multiples
    <3> QED BY <1>0, <2>1, <2>2, <3>1
  <2>4. ~(q[1] < p[1])
    <3> SUFFICES ASSUME q[1] < p[1] PROVE FALSE
      OBVIOUS
    <3>1. q[1] * NUMSECTORS + NUMSECTORS <= p[1] * NUMSECTORS
      BY <1>0, <2>1, Multiples
    <3> QED BY <1>0, <2>1, <2>2, <3>1
  <2>5. p[1] = q[1]
    BY <2>1, <2>3, <2>4
  <2> QED BY <1>0, <2>1, <2>2, <2>5
<1> QED BY <1>1, <1>2, <1>3

LEMMA ImageLen == ASSUME GuestType, NEW f \in Images PROVE Len(image[f]) = Size
<1>1. image[f] \in [1 .. Size -> [0 .. SECTORSIZE - 1 -> Cells]]
  BY DEF GuestType
<1> QED BY <1>1, PlaceFacts

\* The driver's sector is a place of the disk.
LEMMA PlaceOfDriver ==
  ASSUME DInv, GuestType, Driver, gpc \in {"found", "read", "write"}
  PROVE  /\ selected \in Drives /\ selected # NoDrive /\ file[selected] \in Images
         /\ file[selected] # NoImage
         /\ <<gtrack[selected], gsec>> \in Places
         /\ Wanted \in Bytes
         /\ OFFSET(track[selected], sector[selected]) = OFFSET(gtrack[selected], gsec)
         /\ OFFSET(gtrack[selected], gsec) \in 0 .. Size - 1
<1>1. selected \in Drives /\ file[selected] \in Images
  BY DEF Driver
<1>2. <<gtrack[selected], gsec>> \in Places
  BY <1>1 DEF Driver, GuestType, DInv, HeadType, Places
<1>3. Wanted \in Bytes
  BY <1>1, <1>2 DEF Wanted, GuestType
<1>4. OFFSET(gtrack[selected], gsec) \in 0 .. Size - 1
  BY <1>2, PlaceFacts
<1>5. OFFSET(track[selected], sector[selected]) = OFFSET(gtrack[selected], gsec)
  BY DEF Driver, GuestType
<1> QED BY <1>1, <1>2, <1>3, <1>4, <1>5, DiskAssumption, NoDriveAssumption

\* With nothing unwritten a flush does nothing.
LEMMA Clean == ASSUME ~dirtysector, NEW t, FlushIfDirty(t)
               PROVE  UNCHANGED <<sectorbuf, dirtysector, image>>
BY DEF FlushIfDirty

\* Steps that leave the images, the buffer and what is wanted.
LEMMA KeptStays ==
  ASSUME Kept, UNCHANGED <<image, want>>,
         \A f \in Images, p \in Places : Pending(f, p) => Pending(f, p)'
  PROVE  Kept'
<1> SUFFICES ASSUME NEW f \in Images, NEW p \in Places, ~Pending(f, p)'
             PROVE  Holds(f, p, want[f][p])'
  BY DEF Kept
<1>1. Holds(f, p, want[f][p])
  BY DEF Kept
<1> QED BY <1>1 DEF Holds

LEMMA NotWriting == gpc # "write" => \A f \in Images, p \in Places : ~Pending(f, p)
BY DEF Pending

LEMMA InitGInv == GInit => GInv
<1> SUFFICES ASSUME GInit PROVE GInv
  OBVIOUS
<1>1. DInv
  BY InitDInv DEF GInit
<1>2. Size \in Nat \ {0} /\ Zero \in Bytes
  BY PlaceFacts, DiskAssumption
<1>3. [i \in 0 .. SECTORSIZE - 1 |-> Zero] \in [0 .. SECTORSIZE - 1 -> Cells]
  BY <1>2 DEF Cells
<1>4. Blank \in [1 .. Size -> [0 .. SECTORSIZE - 1 -> Cells]]
  BY <1>3 DEF Blank, Size
<1>5. GuestType
  <2>1. 0 \in 0 .. NUMSECTORS - 1
    BY DiskAssumption
  <2>2. sector \in [Drives -> 0 .. NUMSECTORS - 1 \cup {NOSECTOR}]
    BY <2>1 DEF GInit, Init
  <2>3. sectorbuf \in [0 .. SECTORSIZE -> Cells]
    BY <1>2 DEF GInit, Init, Cells
  <2>4. want \in [Images -> [Places -> Bytes]]
    BY <1>2 DEF GInit
  <2>5. image \in [Images -> [1 .. Size -> [0 .. SECTORSIZE - 1 -> Cells]]]
    BY <1>4 DEF GInit, Init
  <2> QED BY <1>2, <2>2, <2>3, <2>4, <2>5 DEF GInit, Init, GuestType
<1>6. Driver
  BY DEF GInit, Init, Driver
<1>7. Kept
  <2> SUFFICES ASSUME NEW f \in Images, NEW p \in Places PROVE Holds(f, p, want[f][p])
    BY DEF Kept
  <2>1. image[f] = Blank /\ want[f][p] = Zero
    BY DEF GInit, Init
  <2>2. OFFSET(p[1], p[2]) \in 0 .. Size - 1 /\ Len(image[f]) = Size
    BY <1>5, PlaceFacts, ImageLen
  <2>3. OFFSET(p[1], p[2]) + 1 \in 1 .. Size
    BY <1>2, <2>2
  <2>4. Blank[OFFSET(p[1], p[2]) + 1] = [i \in 0 .. SECTORSIZE - 1 |-> Zero]
    BY <2>3 DEF Blank, Size
  <2> QED BY <1>2, <2>1, <2>2, <2>4 DEF Holds
<1> QED BY <1>1, <1>5, <1>6, <1>7 DEF GInv

\* Choosing a drive, which may have no image.
LEMMA GuestSelect == ASSUME GInv, NEW d \in Drives, Select(d) PROVE GuestType' /\ Driver' /\ Kept'
<1>1. /\ gpc \in {"idle", "ready"} /\ drive_select(d)
      /\ gpc' = (IF "ENABLED" \in status'[d] THEN "unloaded" ELSE "idle")
      /\ UNCHANGED <<gtrack, gsec, gcnt, gval, want>>
  BY DEF Select, Go
<1>2. DInv /\ GuestType /\ Driver /\ Kept /\ ~dirtysector
  BY <1>1 DEF GInv, Driver
<1>3. UNCHANGED <<sectorbuf, dirtysector, image, wild, track, file>> /\ selected' = d
  BY <1>1, <1>2, Clean DEF drive_select
<1>4. GuestType'
  <2>1. sector' \in [Drives -> 0 .. NUMSECTORS - 1 \cup {NOSECTOR}]
    BY <1>1, <1>2 DEF drive_select, GuestType
  <2> QED BY <1>1, <1>2, <1>3, <2>1 DEF GuestType
<1>5. "ENABLED" \in status'[d] => file[d] \in Images
  <2>1. OthersIdle' /\ HeadType
    BY <1>1, <1>2, SelectStep DEF DInv
  <2>2. status'[d] = Enabled(d, Deselected[d])
    BY <1>1 DEF drive_select
  <2>3. "ENABLED" \in status'[d] => "MOUNTED" \in status'[d]
    BY <2>2 DEF Enabled
  <2>4. "MOUNTED" \in status'[d] => file'[d] # NoImage
    BY <2>1 DEF OthersIdle
  <2> QED BY <1>3, <2>1, <2>3, <2>4 DEF HeadType
<1>6. Driver'
  BY <1>1, <1>2, <1>3, <1>5 DEF Driver
<1>7. Kept'
  BY <1>1, <1>2, <1>3, NotWriting, KeptStays
<1> QED BY <1>4, <1>6, <1>7

\* A control command with nothing to write back.
LEMMA CleanControl ==
  ASSUME DInv, ~dirtysector, NEW cmd \in SUBSET Commands, drive_control(cmd)
  PROVE  /\ selected \in Drives
         /\ UNCHANGED <<sectorbuf, dirtysector, image, wild, file, selected>>
         /\ track' = [track EXCEPT ![selected] = SteppedOut(cmd)]
         /\ status' = [status EXCEPT ![selected] = StatusAfter(cmd)]
         /\ sector' = [sector EXCEPT ![selected] = IF Lost(cmd) THEN NOSECTOR ELSE @]
         /\ byte' = [byte EXCEPT ![selected] = ByteAfter(cmd)]
         /\ "HEADLOAD" \in StatusAfter(cmd) <=>
                "UNLOAD" \notin cmd /\ ("HEADLOAD" \in status[selected] \/ "LOAD" \in cmd)
<1>1. selected \in Drives
  BY DEF DInv, HeadType, drive_control
<1>2. "HEADLOAD" \in StatusAfter(cmd) <=>
          "UNLOAD" \notin cmd /\ ("HEADLOAD" \in status[selected] \/ "LOAD" \in cmd)
  BY DEF StatusAfter, LoadBits
<1> QED BY <1>1, <1>2, Clean DEF drive_control

LEMMA GuestLoad == ASSUME GInv, LoadHead PROVE GuestType' /\ Driver' /\ Kept'
<1> DEFINE cmd == {"LOAD"}
<1>1. /\ gpc = "unloaded" /\ drive_control(cmd) /\ gpc' = "ready"
      /\ UNCHANGED <<gtrack, gsec, gcnt, gval, want>>
  BY DEF LoadHead, Go
<1>2. DInv /\ GuestType /\ Driver /\ Kept /\ ~dirtysector
  BY <1>1 DEF GInv, Driver
<1>3. cmd \in SUBSET Commands /\ ~Lost(cmd) /\ "UNLOAD" \notin cmd /\ "LOAD" \in cmd
      /\ "STEPIN" \notin cmd /\ "STEPOUT" \notin cmd
  BY DEF Commands, Steps, Lost
<1> HIDE DEF cmd
<1>4. /\ selected \in Drives
      /\ UNCHANGED <<sectorbuf, dirtysector, image, wild, file, selected>>
      /\ track' = [track EXCEPT ![selected] = SteppedOut(cmd)]
      /\ status' = [status EXCEPT ![selected] = StatusAfter(cmd)]
      /\ sector' = [sector EXCEPT ![selected] = @]
      /\ "HEADLOAD" \in StatusAfter(cmd)
  BY <1>1, <1>2, <1>3, CleanControl
<1>5. UNCHANGED track
  BY <1>2, <1>3, <1>4 DEF SteppedOut, SteppedIn, DInv, HeadType
<1>6. UNCHANGED sector
  BY <1>2, <1>4 DEF GuestType
<1>7. "HEADLOAD" \in status'[selected]
  BY <1>2, <1>4 DEF DInv, HeadType
<1>8. GuestType'
  BY <1>1, <1>2, <1>4, <1>5, <1>6 DEF GuestType
<1>9. Driver'
  BY <1>1, <1>2, <1>4, <1>7 DEF Driver
<1> QED BY <1>1, <1>2, <1>4, <1>8, <1>9, NotWriting, KeptStays

LEMMA GuestStep == ASSUME GInv, StepIn \/ StepOut PROVE GuestType' /\ Driver' /\ Kept'
<1>1. PICK cmd \in {{"STEPIN"}, {"STEPOUT"}} :
        /\ drive_control(cmd)
        /\ gtrack' = [gtrack EXCEPT ![selected] = IF cmd = {"STEPIN"} THEN gtrack[selected] + 1
                                                  ELSE gtrack[selected] - 1]
        /\ (IF cmd = {"STEPIN"} THEN gtrack[selected] + 1 ELSE gtrack[selected] - 1) \in 0 .. NUMTRACKS - 1
        /\ gpc = "ready"
        /\ UNCHANGED <<gpc, gsec, gcnt, gval, want>>
  <2>1. {"STEPIN"} # {"STEPOUT"}
    OBVIOUS
  <2>2. CASE StepIn
    BY <2>2 DEF StepIn, Step
  <2>3. CASE StepOut
    BY <2>1, <2>3 DEF StepOut, Step
  <2> QED BY <2>2, <2>3
<1>2. DInv /\ GuestType /\ Driver /\ Kept /\ ~dirtysector
  BY <1>1 DEF GInv, Driver
<1>3. cmd \in SUBSET Commands /\ "UNLOAD" \notin cmd /\ Lost(cmd)
  BY DEF Commands, Steps, Lost
<1>4. /\ selected \in Drives
      /\ UNCHANGED <<sectorbuf, dirtysector, image, wild, file, selected>>
      /\ track' = [track EXCEPT ![selected] = SteppedOut(cmd)]
      /\ status' = [status EXCEPT ![selected] = StatusAfter(cmd)]
      /\ sector' = [sector EXCEPT ![selected] = NOSECTOR]
      /\ "HEADLOAD" \in StatusAfter(cmd) <=> "HEADLOAD" \in status[selected] \/ "LOAD" \in cmd
  BY <1>1, <1>2, <1>3, CleanControl
<1>5. gtrack' = track'
  <2>1. gtrack = track /\ track \in [Drives -> 0 .. NUMTRACKS - 1] /\ NUMTRACKS \in Nat
    BY <1>2, DiskAssumption DEF GuestType, DInv, HeadType
  <2>2. CASE cmd = {"STEPIN"}
    <3>1. SteppedOut(cmd) = track[selected] + 1
      BY <1>1, <1>4, <2>1, <2>2 DEF SteppedOut, SteppedIn
    <3> QED BY <1>1, <1>4, <2>1, <2>2, <3>1
  <2>3. CASE cmd # {"STEPIN"}
    <3>1. cmd = {"STEPOUT"}
      BY <2>3
    <3>2. SteppedOut(cmd) = track[selected] - 1
      BY <1>1, <1>4, <2>1, <2>3, <3>1 DEF SteppedOut, SteppedIn
    <3> QED BY <1>1, <1>4, <2>1, <2>3, <3>2
  <2> QED BY <2>2, <2>3
<1>6. "HEADLOAD" \in status'[selected]
  BY <1>1, <1>2, <1>4 DEF DInv, HeadType, Driver
<1>7. GuestType'
  <2>1. sector' \in [Drives -> 0 .. NUMSECTORS - 1 \cup {NOSECTOR}]
    BY <1>2, <1>4 DEF GuestType
  <2> QED BY <1>1, <1>2, <1>4, <1>5, <2>1 DEF GuestType
<1>8. Driver'
  BY <1>1, <1>2, <1>4, <1>6 DEF Driver
<1> QED BY <1>1, <1>2, <1>4, <1>7, <1>8, NotWriting, KeptStays

LEMMA GuestFind == ASSUME GInv, FindSector PROVE GuestType' /\ Driver' /\ Kept'
<1>1. /\ gpc \in {"ready", "found"} /\ drive_sector /\ gsec' = sector'[selected] /\ gpc' = "found"
      /\ UNCHANGED <<gtrack, gcnt, gval, want>>
  BY DEF FindSector, Go
<1>2. DInv /\ GuestType /\ Driver /\ Kept /\ ~dirtysector
  BY <1>1 DEF GInv, Driver
<1>3. selected \in Drives /\ file[selected] \in Images /\ "HEADLOAD" \in status[selected]
  BY <1>1, <1>2 DEF Driver
<1>4. /\ UNCHANGED <<sectorbuf, dirtysector, image, wild, file, track, selected, status>>
      /\ sector' = [sector EXCEPT ![selected] = NextSector(sector[selected])]
      /\ byte' = [byte EXCEPT ![selected] = NOBYTE]
  <2>1. UNCHANGED <<sectorbuf, dirtysector, image>>
    BY <1>1, <1>2, Clean DEF drive_sector
  <2>2. status' = [status EXCEPT ![selected] = status[selected]]
    BY <1>1, <1>2 DEF drive_sector
  <2> QED BY <1>1, <1>2, <1>3, <2>1, <2>2 DEF drive_sector, DInv, HeadType
<1>5. NextSector(sector[selected]) \in 0 .. NUMSECTORS - 1
  BY <1>2, <1>3, DiskAssumption DEF NextSector, GuestType
<1>6. /\ sector'[selected] = NextSector(sector[selected]) /\ byte'[selected] = NOBYTE
      /\ sector' \in [Drives -> 0 .. NUMSECTORS - 1 \cup {NOSECTOR}]
  BY <1>2, <1>3, <1>4, <1>5 DEF GuestType, DInv, HeadType
<1>7. GuestType'
  BY <1>1, <1>2, <1>4, <1>6 DEF GuestType
<1>8. Driver'
  BY <1>1, <1>2, <1>3, <1>4, <1>5, <1>6 DEF Driver
<1> QED BY <1>1, <1>2, <1>4, <1>7, <1>8, NotWriting, KeptStays

LEMMA GuestBeginRead ==
  ASSUME GInv, BeginRead, CardFails = {FALSE}
  PROVE  GuestType' /\ Driver' /\ Kept'
<1> DEFINE f == file[selected]  p == <<gtrack[selected], gsec>>  n == OFFSET(gtrack[selected], gsec)
<1>1. /\ gpc = "found" /\ drive_read /\ gval' = Readable(selected) /\ gcnt' = 1 /\ gpc' = "read"
      /\ UNCHANGED <<gtrack, gsec, want>>
  BY DEF BeginRead, Go
<1>2. DInv /\ GuestType /\ Driver /\ Kept /\ ~dirtysector
  BY <1>1 DEF GInv, Driver
<1>3. /\ selected \in Drives /\ f \in Images /\ f # NoImage /\ p \in Places /\ Wanted \in Bytes
      /\ OFFSET(track[selected], sector[selected]) = n /\ n \in 0 .. Size - 1
  BY <1>1, <1>2, PlaceOfDriver
<1>4. byte[selected] = NOBYTE /\ ~(NOBYTE < SECTORSIZE) /\ SECTORSIZE \in Nat \ {0}
  BY <1>1, <1>2, DiskAssumption DEF Driver
<1>5. Len(image[f]) = Size /\ Size \in Nat \ {0}
  BY <1>2, <1>3, ImageLen, PlaceFacts
<1>6. image[f][n + 1] = [i \in 0 .. SECTORSIZE - 1 |-> Wanted]
  <2>1. Holds(f, p, want[f][p])
    BY <1>1, <1>2, <1>3 DEF Kept, Pending
  <2>2. p[1] = gtrack[selected] /\ p[2] = gsec /\ want[f][p] = Wanted
    BY DEF Wanted
  <2> QED BY <2>1, <2>2 DEF Holds
<1>7. \A i \in 0 .. SECTORSIZE : Loaded(selected)[i] = IF i < SECTORSIZE THEN Wanted ELSE sectorbuf[i]
  <2>1. n < Len(image[f])
    BY <1>3, <1>5
  <2>2. Loaded(selected) = [i \in 0 .. SECTORSIZE |->
                               IF i < SECTORSIZE THEN image[f][n + 1][i] ELSE sectorbuf[i]]
    BY <1>3, <2>1 DEF Loaded
  <2>3. \A i \in 0 .. SECTORSIZE : i < SECTORSIZE => image[f][n + 1][i] = Wanted
    BY <1>4, <1>6
  <2> HIDE DEF f, n
  <2> QED BY <2>2, <2>3
<1>8. Loaded(selected) \in [0 .. SECTORSIZE -> Cells]
  <2>1. \A i \in 0 .. SECTORSIZE : Loaded(selected)[i] \in Cells
    BY <1>2, <1>3, <1>7 DEF GuestType, Cells
  <2>2. Loaded(selected) = [i \in 0 .. SECTORSIZE |-> Loaded(selected)[i]]
    BY <1>2 DEF Loaded, GuestType
  <2> QED BY <2>1, <2>2
<1>9. /\ sectorbuf' = Loaded(selected) /\ byte' = [byte EXCEPT ![selected] = 1]
      /\ UNCHANGED <<file, status, track, sector, selected, dirtysector, wild>>
      /\ image' = [image EXCEPT ![f] = Extended(image[f], n)]
  BY <1>1, <1>3, <1>4 DEF drive_read
<1>10. UNCHANGED image
  <2>1. Extended(image[f], n) = image[f]
    BY <1>3, <1>5 DEF Extended
  <2> QED BY <1>2, <1>9, <2>1 DEF GuestType
<1>11. gval' = Wanted /\ Wanted' = Wanted
  <2>1. 0 \in 0 .. SECTORSIZE /\ 0 < SECTORSIZE
    BY <1>4
  <2>2. Readable(selected) = Loaded(selected)[0]
    BY <1>4 DEF Readable
  <2> QED BY <1>1, <1>7, <1>9, <2>1, <2>2 DEF Wanted
<1>12. GuestType'
  BY <1>1, <1>2, <1>3, <1>8, <1>9, <1>10, <1>11 DEF GuestType
<1>13. Driver'
  <2>1. byte'[selected] = 1 /\ 1 \in 1 .. SECTORSIZE
    BY <1>2, <1>3, <1>4, <1>9 DEF DInv, HeadType
  <2>2. \A i \in 0 .. SECTORSIZE - 1 : sectorbuf'[i] = Wanted
    BY <1>4, <1>7, <1>9
  <2> QED BY <1>1, <1>2, <1>9, <1>11, <2>1, <2>2 DEF Driver
<1> QED BY <1>1, <1>2, <1>10, <1>12, <1>13, NotWriting, KeptStays

LEMMA GuestRead == ASSUME GInv, Read PROVE GuestType' /\ Driver' /\ Kept'
<1>1. gpc = "read" /\ UNCHANGED <<gtrack, want>>
  BY DEF Read
<1>2. DInv /\ GuestType /\ Driver /\ Kept /\ ~dirtysector
  BY <1>1 DEF GInv, Driver
<1>3. CASE /\ gcnt < SECTORSIZE /\ drive_read
           /\ gval' = Readable(selected) /\ gcnt' = gcnt + 1
           /\ UNCHANGED <<gpc, gsec>>
  <2>1. /\ selected \in Drives /\ Wanted \in Bytes
    BY <1>1, <1>2, PlaceOfDriver
  <2>2. gcnt \in 1 .. SECTORSIZE /\ byte[selected] = gcnt /\ SECTORSIZE \in Nat
    BY <1>1, <1>2, DiskAssumption DEF Driver
  <2>3. /\ byte' = [byte EXCEPT ![selected] = gcnt + 1]
        /\ UNCHANGED <<file, status, track, sector, selected, dirtysector, wild, sectorbuf, image>>
    <3>1. byte[selected] + 1 = gcnt + 1 /\ ~(byte[selected] >= SECTORSIZE)
      BY <1>3, <2>2
    <3>2. /\ byte' = [byte EXCEPT ![selected] = byte[selected] + 1]
          /\ UNCHANGED <<sectorbuf, image>>
      BY <1>3, <3>1, ZenonT(30) DEF drive_read
    <3>3. UNCHANGED <<file, status, track, sector, selected, dirtysector, wild>>
      BY <1>3 DEF drive_read
    <3> QED BY <3>1, <3>2, <3>3
  <2>4. gval' = Wanted /\ Wanted' = Wanted
    <3>1. gcnt \in 0 .. SECTORSIZE - 1 /\ Readable(selected) = sectorbuf[gcnt]
      BY <1>3, <2>2 DEF Readable
    <3> QED BY <1>1, <1>2, <1>3, <2>3, <3>1 DEF Driver, Wanted
  <2>5. GuestType'
    BY <1>1, <1>2, <1>3, <2>1, <2>3, <2>4 DEF GuestType
  <2>6. Driver'
    <3>1. byte'[selected] = gcnt + 1 /\ gcnt + 1 \in 1 .. SECTORSIZE
      BY <1>2, <1>3, <2>1, <2>2, <2>3 DEF DInv, HeadType
    <3> QED BY <1>1, <1>2, <1>3, <2>3, <2>4, <3>1 DEF Driver
  <2> QED BY <1>1, <1>2, <2>3, <2>5, <2>6, NotWriting, KeptStays
<1>4. CASE Ready /\ UNCHANGED vars
  <2>1. /\ gpc' = "ready" /\ gval' = Zero /\ Zero \in Bytes
        /\ UNCHANGED <<file, status, track, sector, byte, selected, sectorbuf, dirtysector, image, wild>>
    BY <1>4, DiskAssumption DEF Ready, Go, vars, head
  <2>2. GuestType'
    BY <1>1, <1>2, <2>1 DEF GuestType
  <2>3. Driver'
    BY <1>1, <1>2, <2>1 DEF Driver
  <2> QED BY <1>1, <1>2, <2>1, <2>2, <2>3, NotWriting, KeptStays
<1> QED BY <1>3, <1>4 DEF Read

LEMMA GuestBeginWrite == ASSUME GInv, BeginWrite PROVE GuestType' /\ Driver' /\ Kept'
<1> DEFINE cmd == {"WRITE"}
<1>1. /\ gpc = "found" /\ drive_control(cmd) /\ gcnt' = 0 /\ gpc' = "write" /\ gval' \in Bytes
      /\ UNCHANGED <<gtrack, gsec, want>>
  BY DEF BeginWrite, Go
<1>2. DInv /\ GuestType /\ Driver /\ Kept /\ ~dirtysector
  BY <1>1 DEF GInv, Driver
<1>3. cmd \in SUBSET Commands /\ ~Lost(cmd) /\ "UNLOAD" \notin cmd /\ ByteAfter(cmd) = 0
      /\ "STEPIN" \notin cmd /\ "STEPOUT" \notin cmd
  BY DEF Commands, Steps, Lost, ByteAfter
<1> HIDE DEF cmd
<1>4. /\ selected \in Drives
      /\ UNCHANGED <<sectorbuf, dirtysector, image, wild, file, selected>>
      /\ track' = [track EXCEPT ![selected] = SteppedOut(cmd)]
      /\ status' = [status EXCEPT ![selected] = StatusAfter(cmd)]
      /\ sector' = [sector EXCEPT ![selected] = @]
      /\ byte' = [byte EXCEPT ![selected] = 0]
      /\ "HEADLOAD" \in StatusAfter(cmd) <=> "HEADLOAD" \in status[selected] \/ "LOAD" \in cmd
  BY <1>1, <1>2, <1>3, CleanControl
<1>5. UNCHANGED track
  BY <1>2, <1>3, <1>4 DEF SteppedOut, SteppedIn, DInv, HeadType
<1>6. UNCHANGED sector
  BY <1>2, <1>4 DEF GuestType
<1>7. "HEADLOAD" \in status'[selected] /\ byte'[selected] = 0
  BY <1>1, <1>2, <1>4 DEF DInv, HeadType, Driver
<1>8. GuestType'
  BY <1>1, <1>2, <1>4, <1>5, <1>6 DEF GuestType
<1>9. Driver'
  <2>1. 0 \in 0 .. SECTORSIZE /\ 0 # SECTORSIZE /\ \A i \in 0 .. 0 - 1 : FALSE
    BY DiskAssumption
  <2> QED BY <1>1, <1>2, <1>4, <1>6, <1>7, <2>1 DEF Driver
<1> QED BY <1>1, <1>2, <1>4, <1>8, <1>9, NotWriting, KeptStays

\* The bytes of the sector; with the last of them the driver counts it as written.
LEMMA GuestFill ==
  ASSUME GInv, Write, gcnt < SECTORSIZE, Trailing = TRUE
  PROVE  GuestType' /\ Driver' /\ Kept'
<1> DEFINE f == file[selected]  p == <<gtrack[selected], gsec>>
<1>1. /\ gpc = "write" /\ drive_write(gval) /\ UNCHANGED gtrack
      /\ want' = IF gcnt + 1 = SECTORSIZE THEN [want EXCEPT ![f][p] = gval] ELSE want
      /\ IF gcnt + 1 = SECTORSIZE + 1 THEN Ready
         ELSE gcnt' = gcnt + 1 /\ UNCHANGED <<gpc, gsec, gval>>
  BY DEF Write
<1>2. DInv /\ GuestType /\ Driver /\ Kept
  BY DEF GInv
<1>3. /\ selected \in Drives /\ f \in Images /\ p \in Places /\ gcnt \in 0 .. SECTORSIZE - 1
      /\ byte[selected] = gcnt /\ SECTORSIZE \in Nat
  BY <1>1, <1>2, PlaceOfDriver, DiskAssumption DEF Driver
<1>4. gcnt' = gcnt + 1 /\ UNCHANGED <<gpc, gsec, gval>>
  BY <1>1, <1>3
<1>5. /\ sectorbuf' = [sectorbuf EXCEPT ![gcnt] = gval] /\ dirtysector' = TRUE
      /\ byte' = [byte EXCEPT ![selected] = gcnt + 1]
      /\ UNCHANGED <<file, status, track, sector, selected, image>>
      /\ wild' = (wild \/ gcnt > SECTORSIZE)
  BY <1>1, <1>3 DEF drive_write
<1>6. wild' = FALSE
  <2>1. wild = FALSE /\ ~(gcnt > SECTORSIZE)
    BY <1>2, <1>3 DEF GuestType
  <2> QED BY <1>5, <2>1, Zenon
<1>7. GuestType'
  <2>1. sectorbuf' \in [0 .. SECTORSIZE -> Cells]
    BY <1>2, <1>3, <1>5 DEF GuestType, Cells
  <2>2. want' \in [Images -> [Places -> Bytes]]
    <3>1. want \in [Images -> [Places -> Bytes]] /\ gval \in Bytes
      BY <1>2 DEF GuestType
    <3>2. [want[f] EXCEPT ![p] = gval] \in [Places -> Bytes]
      BY <1>3, <3>1
    <3> HIDE DEF f, p
    <3> QED BY <1>1, <1>3, <3>1, <3>2
  <2> QED BY <1>1, <1>2, <1>4, <1>5, <1>6, <2>1, <2>2 DEF GuestType
<1>8. \A g \in Images, q \in Places :
          want'[g][q] = IF gcnt + 1 = SECTORSIZE /\ g = f /\ q = p THEN gval ELSE want[g][q]
  <2>1. want \in [Images -> [Places -> Bytes]]
    BY <1>2 DEF GuestType
  <2> HIDE DEF f, p
  <2> QED BY <1>1, <1>3, <2>1
<1>9. Driver'
  <2>1. byte'[selected] = gcnt + 1 /\ gcnt + 1 \in 0 .. SECTORSIZE /\ gcnt + 1 > 0
    BY <1>2, <1>3, <1>5 DEF DInv, HeadType
  <2>2. \A i \in 0 .. gcnt' - 1 : sectorbuf'[i] = gval
    <3> TAKE i \in 0 .. gcnt' - 1
    <3>1. i = gcnt \/ i \in 0 .. gcnt - 1
      BY <1>3, <1>4
    <3>2. i \in 0 .. SECTORSIZE
      BY <1>3, <1>4
    <3> QED BY <1>1, <1>2, <1>5, <3>1, <3>2 DEF Driver, GuestType
  <2>3. gcnt' = SECTORSIZE => gval' = Wanted'
    <3>1. Wanted' = want'[f][p]
      BY <1>1, <1>4, <1>5 DEF Wanted
    <3> HIDE DEF f, p
    <3> QED BY <1>3, <1>4, <1>8, <3>1
  <2> QED BY <1>1, <1>2, <1>4, <1>5, <2>1, <2>2, <2>3 DEF Driver
<1>10. Kept'
  <2> SUFFICES ASSUME NEW g \in Images, NEW q \in Places, ~Pending(g, q)'
               PROVE  Holds(g, q, want[g][q])'
    BY DEF Kept
  <2>1. ~(gcnt + 1 = SECTORSIZE /\ g = f /\ q = p)
    BY <1>1, <1>4, <1>5 DEF Pending
  <2>2. want'[g][q] = want[g][q]
    BY <1>8, <2>1
  <2>3. Holds(g, q, want[g][q])
    BY <1>2, <1>3 DEF Kept, Pending
  <2> QED BY <1>5, <2>2, <2>3 DEF Holds
<1> QED BY <1>7, <1>9, <1>10

\* The byte after the sector writes it to its place in the image.
LEMMA GuestFlush ==
  ASSUME GInv, Write, gcnt = SECTORSIZE, Trailing = TRUE, CardFails = {FALSE}
  PROVE  GuestType' /\ Driver' /\ Kept'
<1> DEFINE f == file[selected]  p == <<gtrack[selected], gsec>>  n == OFFSET(gtrack[selected], gsec)
           buf == [sectorbuf EXCEPT ![SECTORSIZE] = gval]
           content == [i \in 0 .. SECTORSIZE - 1 |-> gval]
<1>0. SECTORSIZE \in Nat \ {0}
  BY DiskAssumption
<1>1. /\ gpc = "write" /\ drive_write(gval) /\ UNCHANGED <<gtrack, want>> /\ Ready
  <2>1. gcnt + 1 # SECTORSIZE /\ gcnt + 1 = SECTORSIZE + 1
    BY <1>0
  <2> QED BY <2>1 DEF Write
<1>2. DInv /\ GuestType /\ Driver /\ Kept
  BY DEF GInv
<1>3. /\ selected \in Drives /\ f \in Images /\ f # NoImage /\ p \in Places /\ Wanted \in Bytes
      /\ OFFSET(track[selected], sector[selected]) = n /\ n \in 0 .. Size - 1
      /\ byte[selected] = SECTORSIZE /\ gval = Wanted
  BY <1>1, <1>2, PlaceOfDriver DEF Driver
<1>4. Len(image[f]) = Size /\ Size \in Nat \ {0}
  BY <1>2, <1>3, ImageLen, PlaceFacts
<1>5. /\ wild' = (wild \/ SECTORSIZE > SECTORSIZE) /\ write_sector(track[selected], buf)
      /\ byte' = [byte EXCEPT ![selected] = NOBYTE]
      /\ status' = [status EXCEPT ![selected] = status[selected] \ {"WRITERDY"}]
      /\ UNCHANGED <<file, track, sector, selected>>
  BY <1>0, <1>1, <1>3 DEF drive_write
<1>6. wild' = FALSE
  <2>1. wild = FALSE /\ ~(SECTORSIZE > SECTORSIZE)
    BY <1>0, <1>2 DEF GuestType
  <2> QED BY <1>5, <2>1, Zenon
<1>7. buf \in [0 .. SECTORSIZE -> Cells] /\ \A i \in 0 .. SECTORSIZE - 1 : buf[i] = gval
  <2>1. \A i \in 0 .. SECTORSIZE - 1 : sectorbuf[i] = gval /\ i # SECTORSIZE /\ i \in 0 .. SECTORSIZE
    BY <1>0, <1>1, <1>2 DEF Driver
  <2> QED BY <1>0, <1>2, <2>1 DEF GuestType, Cells
<1> HIDE DEF buf
<1>8. Filled(buf, SECTORSIZE) = buf
  <2>1. \A i \in 0 .. SECTORSIZE : ~(i >= SECTORSIZE /\ i < SECTORSIZE)
    BY <1>0
  <2> QED BY <1>7, <2>1 DEF Filled
<1>9. Sector(buf) = content
  BY <1>7 DEF Sector
<1>10. Put(image[f], n, content) = [image[f] EXCEPT ![n + 1] = content]
  <2>1. Extended(image[f], n) = image[f] /\ (IF n + 1 > Len(image[f]) THEN n + 1 ELSE Len(image[f])) = Size
    BY <1>3, <1>4 DEF Extended
  <2>2. Put(image[f], n, content) = [k \in 1 .. Size |-> IF k = n + 1 THEN content ELSE image[f][k]]
    BY <2>1 DEF Put
  <2>3. image[f] \in [1 .. Size -> [0 .. SECTORSIZE - 1 -> Cells]]
    BY <1>2, <1>3 DEF GuestType
  <2> HIDE DEF f, n, content
  <2> QED BY <2>2, <2>3
<1>11. /\ sectorbuf' = buf /\ dirtysector' = FALSE
       /\ image' = [image EXCEPT ![f] = [image[f] EXCEPT ![n + 1] = content]]
  <2>1. TRUE \notin CardFails
    OBVIOUS
  <2>2. /\ sectorbuf' = Filled(buf, byte[selected]) /\ dirtysector' = FALSE
        /\ image' = [image EXCEPT ![f] = Put(image[f], OFFSET(track[selected], sector[selected]),
                                             Sector(Filled(buf, byte[selected])))]
    BY <1>3, <1>5, <2>1 DEF write_sector
  <2> QED BY <1>3, <1>8, <1>9, <1>10, <2>2
<1>12. gpc' = "ready" /\ gval' = Zero /\ Zero \in Bytes
  BY <1>1, DiskAssumption DEF Ready, Go
<1>13. n + 1 \in 1 .. Size /\ content \in [0 .. SECTORSIZE - 1 -> Cells]
  BY <1>2, <1>3, <1>4 DEF GuestType, Cells
<1>14. image' \in [Images -> [1 .. Size -> [0 .. SECTORSIZE - 1 -> Cells]]]
  <2>1. image \in [Images -> [1 .. Size -> [0 .. SECTORSIZE - 1 -> Cells]]]
    BY <1>2 DEF GuestType
  <2> HIDE DEF f, n, content
  <2>2. [image[f] EXCEPT ![n + 1] = content] \in [1 .. Size -> [0 .. SECTORSIZE - 1 -> Cells]]
    BY <1>3, <1>13, <2>1
  <2> QED BY <1>3, <1>11, <2>1, <2>2
<1>15. GuestType'
  BY <1>1, <1>2, <1>5, <1>6, <1>7, <1>11, <1>12, <1>14 DEF GuestType
<1>16. Driver'
  <2>1. "HEADLOAD" \in status'[selected]
    BY <1>1, <1>2, <1>3, <1>5 DEF Driver, DInv, HeadType
  <2> QED BY <1>2, <1>3, <1>5, <1>11, <1>12, <2>1 DEF Driver
<1>17. Kept'
  <2> SUFFICES ASSUME NEW g \in Images, NEW q \in Places PROVE Holds(g, q, want[g][q])'
    BY DEF Kept
  <2>1. /\ OFFSET(q[1], q[2]) \in 0 .. Size - 1
        /\ OFFSET(q[1], q[2]) = n => q = p
    <3>1. n = OFFSET(p[1], p[2])
      OBVIOUS
    <3> QED BY <1>3, <3>1, PlaceFacts
  <2>2. Len(image'[g]) = Size
    <3>1. image'[g] \in [1 .. Size -> [0 .. SECTORSIZE - 1 -> Cells]]
      BY <1>14
    <3> QED BY <1>4, <3>1
  <2> DEFINE m == OFFSET(q[1], q[2])
  <2>3. m + 1 \in 1 .. Size /\ m < Size
    BY <1>4, <2>1
  <2>4. CASE g = f /\ q = p
    <3>1. image'[g][n + 1] = content
      <4>1. image \in [Images -> [1 .. Size -> [0 .. SECTORSIZE - 1 -> Cells]]]
        BY <1>2 DEF GuestType
      <4> HIDE DEF f, n, content
      <4> QED BY <1>3, <1>11, <1>13, <2>4, <4>1
    <3>2. m = n /\ want'[g][q] = gval
      BY <1>1, <1>3, <2>4 DEF Wanted
    <3> QED BY <2>2, <2>3, <3>1, <3>2 DEF Holds
  <2>5. CASE ~(g = f /\ q = p)
    <3>1. image'[g][m + 1] = image[g][m + 1]
      <4>1. image \in [Images -> [1 .. Size -> [0 .. SECTORSIZE - 1 -> Cells]]]
        BY <1>2 DEF GuestType
      <4>2. g = f => m + 1 # n + 1
        BY <1>3, <2>1, <2>5
      <4> HIDE DEF f, n, content, m
      <4> QED BY <1>3, <1>11, <1>13, <2>3, <4>1, <4>2
    <3>2. Holds(g, q, want[g][q])
      BY <1>2, <2>5 DEF Kept, Pending
    <3> QED BY <1>1, <2>2, <2>3, <3>1, <3>2 DEF Holds
  <2> QED BY <2>4, <2>5
<1> QED BY <1>15, <1>16, <1>17

LEMMA GuestSwap == ASSUME GInv, Swap PROVE GuestType' /\ Driver' /\ Kept'
<1>1. /\ gpc \in {"idle", "ready"} /\ gpc' = "idle"
      /\ UNCHANGED <<gtrack, gsec, gcnt, gval, want>>
      /\ UNCHANGED <<track, sector, byte, selected, sectorbuf, dirtysector, image, wild>>
  BY DEF Swap, Go, drive_mount, drive_unmount, head
<1>2. DInv /\ GuestType /\ Driver /\ Kept /\ ~dirtysector
  BY <1>1 DEF GInv, Driver
<1>3. GuestType'
  BY <1>1, <1>2 DEF GuestType
<1>4. Driver'
  BY <1>1, <1>2 DEF Driver
<1> QED BY <1>1, <1>2, <1>3, <1>4, NotWriting, KeptStays

\* What the driver and the user do, any Z80 program and user may do.
LEMMA GuestIsProgram == GuestType /\ [GNext]_allvars => [Next]_vars
<1> SUFFICES ASSUME GuestType, GNext PROVE [Next]_vars
  BY DEF allvars
<1>1. {"LOAD"} \in SUBSET Commands /\ {"STEPIN"} \in SUBSET Commands
      /\ {"STEPOUT"} \in SUBSET Commands /\ {"WRITE"} \in SUBSET Commands
  BY DEF Commands, Steps
<1>2. gval \in Bytes
  BY DEF GuestType
<1>3. CASE \E d \in Drives : Select(d)
  BY <1>3 DEF Select, Next, Ports
<1>4. CASE LoadHead \/ StepIn \/ StepOut \/ BeginWrite
  BY <1>1, <1>4 DEF LoadHead, StepIn, StepOut, Step, BeginWrite, Next, Ports
<1>5. CASE FindSector \/ BeginRead \/ Read
  BY <1>5 DEF FindSector, BeginRead, Read, Next, Ports
<1>6. CASE Write
  BY <1>2, <1>6 DEF Write, Next, Ports
<1>7. CASE Swap
  BY <1>7 DEF Swap, Next, Mounts
<1> QED BY <1>3, <1>4, <1>5, <1>6, <1>7 DEF GNext

\* The images hold what the driver wrote, but for the sector in the buffer.
THEOREM GuestInvariance ==
  ASSUME Trailing = TRUE, CardFails = {FALSE}
  PROVE  GSpec => []GInv
<1>1. GInv /\ [GNext]_allvars => GInv'
  <2> SUFFICES ASSUME GInv, [GNext]_allvars PROVE GInv'
    OBVIOUS
  <2>1. DInv'
    BY GuestIsProgram, NextDInv DEF GInv
  <2>2. CASE UNCHANGED allvars
    <3>1. /\ UNCHANGED <<file, status, track, sector, byte, selected, sectorbuf, dirtysector, image, wild>>
          /\ UNCHANGED <<gpc, gtrack, gsec, gcnt, gval, want>>
      BY <2>2 DEF allvars, vars, head, gvars
    <3>2. GuestType' /\ Driver'
      BY <3>1 DEF GInv, GuestType, Driver, Wanted
    <3>3. Kept'
      <4>1. \A f \in Images, p \in Places : Pending(f, p) => Pending(f, p)'
        BY <3>1 DEF Pending
      <4> QED BY <3>1, <4>1, KeptStays DEF GInv
    <3> QED BY <2>1, <3>2, <3>3 DEF GInv
  <2>3. CASE Write
    <3>1. gcnt < SECTORSIZE \/ gcnt = SECTORSIZE
      BY <2>3, DiskAssumption DEF Write, GInv, Driver
    <3> QED BY <2>1, <2>3, <3>1, GuestFill, GuestFlush DEF GInv
  <2> QED BY <2>1, <2>2, <2>3, GuestSelect, GuestLoad, GuestStep, GuestFind, GuestBeginRead, GuestRead,
             GuestBeginWrite, GuestSwap DEF GInv, GNext
<1> QED BY <1>1, InitGInv, PTL DEF GSpec

\* "Write the current sector to SD card": for any number of drives and images and
\* any geometry, what the driver wrote is in the image of the drive it wrote to.
THEOREM DiskSettles ==
  ASSUME Trailing = TRUE, CardFails = {FALSE}
  PROVE  GSpec => []Settled
<1>1. GInv => Settled
  BY DEF GInv, Settled, Kept, Pending
<1> QED BY <1>1, GuestInvariance, PTL

\* A byte that the driver reads is the one it last wrote to that place of the image.
THEOREM DiskReadsBack ==
  ASSUME Trailing = TRUE, CardFails = {FALSE}
  PROVE  GSpec => []ReadsBack
<1>1. GInv => ReadsBack
  BY DEF GInv, Driver, Wanted, ReadsBack
<1> QED BY <1>1, GuestInvariance, PTL

\* The driver makes no image grow and stores no byte outside the buffer.
THEOREM DiskInBounds ==
  ASSUME Trailing = TRUE, CardFails = {FALSE}
  PROVE  GSpec => []InBounds
<1>1. GInv => InBounds
  BY ImageLen DEF GInv, GuestType, InBounds, Size
<1> QED BY <1>1, GuestInvariance, PTL
=============================================================================
