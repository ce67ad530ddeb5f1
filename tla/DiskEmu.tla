------------------------------ MODULE DiskEmu ------------------------------
(***************************************************************************)
(* The 88-DSK disk controller emulation (src/z80ctrl/diskemu.c): drives    *)
(* over image files of the SD card, one sector buffer shared by them all,  *)
(* written back late.  Each port access by the Z80 and each mount or       *)
(* unmount by the user is one step: iorq_dispatch holds the Z80 in a wait  *)
(* state while it runs the handler, and the command line runs only while   *)
(* the Z80 is stopped.                                                     *)
(***************************************************************************)
EXTENDS Integers, Sequences, FiniteSets

CONSTANTS NUMDRIVES, NUMTRACKS, NUMSECTORS, SECTORSIZE,
          NOSECTOR,   \* 0xff as a sector, outside 0 .. NUMSECTORS - 1
          NOBYTE,     \* 0xff as a byte index, outside sectorbuf
          Images,     \* the image files of the card
          NoImage,    \* the FIL of a drive is not open
          NoDrive,    \* selected == NULL
          Bytes, Zero, Junk,  \* what a guest writes; what f_lseek leaves behind
          MaxLen,     \* bound: sectors in an image
          CardFails   \* outcomes of a call that uses the card: TRUE is a failure

ASSUME DiskAssumption == /\ NUMDRIVES \in Nat \ {0} /\ NUMTRACKS \in Nat \ {0, 1}
                         /\ NUMSECTORS \in Nat \ {0} /\ SECTORSIZE \in Nat \ {0}
                         /\ NOSECTOR \in Nat /\ NOSECTOR >= NUMSECTORS
                         /\ NOBYTE \in Nat /\ NOBYTE > SECTORSIZE
                         /\ NoImage \notin Images
                         /\ Zero \in Bytes /\ Junk \notin Bytes

Drives == 0 .. NUMDRIVES - 1
ASSUME NoDriveAssumption == NoDrive \notin Drives

VARIABLES file,         \* the open image of each drive: drives[].fp
          status,       \* the bits set in drives[].status
          track, sector, byte,
          selected, sectorbuf, dirtysector,
          image,        \* the sectors of each image file
          wild          \* bytes were stored outside sectorbuf

head == <<track, sector, byte>>
vars == <<file, status, head, selected, sectorbuf, dirtysector, image, wild>>

Bits == {"READRDY", "TRACK0", "MOUNTED", "ENABLED", "HEADLOAD", "HEADMOVE",
         "WRITERDY"}
Steps == {"STEPIN", "STEPOUT"}
Commands == Steps \cup {"LOAD", "UNLOAD", "WRITE"}

\* Images are whole, as `format` tools make them; statics start at zero.
Blank == [k \in 1 .. NUMTRACKS * NUMSECTORS |-> [i \in 0 .. SECTORSIZE - 1 |-> Zero]]

Init == /\ file = [d \in Drives |-> NoImage] /\ status = [d \in Drives |-> {}]
        /\ track = [d \in Drives |-> 0] /\ sector = [d \in Drives |-> 0]
        /\ byte = [d \in Drives |-> 0]
        /\ selected = NoDrive /\ dirtysector = FALSE /\ wild = FALSE
        /\ sectorbuf = [i \in 0 .. SECTORSIZE |-> Zero]
        /\ image = [f \in Images |-> Blank]
-----------------------------------------------------------------------------
(* The card *)

OFFSET(t, s) == t * NUMSECTORS + s
JunkSector == [i \in 0 .. SECTORSIZE - 1 |-> Junk]

\* f_lseek of a writable file extends it.
Extended(img, n) ==
    IF n <= Len(img) THEN img
    ELSE [k \in 1 .. n |-> IF k <= Len(img) THEN img[k] ELSE JunkSector]

Put(img, n, c) == [k \in 1 .. (IF n + 1 > Len(img) THEN n + 1 ELSE Len(img)) |->
                     IF k = n + 1 THEN c ELSE Extended(img, n)[k]]

\* Mutant of Filled: the last byte received is cleared, too.
FilledOffByOne(buf, b) == [i \in 0 .. SECTORSIZE |->
                             IF i + 1 >= b /\ i < SECTORSIZE THEN Zero ELSE buf[i]]

\* The buffer as write_sector sends it: zero from the byte index on.
Filled(buf, b) == [i \in 0 .. SECTORSIZE |->
                     IF i >= b /\ i < SECTORSIZE THEN Zero ELSE buf[i]]
Sector(buf) == [i \in 0 .. SECTORSIZE - 1 |-> buf[i]]

\* write_sector(), with the selected drive's track at t: what becomes of the
\* buffer and the image.  dirtysector is cleared when the write fails, too.
write_sector(t, buf) ==
    /\ OFFSET(t, sector[selected]) < MaxLen
    /\ sectorbuf' = Filled(buf, byte[selected])
    /\ dirtysector' = FALSE
    /\ \/ /\ file[selected] # NoImage
          /\ image' = [image EXCEPT ![file[selected]] =
                         Put(image[file[selected]], OFFSET(t, sector[selected]),
                             Sector(Filled(buf, byte[selected])))]
       \/ /\ file[selected] = NoImage \/ TRUE \in CardFails
          /\ UNCHANGED image

FlushIfDirty(t) == IF dirtysector THEN write_sector(t, sectorbuf)
                   ELSE UNCHANGED <<sectorbuf, dirtysector, image>>
-----------------------------------------------------------------------------
(* The command line, with the Z80 stopped *)

\* An f_close that fails leaves the FIL open.
drive_unmount(d) ==
    /\ \/ file' = [file EXCEPT ![d] = NoImage]
       \/ TRUE \in CardFails /\ UNCHANGED file
    /\ status' = [status EXCEPT ![d] = status[d] \ {"MOUNTED"}]
    /\ UNCHANGED <<head, selected, sectorbuf, dirtysector, image, wild>>

\* Mutant of drive_mount: FA_CREATE_ALWAYS for FA_OPEN_ALWAYS.
drive_mountCreates(d) ==
    /\ \E f \in Images :
          /\ \A e \in Drives \ {d} : file[e] # f
          /\ file' = [file EXCEPT ![d] = f]
          /\ image' = [image EXCEPT ![f] = <<>>]
    /\ status' = [status EXCEPT ![d] = status[d] \cup {"MOUNTED"}]
    /\ UNCHANGED <<head, selected, sectorbuf, dirtysector, wild>>

\* f_open may fail.  Mounting one image on two drives, which the code does not
\* refuse, is left out: FatFs would keep a size of the file for each of them.
drive_mount(d) ==
    /\ \/ \E f \in Images :
              /\ \A e \in Drives \ {d} : file[e] # f
              /\ file' = [file EXCEPT ![d] = f]
              /\ status' = [status EXCEPT ![d] = status[d] \cup {"MOUNTED"}]
       \/ /\ file' = [file EXCEPT ![d] = NoImage]
          /\ status' = [status EXCEPT ![d] = status[d] \ {"MOUNTED"}]
    /\ UNCHANGED <<head, selected, sectorbuf, dirtysector, image, wild>>

(* The ports *)

\* Mutant of Deselected: the status bits stay.
DeselectedKeeps == status

\* selected->status &= 1 << S_MOUNTED
Deselected == [d \in Drives |-> IF d = selected THEN status[d] \cap {"MOUNTED"}
                                ELSE status[d]]

\* The status bits of a drive that is selected.
Enabled(d, bits) == IF "MOUNTED" \in bits
                    THEN bits \cup {"HEADMOVE", "ENABLED"}
                              \cup (IF track[d] = 0 THEN {"TRACK0"} ELSE {})
                    ELSE bits \cap {"MOUNTED"}

\* Mutant of drive_select: the sector is not written back.
drive_selectNoFlush(newdrv) ==
    /\ selected' = IF newdrv \in Drives THEN newdrv ELSE NoDrive
    /\ status' = [d \in Drives |-> IF d = newdrv THEN Enabled(d, Deselected[d])
                                   ELSE Deselected[d]]
    /\ sector' = [d \in Drives |-> IF d \in {selected, newdrv} THEN NOSECTOR ELSE sector[d]]
    /\ byte' = [d \in Drives |-> IF d \in {selected, newdrv} THEN NOBYTE ELSE byte[d]]
    /\ UNCHANGED <<file, track, wild, sectorbuf, dirtysector, image>>

\* OUT status
drive_select(newdrv) ==
    /\ IF selected # NoDrive THEN FlushIfDirty(track[selected])
       ELSE UNCHANGED <<sectorbuf, dirtysector, image>>
    /\ selected' = IF newdrv \in Drives THEN newdrv ELSE NoDrive
    /\ status' = [d \in Drives |-> IF d = newdrv THEN Enabled(d, Deselected[d])
                                   ELSE Deselected[d]]
    /\ sector' = [d \in Drives |-> IF d \in {selected, newdrv} THEN NOSECTOR ELSE sector[d]]
    /\ byte' = [d \in Drives |-> IF d \in {selected, newdrv} THEN NOBYTE ELSE byte[d]]
    /\ UNCHANGED <<file, track, wild>>

\* The step of a control command, and where the head ends: both bits can be set.
SteppedIn(cmd) == IF "STEPIN" \in cmd /\ track[selected] < NUMTRACKS - 1
                  THEN track[selected] + 1 ELSE track[selected]
SteppedOut(cmd) == IF "STEPOUT" \in cmd /\ SteppedIn(cmd) > 0
                   THEN SteppedIn(cmd) - 1 ELSE SteppedIn(cmd)

LoadBits == {"HEADLOAD", "READRDY"}

\* Mutant of StatusAfter: a step in leaves the track 0 bit.
StatusAfterStale(cmd) ==
    (status[selected] \cup (IF "STEPOUT" \in cmd /\ SteppedOut(cmd) = 0
                            THEN {"TRACK0"} ELSE {}))
    \ (IF "UNLOAD" \in cmd THEN LoadBits ELSE {})

\* The status bits, changed in the order of the code.
StatusAfter(cmd) ==
    (((((status[selected] \ (IF "STEPIN" \in cmd THEN {"TRACK0"} ELSE {}))
        \cup (IF "STEPOUT" \in cmd /\ SteppedOut(cmd) = 0 THEN {"TRACK0"} ELSE {}))
       \ (IF dirtysector THEN {"WRITERDY"} ELSE {}))
      \cup (IF "LOAD" \in cmd THEN LoadBits ELSE {}))
     \ (IF "UNLOAD" \in cmd THEN LoadBits ELSE {}))
    \cup (IF "WRITE" \in cmd THEN {"WRITERDY"} ELSE {})

Lost(cmd) == cmd \cap (Steps \cup {"UNLOAD"}) # {}

\* Mutant of ByteAfter: a write command does not start at byte 0.
ByteAfterNoReset(cmd) == IF dirtysector \/ Lost(cmd) THEN NOBYTE ELSE byte[selected]

ByteAfter(cmd) == IF "WRITE" \in cmd THEN 0
                  ELSE IF dirtysector \/ Lost(cmd) THEN NOBYTE ELSE byte[selected]

\* OUT control.  The step is taken before the dirty sector is written.
drive_control(cmd) ==
    /\ selected # NoDrive
    /\ track' = [track EXCEPT ![selected] = SteppedOut(cmd)]
    /\ FlushIfDirty(IF "STEPIN" \in cmd THEN SteppedIn(cmd) ELSE SteppedOut(cmd))
    /\ status' = [status EXCEPT ![selected] = StatusAfter(cmd)]
    /\ sector' = [sector EXCEPT ![selected] = IF Lost(cmd) THEN NOSECTOR ELSE @]
    /\ byte' = [byte EXCEPT ![selected] = ByteAfter(cmd)]
    /\ UNCHANGED <<file, selected, wild>>

\* IN control: the next sector under the head, when it is loaded.
NextSector(s) == IF s = NOSECTOR \/ s + 1 >= NUMSECTORS THEN 0 ELSE s + 1

\* Mutant of drive_sector: the byte index is not invalidated.
drive_sectorKeepsByte ==
    /\ selected # NoDrive
    /\ FlushIfDirty(track[selected])
    /\ sector' = [sector EXCEPT ![selected] =
                    IF "HEADLOAD" \in status[selected] THEN NextSector(@) ELSE @]
    /\ UNCHANGED <<file, track, byte, status, selected, wild>>

drive_sector ==
    /\ selected # NoDrive
    /\ FlushIfDirty(track[selected])
    /\ LET d == selected
           loaded == "HEADLOAD" \in status[d]
       IN  /\ sector' = [sector EXCEPT ![d] = IF loaded THEN NextSector(sector[d]) ELSE sector[d]]
           /\ byte' = [byte EXCEPT ![d] = IF loaded \/ dirtysector THEN NOBYTE ELSE byte[d]]
           /\ status' = [status EXCEPT ![d] =
                           IF dirtysector THEN status[d] \ {"WRITERDY"} ELSE status[d]]
    /\ UNCHANGED <<file, track, selected, wild>>

\* OUT data: sectorbuf[byte] = data, whatever byte is.
drive_write(data) ==
    /\ selected # NoDrive
    /\ LET d == selected
           b == byte[d]
           buf == IF b <= SECTORSIZE THEN [sectorbuf EXCEPT ![b] = data] ELSE sectorbuf
       IN  /\ wild' = (wild \/ b > SECTORSIZE)
           /\ \/ /\ b < SECTORSIZE
                 /\ sectorbuf' = buf /\ dirtysector' = TRUE
                 /\ byte' = [byte EXCEPT ![d] = b + 1]
                 /\ UNCHANGED <<status, image>>
              \/ /\ b >= SECTORSIZE
                 /\ write_sector(track[d], buf)
                 /\ byte' = [byte EXCEPT ![d] = NOBYTE]
                 /\ status' = [status EXCEPT ![d] = status[d] \ {"WRITERDY"}]
    /\ UNCHANGED <<file, track, sector, selected>>

\* What sectorbuf holds after the read of a sector: as before when nothing is
\* there to read.
Loaded(d) == IF file[d] # NoImage /\ OFFSET(track[d], sector[d]) < Len(image[file[d]])
             THEN [i \in 0 .. SECTORSIZE |->
                     IF i < SECTORSIZE THEN image[file[d]][OFFSET(track[d], sector[d]) + 1][i]
                     ELSE sectorbuf[i]]
             ELSE sectorbuf

\* IN data, which returns the byte read: Readable(selected), as long as the card works.
Readable(d) == IF byte[d] < SECTORSIZE THEN sectorbuf[byte[d]] ELSE Loaded(d)[0]

drive_read ==
    /\ selected # NoDrive
    /\ LET d == selected
       IN  \/ /\ byte[d] < SECTORSIZE
              /\ byte' = [byte EXCEPT ![d] = byte[d] + 1]
              /\ UNCHANGED <<sectorbuf, image>>
           \/ /\ byte[d] >= SECTORSIZE /\ OFFSET(track[d], sector[d]) < MaxLen
              /\ sectorbuf' = Loaded(d) \/ (TRUE \in CardFails /\ UNCHANGED sectorbuf)
              /\ \/ image' = IF file[d] = NoImage THEN image
                             ELSE [image EXCEPT ![file[d]] =
                                     Extended(image[file[d]], OFFSET(track[d], sector[d]))]
                 \/ TRUE \in CardFails /\ UNCHANGED <<sectorbuf, image>>
              /\ byte' = [byte EXCEPT ![d] = 1]
    /\ UNCHANGED <<file, status, track, sector, selected, dirtysector, wild>>
-----------------------------------------------------------------------------
\* Any program on the Z80, any user at the prompt.
Mounts == \E d \in Drives : drive_mount(d) \/ drive_unmount(d)
Ports == \/ \E d \in Drives \cup {NoDrive} : drive_select(d)
         \/ \E cmd \in SUBSET Commands : drive_control(cmd)
         \/ drive_sector
         \/ \E v \in Bytes : drive_write(v)
         \/ drive_read

Next == Mounts \/ Ports
Spec == Init /\ [][Next]_vars
-----------------------------------------------------------------------------
\* Unwritten bytes always belong to the selected drive, and the byte index says
\* how many there are: a drive is never deselected with its sector unwritten,
\* so that the next drive's flush would take it.
DirtyIsSelected == dirtysector => selected # NoDrive /\ byte[selected] \in 1 .. SECTORSIZE

\* A drive that is not selected is left with its head up and not enabled, and
\* a drive is marked mounted only when its image is open.
OthersIdle == \A d \in Drives : /\ d # selected => status[d] \subseteq {"MOUNTED"}
                                /\ "MOUNTED" \in status[d] => file[d] # NoImage

\* An enabled drive shows track 0 exactly when its head is there, which is how
\* a boot loader homes it.
TrackZero == \A d \in Drives : "ENABLED" \in status[d] =>
                                  ("TRACK0" \in status[d] <=> track[d] = 0)

\* Only the image mounted on the selected drive is ever touched.
OnlySelectedWritten ==
    [][\A f \in Images : image'[f] # image[f] =>
          selected # NoDrive /\ file[selected] = f]_vars
=============================================================================
