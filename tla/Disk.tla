-------------------------------- MODULE Disk --------------------------------
(***************************************************************************)
(* The disk drivers: ata_read (kernel/io/ata.c), which polls a drive at    *)
(* fixed ports and gives up after a while, and ide_pio_access              *)
(* (kernel/io/ide.c), which waits for ever.  The drive is external: it is  *)
(* busy after a command and between sectors, its data request bit means    *)
(* nothing while it is, and what is written to it while it is busy is      *)
(* ignored.  Every poll of the status is a step.                           *)
(***************************************************************************)
EXTENDS Integers, Sequences

CONSTANTS
  Lba,         \* sectors
  MaxSectors,  \* bound: sectors of a call
  MaxWrites    \* bound: calls that write

ASSUME DiskAssumption ==
  /\ Lba \subseteq Nat /\ \A a, b \in Lba : a .. b \subseteq Lba
  /\ {MaxSectors, MaxWrites} \subseteq Nat

VARIABLES
  call,        \* the call: at, driver, write, lba, count, s (sectors done), buf, result
  drive,       \* the drive: bsy, drq, err, lba, left (sectors of its command)
  media,       \* what is stored: sector -> number of the last write
  gaveup       \* history: ata_wait has timed out

diskVars == <<call, drive, media, gaveup>>

Idle == [at |-> "idle", driver |-> "ata", write |-> 0, lba |-> 0, count |-> 0, s |-> 0, buf |-> <<>>,
         result |-> FALSE]

DiskInit ==
  /\ call = Idle /\ gaveup = FALSE
  /\ drive = [bsy |-> FALSE, drq |-> FALSE, err |-> FALSE, lba |-> 0, left |-> 0]
  /\ media = [l \in Lba |-> 0]

\* The registers and the command, written to the drive.
Command(c, d) ==
  IF d.bsy THEN {d}
  ELSE {[bsy |-> TRUE, drq |-> q, err |-> FALSE, lba |-> c.lba, left |-> c.count] : q \in BOOLEAN}

NewCall(driver, write, lba, count) ==
  [Idle EXCEPT !.at = IF driver = "ide" THEN "ready" ELSE "wait", !.driver = driver, !.write = write,
               !.lba = lba, !.count = count]

\* ata_read writes the command at once.
ata_read(lba, count) ==
  /\ call.at = "idle" /\ call' = NewCall("ata", 0, lba, count)
  /\ drive' \in Command(call', drive)
  /\ UNCHANGED <<media, gaveup>>

\* ide_read_sectors, ide_write_sectors: the drive must be ready first.
ide_pio_access(write, lba, count) ==
  /\ call.at = "idle" /\ call' = NewCall("ide", write, lba, count)
  /\ UNCHANGED <<drive, media, gaveup>>

Return(ok) == [call EXCEPT !.at = "idle", !.result = ok]

\* ide_wait_ready before the command; an error that is still shown ends the call.
ide_ready ==
  /\ call.at = "ready" /\ ~drive.bsy
  /\ IF drive.err THEN call' = Return(FALSE) /\ UNCHANGED drive
     ELSE call' = [call EXCEPT !.at = "wait"] /\ drive' \in Command(call, drive)
  /\ UNCHANGED <<media, gaveup>>

\* Mutant: the busy bit is not looked at.
has_data_early(d) == d.drq

\* ata_wait; ide_wait_ready and ide_wait_drq.
has_data(d) == ~d.bsy /\ d.drq

wait_data ==
  /\ call.at = "wait"
  /\ \/ ~drive.bsy /\ drive.err /\ call' = Return(FALSE) /\ UNCHANGED gaveup
     \/ ~drive.err /\ has_data(drive) /\ call' = [call EXCEPT !.at = "data"] /\ UNCHANGED gaveup
     \/ ~has_data(drive) /\ ~drive.err /\ call.driver = "ata" /\ call' = Return(FALSE) /\ gaveup' = TRUE
  /\ UNCHANGED <<drive, media>>

\* A sector goes through the data port; after the last one of a write the drive is
\* to flush its cache.
transfer ==
  LET last == call.s + 1 = call.count
      taken == ~drive.bsy /\ drive.left > 0
      word == IF taken THEN <<drive.lba, media[drive.lba]>> ELSE <<0, 0>>
      after == IF ~last THEN [call EXCEPT !.at = "wait"]
               ELSE IF call.write # 0 THEN [call EXCEPT !.at = "flush"] ELSE Return(TRUE)
  IN  /\ call.at = "data"
      /\ call' = [after EXCEPT !.s = @ + 1, !.buf = IF call.write = 0 THEN Append(@, word) ELSE @]
      /\ media' = IF call.write # 0 /\ taken THEN [media EXCEPT ![drive.lba] = call.write] ELSE media
      /\ drive' \in IF ~taken THEN {drive}
                    ELSE {[drive EXCEPT !.lba = @ + 1, !.left = @ - 1, !.drq = q /\ drive.left > 1,
                             !.bsy = drive.left > 1 \/ (last /\ call.write # 0)] : q \in BOOLEAN}
      /\ UNCHANGED gaveup

\* What comes of the flush is waited for and not looked at.
ide_flushed ==
  /\ call.at = "flush" /\ ~drive.bsy
  /\ call' = Return(TRUE) /\ UNCHANGED <<drive, media, gaveup>>

\* The drive has the next sector ready, has flushed, or reports an error.
DriveDone(ok) ==
  /\ drive.bsy
  /\ drive' = [drive EXCEPT !.bsy = FALSE, !.drq = ok /\ drive.left > 0, !.err = ~ok]
  /\ UNCHANGED <<call, media, gaveup>>

Written == {media[l] : l \in Lba}
DiskNext ==
  \/ \E lba \in Lba, count \in 1 .. MaxSectors :
       /\ lba + count - 1 \in Lba
       /\ \/ ata_read(lba, count)
          \/ ide_pio_access(0, lba, count)
          \/ \E w \in 1 .. MaxWrites : w \notin Written /\ ide_pio_access(w, lba, count)
  \/ ide_ready \/ wait_data \/ transfer \/ ide_flushed
  \/ \E ok \in BOOLEAN : DriveDone(ok)

DiskSpec == DiskInit /\ [][DiskNext]_diskVars

-----------------------------------------------------------------------------
(* A read that reports success has returned the sectors that were asked    *)
(* for, in order, as they were last written, also after calls that ended   *)
(* with an error half way; unless ata_read once gave up on a drive that    *)
(* was still busy, whose late answer the next call then takes for its own. *)
SectorsRight ==
  call.at = "idle" /\ call.result /\ call.write = 0 /\ ~gaveup =>
    call.buf = [k \in 1 .. call.count |-> <<call.lba + k - 1, media[call.lba + k - 1]>>]
=============================================================================
