-------------------------------- MODULE Ide --------------------------------
(* One ATA channel with its two disks (devices/ide.c): boot identifies the   *)
(* disks, then threads read and write sectors of them.  The disks are        *)
(* modelled from what the driver expects of them: a command makes the        *)
(* channel busy, then it asks for data or fails; an interrupt tells when     *)
(* data can be read, when written data are stored, and when a command fails. *)
(* Disks raise no other interrupt: nothing clears expecting_interrupt after  *)
(* the first command, so the driver would take it for the next completion.   *)
EXTENDS Naturals

CONSTANTS Users,      \* threads that read and write disks
          DiskSector, Value

VARIABLES idepc,      \* where each thread is in the driver
          req,        \* what it does: operation, disk, sector and buffer
          channel,    \* lock's holder, expecting_interrupt, completion_wait
          is_ata,     \* disks that can be read and written
          port,       \* the hardware: phase, command, disk, sector, interrupt
          content,    \* of the disks
          dead        \* the kernel panicked

ideVars == <<idepc, req, channel, is_ata, port, content, dead>>

Disk == {0, 1}
Boot == "boot"
Nobody == "nobody"
ASSUME IdeAssumption == /\ Boot \notin Users /\ Nobody \notin Users
                        /\ DiskSector # {} /\ Value # {}
DiskThreads == Users \cup {Boot}
Request == [op : {"identify", "read", "write"}, disk : Disk,
            sector : DiskSector, buffer : Value]
SomeValue == CHOOSE v \in Value : TRUE
SomeSector == CHOOSE s \in DiskSector : TRUE
identifies(d) == [op |-> "identify", disk |-> d,
                  sector |-> SomeSector, buffer |-> SomeValue]
IdentifiesNext(d, atas) == {e \in atas : e > d}
FirstDisk(S) == CHOOSE d \in S : \A e \in S : d <= e
bootFrom(S) ==
  [t \in DiskThreads |-> IF t = Boot /\ S # {} THEN "locked" ELSE "out"]

IdeInit ==
  /\ is_ata \in SUBSET Disk      \* check_device_type
  /\ idepc = bootFrom(is_ata)
  /\ req = [t \in DiskThreads |->
              identifies(IF t # Boot \/ is_ata = {} THEN 0 ELSE FirstDisk(is_ata))]
  /\ channel = [lock |-> Nobody, expecting_interrupt |-> FALSE, completion_wait |-> 0]
  /\ port = [phase |-> "idle", command |-> "none", disk |-> 0,
             sector |-> SomeSector, data |-> SomeValue, irq |-> FALSE]
  /\ content = [d \in Disk |-> [s \in DiskSector |-> SomeValue]]
  /\ dead = FALSE

-----------------------------------------------------------------------------
(* The driver.                                                               *)

At(t, label) == ~dead /\ idepc[t] = label
goto(t, label) == idepc' = [idepc EXCEPT ![t] = label]

\* ide_read or ide_write is called for a registered disk and takes the lock.
lock_channel(t, r) ==
  /\ At(t, "out") /\ idepc[Boot] = "out" /\ t # Boot
  /\ r.op # "identify" /\ r.disk \in is_ata
  /\ channel.lock = Nobody
  /\ channel' = [channel EXCEPT !.lock = t]
  /\ req' = [req EXCEPT ![t] = r]
  /\ goto(t, "locked")
  /\ UNCHANGED <<is_ata, port, content, dead>>

\* wait_until_idle reads the status register, which clears the interrupt;
\* then the device and sector registers are written.
addressed(p, r) == [p EXCEPT !.irq = FALSE, !.disk = r.disk, !.sector = r.sector]
select_sector(t) ==
  /\ At(t, "locked") /\ port.phase = "idle"
  /\ port' = addressed(port, req[t])
  /\ goto(t, "selected")
  /\ UNCHANGED <<req, channel, is_ata, content, dead>>

prepared_for_none(c) == c
prepared(c) == [c EXCEPT !.expecting_interrupt = TRUE]
issue_pio_command(t) ==
  /\ At(t, "selected")
  /\ channel' = prepared(channel)
  /\ port' = [port EXCEPT !.phase = "busy", !.command = req[t].op]
  /\ goto(t, IF req[t].op = "write" THEN "polling" ELSE "issued")
  /\ UNCHANGED <<req, is_ata, content, dead>>

\* sema_down on completion_wait: before the data are read, after they are written.
afterDown(r) == IF r.op = "write" THEN "done" ELSE "polling"
sema_down_completion(t) ==
  /\ At(t, "issued") /\ channel.completion_wait > 0
  /\ channel' = [channel EXCEPT !.completion_wait = @ - 1]
  /\ goto(t, afterDown(req[t]))
  /\ UNCHANGED <<req, is_ata, port, content, dead>>

\* wait_while_busy, with data requested: input_sector or output_sector.
after_any_transfer(r) == "done"
afterTransfer(r) == IF r.op = "write" THEN "issued" ELSE "done"
transfer_sector(t) ==
  /\ At(t, "polling") /\ port.phase \notin {"busy", "idle"}
  /\ IF req[t].op = "write"
     THEN port' = [port EXCEPT !.phase = "storing", !.data = req[t].buffer]
          /\ UNCHANGED req
     ELSE /\ port' = [port EXCEPT !.phase = "idle"]
          /\ req' = [req EXCEPT ![t].buffer = IF port.phase # "data" THEN SomeValue
                                     ELSE content[port.disk][port.sector]]
  /\ goto(t, afterTransfer(req[t]))
  /\ UNCHANGED <<channel, is_ata, content, dead>>

\* identify_ata_device done, or given up: the next disk, if there is one.
nextDisk(t, left) ==
  IF left = {} THEN goto(t, "out") /\ UNCHANGED req
  ELSE goto(t, "locked") /\ req' = [req EXCEPT ![t] = identifies(FirstDisk(left))]

\* No data requested: boot ignores the disk, a read or write panics.
transfer_fails(t) ==
  /\ At(t, "polling") /\ port.phase = "idle"
  /\ IF t = Boot
     THEN /\ is_ata' = is_ata \ {req[t].disk}
          /\ nextDisk(t, IdentifiesNext(req[t].disk, is_ata)) /\ UNCHANGED dead
     ELSE dead' = TRUE /\ UNCHANGED <<idepc, req, is_ata>>
  /\ UNCHANGED <<channel, port, content>>

ide_returns(t) ==
  /\ At(t, "done")
  /\ IF t = Boot THEN nextDisk(t, IdentifiesNext(req[t].disk, is_ata)) /\ UNCHANGED channel
     ELSE /\ goto(t, "out") /\ channel' = [channel EXCEPT !.lock = Nobody]
          /\ req' = [req EXCEPT ![t] = identifies(0)]    \* the call is over
  /\ UNCHANGED <<is_ata, port, content, dead>>

\* Only an interrupt that is expected wakes the thread.
interrupt_handler ==
  /\ ~dead /\ port.irq
  /\ port' = [port EXCEPT !.irq = FALSE]
  /\ channel' = [channel EXCEPT !.completion_wait =
                   IF channel.expecting_interrupt THEN @ + 1 ELSE @]
  /\ UNCHANGED <<idepc, req, is_ata, content, dead>>

-----------------------------------------------------------------------------
(* The disks.                                                                *)

disk_answers ==
  /\ ~dead /\ port.phase = "busy"
  /\ \/ port' = [port EXCEPT !.phase = "data", !.irq = port.command # "write"]
     \/ port' = [port EXCEPT !.phase = "idle", !.irq = TRUE]
  /\ UNCHANGED <<idepc, req, channel, is_ata, content, dead>>

disk_stores ==
  /\ ~dead /\ port.phase = "storing"
  /\ content' = [content EXCEPT ![port.disk][port.sector] = port.data]
  /\ port' = [port EXCEPT !.phase = "idle", !.irq = TRUE, !.data = SomeValue]
  /\ UNCHANGED <<idepc, req, channel, is_ata, dead>>

DriverStep(t) == \/ select_sector(t) \/ issue_pio_command(t) \/ sema_down_completion(t)
                 \/ transfer_sector(t) \/ transfer_fails(t) \/ ide_returns(t)
IdeNext == \/ \E t \in DiskThreads : DriverStep(t) \/ \E r \in Request : lock_channel(t, r)
           \/ interrupt_handler \/ disk_answers \/ disk_stores
IdeSpec == IdeInit /\ [][IdeNext]_ideVars

\* Threads in the driver are scheduled, disks answer, interrupts are handled.
IdeFairness == /\ \A t \in DiskThreads : WF_ideVars(DriverStep(t))
               /\ WF_ideVars(interrupt_handler) /\ WF_ideVars(disk_answers \/ disk_stores)

-----------------------------------------------------------------------------
(* Properties.                                                               *)

IdeTypeOK ==
  /\ idepc \in [DiskThreads -> {"out", "locked", "selected", "issued", "polling", "done"}]
  /\ req \in [DiskThreads -> Request]
  /\ channel \in [lock : Users \cup {Nobody}, expecting_interrupt : BOOLEAN,
                  completion_wait : 0..1]
  /\ is_ata \subseteq Disk
  /\ port \in [phase : {"idle", "busy", "data", "storing"}, disk : Disk,
               command : {"none", "identify", "read", "write"},
               sector : DiskSector, data : Value, irq : BOOLEAN]
  /\ content \in [Disk -> [DiskSector -> Value]]
  /\ dead \in BOOLEAN

\* Between two commands nothing of the last one is left that the next could
\* take for its own: no interrupt, no completion, no transfer
\* (ide.c:271-276, 349-356, 369-376, 514-517).
NothingLeftOver ==
  channel.lock = Nobody /\ idepc[Boot] = "out" /\ ~dead =>
    /\ channel.completion_wait = 0 /\ port.phase = "idle"
    /\ channel.expecting_interrupt => ~port.irq

\* A read returns what its own sector of its own disk holds, whatever others
\* read and write on the channel (ide.c:340-357, 388-402).
ReadsOwnSector ==
  \A t \in Users : LET r == req[t] IN
    At(t, "done") /\ r.op = "read" => r.buffer = content[r.disk][r.sector]

\* "Returns after the disk has acknowledged receiving the data" (ide.c:359-361).
WritesAcknowledged ==
  \A t \in Users : LET r == req[t] IN
    At(t, "done") /\ r.op = "write"
      => r.buffer = content[r.disk][r.sector] /\ port.phase = "idle"

\* The safety of a channel: commands do not meet, and transfer what they should.
ChannelSafe ==
  /\ IdeTypeOK /\ NothingLeftOver /\ ReadsOwnSector /\ WritesAcknowledged

\* Whoever is in the driver gets out of it, boot too: nobody waits for an
\* interrupt that came already or was ignored (ide.c:413, 352, 375, 514).
CallsReturn ==
  \A t \in DiskThreads : idepc[t] # "out" ~> idepc[t] = "out" \/ dead
=============================================================================
