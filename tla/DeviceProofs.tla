---------------------------- MODULE DeviceProofs ----------------------------
(* Proofs about device drivers: no request on the ATA channel is mixed up     *)
(* with another, and the interrupt queues wake who waits, drive the port and *)
(* are first-in first-out queues, for any number of threads and any size of  *)
(* the queues; keys type what the modifiers make of them; and partitions lie *)
(* on their device.                                                          *)
EXTENDS Ide, Input, Keyboard, Partitions, FiniteSetTheorems, SequenceTheorems, TLAPS

-----------------------------------------------------------------------------
(* The ATA channel.                                                         *)

active(t) == idepc[t] # "out"

(* One thread is in the driver: boot, while nobody has the lock, or the     *)
(* holder of the lock; only boot identifies disks.                          *)
OneInDriver ==
    /\ \A t \in Users : active(t) <=> channel.lock = t
    /\ active(Boot) => channel.lock = Nobody /\ req[Boot].op = "identify"
    /\ \A t \in Users : active(t) => req[t].op \in {"read", "write"}

(* Nothing is under way on the channel and nothing is left of a command.    *)
Quiet == port.phase = "idle" /\ ~port.irq /\ channel.completion_wait = 0

(* The interrupt for a command has been raised and handled, or not yet      *)
(* handled: exactly one completion is there or on its way.                  *)
Completed == \/ port.irq /\ channel.completion_wait = 0
             \/ ~port.irq /\ channel.completion_wait = 1
Pending == ~port.irq /\ channel.completion_wait = 0

(* A command is issued for a sector, the one that the driver addressed.     *)
Addressed(t) == port.disk = req[t].disk /\ port.sector = req[t].sector
Commanded(t) == Addressed(t) /\ port.command = req[t].op /\ channel.expecting_interrupt

Stored(t) == req[t].buffer = content[req[t].disk][req[t].sector]

(* How far the channel is when a thread is at a step of the driver.         *)
InStep(t) ==
    /\ idepc[t] = "locked" => Quiet
    /\ idepc[t] = "selected" => Quiet /\ Addressed(t)
    /\ idepc[t] = "issued" =>
          /\ Commanded(t)
          /\ IF req[t].op = "write"
             THEN \/ port.phase = "storing" /\ Pending /\ port.data = req[t].buffer
                  \/ port.phase = "idle" /\ Completed /\ Stored(t)
             ELSE \/ port.phase = "busy" /\ Pending
                  \/ port.phase \in {"data", "idle"} /\ Completed
    /\ idepc[t] = "polling" =>
          /\ Commanded(t)
          /\ IF req[t].op = "write"
             THEN \/ port.phase \in {"busy", "data"} /\ Pending
                  \/ port.phase = "idle" /\ Completed
             ELSE port.phase \in {"data", "idle"} /\ Pending
    /\ idepc[t] = "done" => Quiet /\ (t \in Users => Stored(t))

IdeInv ==
    /\ IdeTypeOK
    /\ ~dead =>
         /\ OneInDriver
         /\ \A t \in DiskThreads : InStep(t)
         /\ (\A t \in DiskThreads : ~active(t)) => Quiet

\* CHOOSE picks a sector and a value, as there are some.
LEMMA SomeInside == SomeValue \in Value /\ SomeSector \in DiskSector
BY IdeAssumption DEF SomeValue, SomeSector

\* The disk that identification comes to is one of those left.
LEMMA FirstIsDisk == ASSUME NEW S \in SUBSET Disk, S # {} PROVE FirstDisk(S) \in S
<1>1. \E d \in S : \A e \in S : d <= e
  <2>1. CASE 0 \in S
    BY <2>1 DEF Disk
  <2>2. CASE 0 \notin S
    <3>1. S = {1}
      BY <2>2 DEF Disk
    <3>2. QED BY <3>1
  <2>3. QED BY <2>1, <2>2
<1>2. QED BY <1>1 DEF FirstDisk

\* The request that boot makes to identify a disk.
LEMMA IdentifyIsRequest ==
    ASSUME NEW d \in Disk
    PROVE  identifies(d) \in Request /\ identifies(d).op = "identify"
BY SomeInside DEF identifies, Request

\* Who is in the driver is alone in it.
LEMMA ActiveAlone ==
    ASSUME OneInDriver, NEW t \in DiskThreads, active(t), NEW u \in DiskThreads, u # t
    PROVE  ~active(u)
BY IdeAssumption DEF OneInDriver, DiskThreads

\* Boot enters the driver, whose channel is quiet.
LEMMA InitIde == IdeInit => IdeInv
<1> SUFFICES ASSUME IdeInit PROVE IdeInv
  OBVIOUS
<1>1. req \in [DiskThreads -> Request]
  BY FirstIsDisk, IdentifyIsRequest DEF IdeInit, Disk
<1>2. IdeTypeOK
  <2>1. content \in [Disk -> [DiskSector -> Value]]
    BY SomeInside DEF IdeInit
  <2>2. idepc \in [DiskThreads -> {"out", "locked", "selected", "issued", "polling", "done"}]
    BY DEF IdeInit, bootFrom
  <2>3. port \in [phase : {"idle", "busy", "data", "storing"}, disk : Disk,
                  command : {"none", "identify", "read", "write"},
                  sector : DiskSector, data : Value, irq : BOOLEAN]
    BY SomeInside DEF IdeInit, Disk
  <2>4. channel \in [lock : Users \cup {Nobody}, expecting_interrupt : BOOLEAN,
                    completion_wait : 0..1]
    BY DEF IdeInit
  <2>5. is_ata \subseteq Disk
    BY DEF IdeInit
  <2>6. dead \in BOOLEAN
    BY DEF IdeInit
  <2>7. QED BY <1>1, <2>1, <2>2, <2>3, <2>4, <2>5, <2>6 DEF IdeTypeOK
<1>3. OneInDriver
  BY IdentifyIsRequest, FirstIsDisk, IdeAssumption DEF IdeInit, OneInDriver, active,
     bootFrom, DiskThreads, Disk
<1>4. Quiet
  BY DEF Quiet, IdeInit
<1>5. \A t \in DiskThreads : InStep(t)
  BY <1>4 DEF InStep, IdeInit, bootFrom
<1>6. QED BY <1>2, <1>3, <1>4, <1>5 DEF IdeInv

\* The lock of the channel is taken, or boot goes on without it: the channel is
\* quiet, as the last who was in the driver left it.
LEMMA LockChannelKeeps ==
    ASSUME IdeInv, NEW t \in DiskThreads, NEW r \in Request, lock_channel(t, r)
    PROVE  IdeInv'
<1>1. IdeTypeOK'
  BY SomeInside, FirstIsDisk, IdentifyIsRequest, IdeAssumption DEF lock_channel, At, goto,
     IdeInv, IdeTypeOK, OneInDriver, InStep, Completed, Pending, Commanded, Quiet,
     Addressed, active, DiskThreads, Request, Disk
<1>2. ~dead' => OneInDriver'
  BY SomeInside, FirstIsDisk, IdentifyIsRequest, IdeAssumption DEF lock_channel, At, goto,
     IdeInv, IdeTypeOK, OneInDriver, active, DiskThreads, Request, Disk
<1>3. ~dead' => \A u \in DiskThreads : InStep(u)'
  BY IdeAssumption DEF lock_channel, At, goto, IdeInv, IdeTypeOK, OneInDriver, InStep,
     active, Completed, Pending, Commanded, Stored, Quiet, Addressed, DiskThreads, Request,
     Disk
<1>4. ~dead' => ((\A u \in DiskThreads : ~active(u)') => Quiet')
  BY IdeAssumption DEF lock_channel, At, goto, IdeInv, IdeTypeOK, OneInDriver, InStep,
     active, Completed, Pending, Quiet, DiskThreads
<1>5. QED BY <1>1, <1>2, <1>3, <1>4 DEF IdeInv

\* select_sector: the port has the address of the sector from now on.
LEMMA SelectSectorKeeps ==
    ASSUME IdeInv, NEW t \in DiskThreads, select_sector(t)
    PROVE  IdeInv'
<1>1. IdeTypeOK'
  BY SomeInside, FirstIsDisk, IdentifyIsRequest, IdeAssumption DEF select_sector, addressed,
     At, goto, IdeInv, IdeTypeOK, OneInDriver, InStep, Completed, Pending, Commanded, Quiet,
     Addressed, active, DiskThreads, Request, Disk
<1>2. ~dead' => OneInDriver'
  BY SomeInside, FirstIsDisk, IdentifyIsRequest, IdeAssumption DEF select_sector, addressed,
     At, goto, IdeInv, IdeTypeOK, OneInDriver, active, DiskThreads, Request, Disk
<1>3. ~dead' => \A u \in DiskThreads : InStep(u)'
  BY IdeAssumption DEF select_sector, addressed, At, goto, IdeInv, IdeTypeOK, OneInDriver,
     InStep, active, Completed, Pending, Commanded, Stored, Quiet, Addressed, DiskThreads,
     Request, Disk
<1>4. ~dead' => ((\A u \in DiskThreads : ~active(u)') => Quiet')
  BY IdeAssumption DEF select_sector, addressed, At, goto, IdeInv, IdeTypeOK, OneInDriver,
     InStep, active, Completed, Pending, Quiet, DiskThreads
<1>5. QED BY <1>1, <1>2, <1>3, <1>4 DEF IdeInv

\* issue_pio_command: exactly one interrupt is expected from now on.
LEMMA IssueCommandKeeps ==
    ASSUME IdeInv, NEW t \in DiskThreads, issue_pio_command(t)
    PROVE  IdeInv'
<1>1. IdeTypeOK'
  BY SomeInside, FirstIsDisk, IdentifyIsRequest, IdeAssumption DEF issue_pio_command,
     prepared, At, goto, IdeInv, IdeTypeOK, OneInDriver, InStep, Completed, Pending,
     Commanded, Quiet, Addressed, active, DiskThreads, Request, Disk
<1>2. ~dead' => OneInDriver'
  BY SomeInside, FirstIsDisk, IdentifyIsRequest, IdeAssumption DEF issue_pio_command,
     prepared, At, goto, IdeInv, IdeTypeOK, OneInDriver, active, DiskThreads, Request, Disk
<1>3. ~dead' => \A u \in DiskThreads : InStep(u)'
  BY IdeAssumption DEF issue_pio_command, prepared, At, goto, IdeInv, IdeTypeOK,
     OneInDriver, InStep, active, Completed, Pending, Commanded, Stored, Quiet, Addressed,
     DiskThreads, Request, Disk
<1>4. ~dead' => ((\A u \in DiskThreads : ~active(u)') => Quiet')
  BY IdeAssumption DEF issue_pio_command, prepared, At, goto, IdeInv, IdeTypeOK,
     OneInDriver, InStep, active, Completed, Pending, Quiet, DiskThreads
<1>5. QED BY <1>1, <1>2, <1>3, <1>4 DEF IdeInv

\* sema_down takes the one completion that there is for the command.
LEMMA SemaDownKeeps ==
    ASSUME IdeInv, NEW t \in DiskThreads, sema_down_completion(t)
    PROVE  IdeInv'
<1>1. IdeTypeOK'
  BY SomeInside, FirstIsDisk, IdentifyIsRequest, IdeAssumption DEF sema_down_completion,
     afterDown, At, goto, IdeInv, IdeTypeOK, OneInDriver, InStep, Completed, Pending,
     Commanded, Quiet, Addressed, active, DiskThreads, Request, Disk
<1>2. ~dead' => OneInDriver'
  BY SomeInside, FirstIsDisk, IdentifyIsRequest, IdeAssumption DEF sema_down_completion,
     afterDown, At, goto, IdeInv, IdeTypeOK, OneInDriver, active, DiskThreads, Request, Disk
<1>3. ~dead' => \A u \in DiskThreads : InStep(u)'
  BY IdeAssumption DEF sema_down_completion, afterDown, At, goto, IdeInv, IdeTypeOK,
     OneInDriver, InStep, active, Completed, Pending, Commanded, Stored, Quiet, Addressed,
     DiskThreads, Request, Disk
<1>4. ~dead' => ((\A u \in DiskThreads : ~active(u)') => Quiet')
  BY IdeAssumption DEF sema_down_completion, afterDown, At, goto, IdeInv, IdeTypeOK,
     OneInDriver, InStep, active, Completed, Pending, Quiet, DiskThreads
<1>5. QED BY <1>1, <1>2, <1>3, <1>4 DEF IdeInv

\* input_sector and output_sector: a sector that is read is the one that was
\* addressed; one that is written is with the disk, which has yet to answer.
LEMMA TransferKeeps ==
    ASSUME IdeInv, NEW t \in DiskThreads, transfer_sector(t)
    PROVE  IdeInv'
<1>1. IdeTypeOK'
  <2>1. idepc' \in [DiskThreads -> {"out", "locked", "selected", "issued", "polling", "done"}]
    BY DEF transfer_sector, afterTransfer, At, goto, IdeInv, IdeTypeOK
  <2>2. /\ req[t] \in Request /\ req[t].buffer \in Value
        /\ content[port.disk][port.sector] \in Value
    BY DEF IdeInv, IdeTypeOK, Request
  <2>3. \A v \in Value : [req[t] EXCEPT !.buffer = v] \in Request
    BY <2>2 DEF Request
  <2>4. req' \in [DiskThreads -> Request]
    <3>1. CASE req[t].op = "write"
      BY <3>1 DEF transfer_sector, IdeInv, IdeTypeOK
    <3>2. CASE req[t].op # "write"
      <4>1. PICK v \in Value : req' = [req EXCEPT ![t] = [req[t] EXCEPT !.buffer = v]]
        BY <3>2, <2>2, SomeInside DEF transfer_sector
      <4>2. QED BY <4>1, <2>3 DEF IdeInv, IdeTypeOK
    <3>3. QED BY <3>1, <3>2
  <2>5. port' \in [phase : {"idle", "busy", "data", "storing"}, disk : Disk,
                   command : {"none", "identify", "read", "write"},
                   sector : DiskSector, data : Value, irq : BOOLEAN]
    BY <2>2 DEF transfer_sector, IdeInv, IdeTypeOK
  <2>6. QED BY <2>1, <2>4, <2>5 DEF transfer_sector, IdeInv, IdeTypeOK
<1>2. ~dead' => OneInDriver'
  BY SomeInside, FirstIsDisk, IdentifyIsRequest, IdeAssumption DEF transfer_sector,
     afterTransfer, At, goto, IdeInv, IdeTypeOK, OneInDriver, active, DiskThreads, Request,
     Disk
<1>3. ~dead' => \A u \in DiskThreads : InStep(u)'
  <2>1. ~dead /\ active(t) /\ \A u \in DiskThreads : u # t => ~active(u)
    <3>1. ~dead /\ active(t) /\ OneInDriver
      BY DEF transfer_sector, At, IdeInv, active
    <3>2. QED BY <3>1, ActiveAlone
  <2>2. ASSUME NEW u \in DiskThreads, u # t PROVE InStep(u)'
    <3>1. idepc'[u] = "out"
      BY <2>1, <2>2 DEF transfer_sector, goto, IdeInv, IdeTypeOK, active
    <3>2. QED BY <3>1 DEF InStep
  <2>3. InStep(t)'
    <3>1. Commanded(t) /\ port.phase = "data" /\ Pending
      BY <2>1 DEF transfer_sector, At, IdeInv, InStep
    <3>2. CASE req[t].op = "write"
      <4>1. idepc'[t] = "issued" /\ port'.phase = "storing" /\ port'.data = req[t].buffer
        BY <3>2 DEF transfer_sector, afterTransfer, goto, IdeInv, IdeTypeOK
      <4>2. Commanded(t)' /\ Pending' /\ req' = req
        BY <3>1, <3>2 DEF transfer_sector, Commanded, Pending, Addressed, IdeInv, IdeTypeOK
      <4>3. QED BY <3>2, <4>1, <4>2 DEF InStep
    <3>3. CASE req[t].op # "write"
      <4>1. idepc'[t] = "done" /\ Quiet'
        BY <3>1, <3>3 DEF transfer_sector, afterTransfer, goto, IdeInv, IdeTypeOK, Pending,
           Quiet
      <4>2. req'[t] = [req[t] EXCEPT !.buffer = content[port.disk][port.sector]]
        BY <3>1, <3>3 DEF transfer_sector, IdeInv, IdeTypeOK
      <4>3. req[t] \in Request
        BY DEF IdeInv, IdeTypeOK
      <4>4. /\ req'[t].buffer = content[port.disk][port.sector]
            /\ req'[t].disk = req[t].disk /\ req'[t].sector = req[t].sector
        BY <4>2, <4>3 DEF Request
      <4>5. Stored(t)'
        BY <3>1, <4>4 DEF transfer_sector, Stored, Commanded, Addressed
      <4>6. QED BY <4>1, <4>5 DEF InStep
    <3>4. QED BY <3>2, <3>3
  <2>4. QED BY <2>2, <2>3
<1>4. ~dead' => ((\A u \in DiskThreads : ~active(u)') => Quiet')
  BY IdeAssumption DEF transfer_sector, afterTransfer, At, goto, IdeInv, IdeTypeOK,
     OneInDriver, InStep, active, Completed, Pending, Quiet, DiskThreads
<1>5. QED BY <1>1, <1>2, <1>3, <1>4 DEF IdeInv

\* A disk that does not answer to IDENTIFY is passed over; another failure is
\* a panic.
LEMMA FailsKeeps ==
    ASSUME IdeInv, NEW t \in DiskThreads, transfer_fails(t)
    PROVE  IdeInv'
<1>0. /\ idepc' \in [DiskThreads -> {"out", "locked", "selected", "issued", "polling", "done"}]
      /\ req' \in [DiskThreads -> Request]
      /\ req'[Boot].op = "identify" \/ idepc'[Boot] = "out"
  <2>1. IdentifiesNext(req[t].disk, is_ata) \subseteq Disk
    BY DEF IdentifiesNext, IdeInv, IdeTypeOK
  <2>2. CASE nextDisk(t, IdentifiesNext(req[t].disk, is_ata)) /\ t = Boot
    <3> DEFINE left == IdentifiesNext(req[t].disk, is_ata)
    <3> HIDE DEF left
    <3>1. CASE left = {}
      BY <2>2, <3>1 DEF nextDisk, goto, IdeInv, IdeTypeOK, left
    <3>2. CASE left # {}
      <4>1. FirstDisk(left) \in Disk
        BY <2>1, <3>2, FirstIsDisk DEF left
      <4>2. /\ req' = [req EXCEPT ![t] = identifies(FirstDisk(left))]
            /\ idepc' = [idepc EXCEPT ![t] = "locked"]
        BY <2>2, <3>2 DEF nextDisk, goto, left
      <4>3. QED BY <2>2, <4>1, <4>2, IdentifyIsRequest DEF IdeInv, IdeTypeOK, DiskThreads
    <3>3. QED BY <3>1, <3>2
  <2>3. CASE t # Boot
    BY <2>3, IdentifyIsRequest DEF transfer_fails, At, goto, IdeInv, IdeTypeOK, OneInDriver,
       active, Disk, DiskThreads
  <2>4. QED BY <2>2, <2>3 DEF transfer_fails
<1>1. IdeTypeOK'
  BY <1>0, IdeAssumption DEF transfer_fails, IdeInv, IdeTypeOK
<1>2. ~dead' => OneInDriver'
  BY <1>0, IdeAssumption DEF transfer_fails, At, goto, nextDisk, IdeInv, IdeTypeOK,
     OneInDriver, active, DiskThreads
<1>3. ~dead' => \A u \in DiskThreads : InStep(u)'
  BY IdeAssumption DEF transfer_fails, nextDisk, IdentifiesNext, At, goto, IdeInv,
     IdeTypeOK, OneInDriver, InStep, active, Completed, Pending, Commanded, Stored, Quiet,
     Addressed, DiskThreads, Request, Disk
<1>4. ~dead' => ((\A u \in DiskThreads : ~active(u)') => Quiet')
  BY IdeAssumption DEF transfer_fails, nextDisk, IdentifiesNext, At, goto, IdeInv,
     IdeTypeOK, OneInDriver, InStep, active, Completed, Pending, Quiet, DiskThreads
<1>5. QED BY <1>1, <1>2, <1>3, <1>4 DEF IdeInv

\* Who leaves the driver leaves the channel quiet, and releases its lock.
LEMMA ReturnsKeeps == ASSUME IdeInv, NEW t \in DiskThreads, ide_returns(t) PROVE IdeInv'
<1>0. /\ idepc' \in [DiskThreads -> {"out", "locked", "selected", "issued", "polling", "done"}]
      /\ req' \in [DiskThreads -> Request]
      /\ req'[Boot].op = "identify" \/ idepc'[Boot] = "out"
  <2>1. IdentifiesNext(req[t].disk, is_ata) \subseteq Disk
    BY DEF IdentifiesNext, IdeInv, IdeTypeOK
  <2>2. CASE nextDisk(t, IdentifiesNext(req[t].disk, is_ata)) /\ t = Boot
    <3> DEFINE left == IdentifiesNext(req[t].disk, is_ata)
    <3> HIDE DEF left
    <3>1. CASE left = {}
      BY <2>2, <3>1 DEF nextDisk, goto, IdeInv, IdeTypeOK, left
    <3>2. CASE left # {}
      <4>1. FirstDisk(left) \in Disk
        BY <2>1, <3>2, FirstIsDisk DEF left
      <4>2. /\ req' = [req EXCEPT ![t] = identifies(FirstDisk(left))]
            /\ idepc' = [idepc EXCEPT ![t] = "locked"]
        BY <2>2, <3>2 DEF nextDisk, goto, left
      <4>3. QED BY <2>2, <4>1, <4>2, IdentifyIsRequest DEF IdeInv, IdeTypeOK, DiskThreads
    <3>3. QED BY <3>1, <3>2
  <2>3. CASE t # Boot
    BY <2>3, IdentifyIsRequest DEF ide_returns, At, goto, IdeInv, IdeTypeOK, OneInDriver,
       active, Disk, DiskThreads
  <2>4. QED BY <2>2, <2>3 DEF ide_returns
<1>1. IdeTypeOK'
  BY <1>0, IdeAssumption DEF ide_returns, IdeInv, IdeTypeOK
<1>2. ~dead' => OneInDriver'
  BY <1>0, IdeAssumption DEF ide_returns, At, goto, nextDisk, IdeInv, IdeTypeOK,
     OneInDriver, active, DiskThreads
<1>3. ~dead' => \A u \in DiskThreads : InStep(u)'
  BY IdeAssumption DEF ide_returns, nextDisk, IdentifiesNext, At, goto, IdeInv, IdeTypeOK,
     OneInDriver, InStep, active, Completed, Pending, Commanded, Stored, Quiet, Addressed,
     DiskThreads, Request, Disk
<1>4. ~dead' => ((\A u \in DiskThreads : ~active(u)') => Quiet')
  BY IdeAssumption DEF ide_returns, nextDisk, IdentifiesNext, At, goto, IdeInv, IdeTypeOK,
     OneInDriver, InStep, active, Completed, Pending, Quiet, DiskThreads
<1>5. QED BY <1>1, <1>2, <1>3, <1>4 DEF IdeInv

\* The handler raises the semaphore, which is down: no interrupt is counted
\* twice.
LEMMA InterruptKeeps == ASSUME IdeInv, interrupt_handler PROVE IdeInv'
<1>1. IdeTypeOK'
  <2>1. channel.completion_wait = 0
    <3>1. CASE \E t \in DiskThreads : active(t)
      BY <3>1 DEF interrupt_handler, IdeInv, IdeTypeOK, InStep, Completed, Pending, Quiet,
         active
    <3>2. QED BY <3>1 DEF interrupt_handler, IdeInv, Quiet
  <2>2. channel' \in [lock : Users \cup {Nobody}, expecting_interrupt : BOOLEAN,
                     completion_wait : 0..1]
    BY <2>1 DEF interrupt_handler, IdeInv, IdeTypeOK
  <2>3. port' \in [phase : {"idle", "busy", "data", "storing"}, disk : Disk,
                   command : {"none", "identify", "read", "write"},
                   sector : DiskSector, data : Value, irq : BOOLEAN]
    BY DEF interrupt_handler, IdeInv, IdeTypeOK
  <2>4. QED BY <2>2, <2>3 DEF interrupt_handler, IdeInv, IdeTypeOK
<1>2. ~dead' => OneInDriver'
  BY SomeInside, FirstIsDisk, IdentifyIsRequest, IdeAssumption DEF interrupt_handler, At,
     goto, IdeInv, IdeTypeOK, OneInDriver, active, DiskThreads, Request, Disk
<1>3. ~dead' => \A u \in DiskThreads : InStep(u)'
  BY IdeAssumption DEF interrupt_handler, At, goto, IdeInv, IdeTypeOK, OneInDriver, InStep,
     active, Completed, Pending, Commanded, Stored, Quiet, Addressed, DiskThreads, Request,
     Disk
<1>4. ~dead' => ((\A u \in DiskThreads : ~active(u)') => Quiet')
  BY IdeAssumption DEF interrupt_handler, At, goto, IdeInv, IdeTypeOK, OneInDriver, InStep,
     active, Completed, Pending, Quiet, DiskThreads
<1>5. QED BY <1>1, <1>2, <1>3, <1>4 DEF IdeInv

\* The disk answers only the one command that is under way.
LEMMA AnswersKeeps == ASSUME IdeInv, disk_answers PROVE IdeInv'
<1>1. IdeTypeOK'
  <2>1. \A b \in BOOLEAN : \A p \in {"idle", "data"} :
           [port EXCEPT !.phase = p, !.irq = b]
             \in [phase : {"idle", "busy", "data", "storing"}, disk : Disk,
                  command : {"none", "identify", "read", "write"},
                  sector : DiskSector, data : Value, irq : BOOLEAN]
    BY DEF IdeInv, IdeTypeOK
  <2>2. \E b \in BOOLEAN : \E p \in {"idle", "data"} :
          port' = [port EXCEPT !.phase = p, !.irq = b]
    BY DEF disk_answers
  <2>3. QED BY <2>1, <2>2 DEF disk_answers, IdeInv, IdeTypeOK
<1>2. ~dead' => OneInDriver'
  BY SomeInside, FirstIsDisk, IdentifyIsRequest, IdeAssumption DEF disk_answers, At, goto,
     IdeInv, IdeTypeOK, OneInDriver, active, DiskThreads, Request, Disk
<1>3. ~dead' => \A u \in DiskThreads : InStep(u)'
  <2> SUFFICES ASSUME NEW u \in DiskThreads PROVE InStep(u)'
    OBVIOUS
  <2>1. idepc[u] \in {"out", "issued", "polling"} /\ ~dead
    BY DEF disk_answers, IdeInv, IdeTypeOK, InStep, Quiet
  <2>2. CASE idepc[u] = "issued"
    BY <2>1, <2>2, ZenonT(30) DEF disk_answers, IdeInv, IdeTypeOK, InStep, Completed, Pending,
       Commanded, Addressed
  <2>3. CASE idepc[u] = "polling"
    BY <2>1, <2>3, ZenonT(30) DEF disk_answers, IdeInv, IdeTypeOK, InStep, Completed, Pending,
       Commanded, Addressed
  <2>4. CASE idepc[u] = "out"
    BY <2>4 DEF disk_answers, InStep
  <2>5. QED BY <2>1, <2>2, <2>3, <2>4
<1>4. ~dead' => ((\A u \in DiskThreads : ~active(u)') => Quiet')
  BY IdeAssumption DEF disk_answers, At, goto, IdeInv, IdeTypeOK, OneInDriver, InStep,
     active, Completed, Pending, Quiet, DiskThreads
<1>5. QED BY <1>1, <1>2, <1>3, <1>4 DEF IdeInv

\* The disk has stored what it was given at the address it was given.
LEMMA StoresKeeps == ASSUME IdeInv, disk_stores PROVE IdeInv'
<1>1. IdeTypeOK'
  BY SomeInside, FirstIsDisk, IdentifyIsRequest, IdeAssumption DEF disk_stores, At, goto,
     IdeInv, IdeTypeOK, OneInDriver, InStep, Completed, Pending, Commanded, Quiet,
     Addressed, active, DiskThreads, Request, Disk
<1>2. ~dead' => OneInDriver'
  BY SomeInside, FirstIsDisk, IdentifyIsRequest, IdeAssumption DEF disk_stores, At, goto,
     IdeInv, IdeTypeOK, OneInDriver, active, DiskThreads, Request, Disk
<1>3. ~dead' => \A u \in DiskThreads : InStep(u)'
  BY IdeAssumption DEF disk_stores, At, goto, IdeInv, IdeTypeOK, OneInDriver, InStep,
     active, Completed, Pending, Commanded, Stored, Quiet, Addressed, DiskThreads, Request,
     Disk
<1>4. ~dead' => ((\A u \in DiskThreads : ~active(u)') => Quiet')
  BY IdeAssumption DEF disk_stores, At, goto, IdeInv, IdeTypeOK, OneInDriver, InStep,
     active, Completed, Pending, Quiet, DiskThreads
<1>5. QED BY <1>1, <1>2, <1>3, <1>4 DEF IdeInv

\* Every step of the driver and of the disk keeps the invariant.
LEMMA NextIde == IdeInv /\ [IdeNext]_ideVars => IdeInv'
<1> SUFFICES ASSUME IdeInv, [IdeNext]_ideVars PROVE IdeInv'
  OBVIOUS
<1>1. ASSUME NEW t \in DiskThreads, DriverStep(t) PROVE IdeInv'
  BY <1>1, SelectSectorKeeps, IssueCommandKeeps, SemaDownKeeps, TransferKeeps, FailsKeeps,
     ReturnsKeeps DEF DriverStep
<1>2. ASSUME NEW t \in DiskThreads, NEW r \in Request, lock_channel(t, r) PROVE IdeInv'
  BY <1>2, LockChannelKeeps
<1>3. CASE interrupt_handler \/ disk_answers \/ disk_stores
  BY <1>3, InterruptKeeps, AnswersKeeps, StoresKeeps
<1>4. CASE UNCHANGED ideVars
  BY <1>4 DEF ideVars, IdeInv, IdeTypeOK, OneInDriver, InStep, active, Quiet, Completed,
     Pending,
     Commanded, Addressed, Stored
<1>5. QED BY <1>1, <1>2, <1>3, <1>4 DEF IdeNext

\* The invariant says that the channel is safe.
LEMMA IdeInvIsSafe == IdeInv => ChannelSafe
<1> SUFFICES ASSUME IdeInv PROVE ChannelSafe
  OBVIOUS
<1>1. NothingLeftOver
  <2> SUFFICES ASSUME channel.lock = Nobody, idepc[Boot] = "out", ~dead
               PROVE  Quiet
    BY DEF NothingLeftOver, Quiet
  <2>1. \A t \in DiskThreads : ~active(t)
    BY IdeAssumption DEF IdeInv, OneInDriver, active, DiskThreads
  <2>2. QED BY <2>1 DEF IdeInv
<1>2. ReadsOwnSector /\ WritesAcknowledged
  <2> SUFFICES ASSUME NEW t \in Users, At(t, "done")
               PROVE  Stored(t) /\ port.phase = "idle"
    BY DEF ReadsOwnSector, WritesAcknowledged, Stored
  <2>1. QED BY DEF At, IdeInv, InStep, Quiet, DiskThreads
<1>3. QED BY <1>1, <1>2 DEF ChannelSafe, IdeInv

\* The channel never mixes up requests: a thread returns from ide_read with
\* the contents of its own sector, from ide_write with its data stored there,
\* and leaves nothing of its command for the next, whatever the disks, threads
\* and interrupts interleave (ide.c:125-170, 224-268, 380-402).
THEOREM ChannelStaysSafe == IdeSpec => []ChannelSafe
<1>1. QED BY InitIde, NextIde, IdeInvIsSafe, PTL DEF IdeSpec

-----------------------------------------------------------------------------
(* The interrupt queues.                                                    *)

(* Who waits on a queue holds its lock until it has been woken and has      *)
(* released it.                                                             *)
WaitersHoldLock ==
    \A t \in IoThreads : iopc[t] \in {"waiting", "woken"} => queue[QueueOf(t)].lock = t

(* A queue has only threads of its own registered.                          *)
OwnRegistered ==
    \A n \in Queues : \A t \in IoThreads :
        t = queue[n].not_empty \/ t = queue[n].not_full => QueueOf(t) = n

InputInv ==
    /\ InputTypeOK /\ WaitersHoldLock /\ OwnRegistered
    /\ WaitersWillBeWoken /\ OnlyWaitersRegistered /\ IerMatchesQueues

(* The place after a place is a place.                                      *)
LEMMA NextIsCell == ASSUME NEW p \in Cells PROVE next(p) \in Cells
BY InputAssumption DEF next, Cells

\* intq_putc keeps the form of a queue.
LEMMA PutIsQueue == ASSUME NEW q \in Intq, NEW b \in Byte PROVE intq_putc(q, b) \in Intq
BY NextIsCell DEF Intq, intq_putc

\* intq_getc keeps the form of a queue.
LEMMA GetIsQueue == ASSUME NEW q \in Intq PROVE intq_getc(q) \in Intq
BY NextIsCell DEF Intq, intq_getc, intq_getc_drop

\* Initially the queues are empty and nobody waits.
LEMMA InitInput == InputInit => InputInv
<1> SUFFICES ASSUME InputInit PROVE InputInv
  OBVIOUS
<1>1. intq_init \in Intq
  BY InputAssumption DEF intq_init, Intq, Cells
<1>2. InputTypeOK
  BY <1>1 DEF InputInit, InputTypeOK
<1>3. \A n \in Queues : queue[n].not_empty = NoThread /\ queue[n].not_full = NoThread
  BY DEF InputInit, intq_init
<1>4. OwnRegistered /\ OnlyWaitersRegistered
  BY <1>3, InputAssumption DEF OwnRegistered, OnlyWaitersRegistered, IoThreads
<1>5. WaitersHoldLock /\ WaitersWillBeWoken /\ IerMatchesQueues
  BY DEF InputInit, WaitersHoldLock, WaitersWillBeWoken, IerMatchesQueues
<1>6. QED BY <1>2, <1>4, <1>5 DEF InputInv

(* What the fields of a queue are after intq_putc and intq_getc.            *)
LEMMA PutFields ==
    ASSUME NEW q \in Intq, NEW b \in Byte
    PROVE  /\ intq_putc(q, b).head = next(q.head) /\ intq_putc(q, b).tail = q.tail
           /\ intq_putc(q, b).lock = q.lock
           /\ intq_putc(q, b).not_empty = NoThread /\ intq_putc(q, b).not_full = q.not_full
           /\ intq_putc(q, b).buf = [q.buf EXCEPT ![q.head] = b]
BY DEF Intq, intq_putc

\* What intq_getc does to each field of a queue.
LEMMA GetFields ==
    ASSUME NEW q \in Intq
    PROVE  /\ intq_getc(q).head = q.head /\ intq_getc(q).tail = next(q.tail)
           /\ intq_getc(q).lock = q.lock
           /\ intq_getc(q).not_full = NoThread /\ intq_getc(q).not_empty = q.not_empty
           /\ intq_getc(q).buf = [q.buf EXCEPT ![q.tail] = NoByte]
BY DEF Intq, intq_getc, intq_getc_drop

(* Only readers wait for bytes, only writers for room.                      *)
LEMMA RegisteredAtOwn ==
    ASSUME InputInv
    PROVE  /\ queue["buffer"].not_full = NoThread
           /\ queue["txq"].not_empty = NoThread
<1>1. queue["buffer"] \in Intq /\ queue["txq"] \in Intq
  BY DEF InputInv, InputTypeOK, Queues
<1>2. /\ queue["buffer"].not_full \in Writers \cup {NoThread}
      /\ queue["txq"].not_empty \in Readers \cup {NoThread}
  BY <1>1 DEF Intq
<1>3. \A t \in Writers : QueueOf(t) = "txq" /\ t \in IoThreads
  BY InputAssumption DEF QueueOf, IoThreads
<1>4. \A t \in Readers : QueueOf(t) = "buffer" /\ t \in IoThreads
  BY DEF QueueOf, IoThreads
<1>5. QED BY <1>2, <1>3, <1>4 DEF InputInv, OwnRegistered, Queues

(* While a reader waits its queue is empty and it is the one registered;    *)
(* while a writer waits, full.                                              *)
LEMMA WhoWaits ==
    ASSUME InputInv, halted = "no"
    PROVE  /\ \A t \in Readers : iopc[t] = "waiting" =>
                 queue["buffer"].not_empty = t /\ intq_empty(queue["buffer"])
           /\ \A t \in Writers : iopc[t] = "waiting" =>
                 queue["txq"].not_full = t /\ intq_full(queue["txq"])
BY RegisteredAtOwn, InputAssumption DEF InputInv, WaitersWillBeWoken, mustWait, QueueOf,
   IoThreads

(* A step serves a queue: every thread that waits on it is left registered  *)
(* and its wait justified, or it is woken and forgotten.                    *)
StaysOrIsWoken(t) ==
    LET old == queue[QueueOf(t)]  new == queue'[QueueOf(t)]
    IN  \/ /\ iopc'[t] = iopc[t]
           /\ iopc[t] = "waiting" =>
                /\ new.not_empty = old.not_empty /\ new.not_full = old.not_full
                /\ halted = "no" => mustWait(t)'
        \/ iopc[t] = "waiting" /\ iopc'[t] = "woken" /\ new.not_empty # t /\ new.not_full # t
        \/ iopc[t] \in {"out", "retry"} /\ iopc'[t] = "out"
Serves(n) ==
    /\ queue'[n].lock = queue[n].lock
    /\ queue'[n].not_empty \in {queue[n].not_empty, NoThread}
    /\ queue'[n].not_full \in {queue[n].not_full, NoThread}
    /\ \A t \in IoThreads : QueueOf(t) = n => StaysOrIsWoken(t)

(* Serving both queues keeps what is said of their waiters.                 *)
LEMMA ServingKeepsWaiters ==
    ASSUME InputInv, Serves("buffer"), Serves("txq"), halted' = "no" => halted = "no"
    PROVE  WaitersHoldLock' /\ OwnRegistered' /\ WaitersWillBeWoken' /\ OnlyWaitersRegistered'
<1>1. \A t \in IoThreads : QueueOf(t) \in Queues /\ StaysOrIsWoken(t)
  BY DEF QueueOf, Queues, Serves
<1>0. \A n \in Queues :
         /\ queue'[n].lock = queue[n].lock
         /\ queue'[n].not_empty \in {queue[n].not_empty, NoThread}
         /\ queue'[n].not_full \in {queue[n].not_full, NoThread}
  BY DEF Serves, Queues
<1>2. WaitersHoldLock'
  BY <1>1, <1>0 DEF StaysOrIsWoken, InputInv, WaitersHoldLock
<1>3. OwnRegistered'
  BY <1>0, InputAssumption DEF InputInv, OwnRegistered, IoThreads
<1>4. WaitersWillBeWoken'
  <2> SUFFICES ASSUME NEW t \in IoThreads, halted' = "no", iopc'[t] = "waiting"
               PROVE  /\ mustWait(t)' /\ queue'[QueueOf(t)].lock = t
                      /\ t \in {queue'[QueueOf(t)].not_empty, queue'[QueueOf(t)].not_full}
    BY DEF WaitersWillBeWoken
  <2>1. /\ iopc[t] = "waiting" /\ mustWait(t)'
        /\ queue'[QueueOf(t)].not_empty = queue[QueueOf(t)].not_empty
        /\ queue'[QueueOf(t)].not_full = queue[QueueOf(t)].not_full
    BY <1>1 DEF StaysOrIsWoken
  <2>2. QED BY <1>0, <1>1, <2>1 DEF InputInv, WaitersWillBeWoken
<1>5. OnlyWaitersRegistered'
  <2> SUFFICES ASSUME NEW n \in Queues, NEW t \in IoThreads,
                      t = queue'[n].not_empty \/ t = queue'[n].not_full
               PROVE  iopc'[t] = "waiting"
    BY DEF OnlyWaitersRegistered
  <2>1. t # NoThread
    BY InputAssumption DEF IoThreads
  <2>2. t = queue[n].not_empty \/ t = queue[n].not_full
    BY <1>0, <2>1
  <2>3. iopc[t] = "waiting" /\ n = QueueOf(t)
    BY <2>2 DEF InputInv, OnlyWaitersRegistered, OwnRegistered
  <2>4. QED BY <1>1, <2>3 DEF StaysOrIsWoken
<1>6. QED BY <1>2, <1>3, <1>4, <1>5

(* Of the threads in S exactly w is woken.                                  *)
Wakes(S, w) == \A t \in S : iopc'[t] = IF t = w THEN "woken" ELSE iopc[t]
(* t stays where it is, or ends its call.                                   *)
Undisturbed(t) == iopc'[t] = iopc[t] \/ (iopc[t] \in {"out", "retry"} /\ iopc'[t] = "out")

(* A queue that nothing happens to is served.                               *)
LEMMA UntouchedServed ==
    ASSUME InputInv, NEW n \in Queues, queue'[n] = queue[n],
           \A t \in IoThreads : QueueOf(t) = n => Undisturbed(t)
    PROVE  Serves(n)
<1> SUFFICES ASSUME NEW t \in IoThreads, QueueOf(t) = n PROVE StaysOrIsWoken(t)
  BY DEF Serves
<1>1. mustWait(t) => mustWait(t)'
  BY DEF mustWait
<1>2. halted = "no" /\ iopc[t] = "waiting" => mustWait(t)
  BY DEF InputInv, WaitersWillBeWoken
<1>3. QED BY <1>1, <1>2 DEF StaysOrIsWoken, Undisturbed

(* A byte for the readers: the waiting one is woken.                        *)
LEMMA BufferGets ==
    ASSUME InputInv, halted = "no", NEW b \in Byte,
           queue'["buffer"] = intq_putc(queue["buffer"], b),
           Wakes(Readers, queue["buffer"].not_empty)
    PROVE  Serves("buffer")
<1>1. queue["buffer"] \in Intq
  BY DEF InputInv, InputTypeOK, Queues
<1>2. /\ queue'["buffer"].lock = queue["buffer"].lock /\ queue'["buffer"].not_empty = NoThread
      /\ queue'["buffer"].not_full = queue["buffer"].not_full
  <2> DEFINE q == queue["buffer"]
  <2> HIDE DEF q
  <2>1. /\ intq_putc(q, b).lock = q.lock /\ intq_putc(q, b).not_empty = NoThread
        /\ intq_putc(q, b).not_full = q.not_full
    BY <1>1, PutFields DEF q
  <2>2. QED BY <2>1 DEF q
<1> SUFFICES ASSUME NEW t \in Readers PROVE StaysOrIsWoken(t)
  BY <1>2 DEF Serves, QueueOf, IoThreads
<1>3. t \in IoThreads /\ t # NoThread /\ QueueOf(t) = "buffer"
  BY InputAssumption DEF QueueOf, IoThreads
<1>4. CASE t = queue["buffer"].not_empty
  <2>1. iopc[t] = "waiting"
    BY <1>3, <1>4 DEF InputInv, OnlyWaitersRegistered, Queues
  <2>2. queue'["buffer"].not_full # t
    BY <1>2, <1>3, RegisteredAtOwn
  <2>3. QED BY <1>2, <1>3, <1>4, <2>1, <2>2 DEF StaysOrIsWoken, Wakes
<1>5. CASE t # queue["buffer"].not_empty
  <2>1. iopc[t] # "waiting"
    BY <1>5, WhoWaits
  <2>2. QED BY <1>5, <2>1 DEF StaysOrIsWoken, Wakes
<1>6. QED BY <1>4, <1>5

(* A byte taken by a reader: none waits.                                    *)
LEMMA BufferLoses ==
    ASSUME InputInv, halted = "no", ~intq_empty(queue["buffer"]),
           queue'["buffer"] = intq_getc(queue["buffer"]),
           \A t \in Readers : Undisturbed(t)
    PROVE  Serves("buffer")
<1>1. queue["buffer"] \in Intq
  BY DEF InputInv, InputTypeOK, Queues
<1>2. /\ queue'["buffer"].lock = queue["buffer"].lock
      /\ queue'["buffer"].not_empty = queue["buffer"].not_empty
      /\ queue'["buffer"].not_full = NoThread
  BY <1>1, GetFields
<1> SUFFICES ASSUME NEW t \in Readers PROVE StaysOrIsWoken(t)
  BY <1>2 DEF Serves, QueueOf, IoThreads
<1>3. iopc[t] # "waiting"
  BY WhoWaits
<1>4. QED BY <1>3 DEF StaysOrIsWoken, Undisturbed

(* A byte put by a writer: none waits.                                      *)
LEMMA TxqGets ==
    ASSUME InputInv, halted = "no", ~intq_full(queue["txq"]), NEW b \in Byte,
           queue'["txq"] = intq_putc(queue["txq"], b),
           \A t \in Writers : Undisturbed(t)
    PROVE  Serves("txq")
<1>1. queue["txq"] \in Intq
  BY DEF InputInv, InputTypeOK, Queues
<1>2. /\ queue'["txq"].lock = queue["txq"].lock
      /\ queue'["txq"].not_full = queue["txq"].not_full /\ queue'["txq"].not_empty = NoThread
  <2> DEFINE q == queue["txq"]
  <2> HIDE DEF q
  <2>1. /\ intq_putc(q, b).lock = q.lock /\ intq_putc(q, b).not_empty = NoThread
        /\ intq_putc(q, b).not_full = q.not_full
    BY <1>1, PutFields DEF q
  <2>2. QED BY <2>1 DEF q
<1> SUFFICES ASSUME NEW t \in Writers PROVE StaysOrIsWoken(t)
  BY <1>2 DEF Serves, QueueOf, IoThreads
<1>3. iopc[t] # "waiting"
  BY WhoWaits
<1>4. QED BY <1>3 DEF StaysOrIsWoken, Undisturbed

(* A byte goes out, and perhaps another takes its place: the writer that    *)
(* waits is woken.                                                          *)
LEMMA TxqLoses ==
    ASSUME InputInv, halted = "no",
           \/ queue'["txq"] = intq_getc(queue["txq"])
           \/ \E b \in Byte : queue'["txq"] = intq_putc(intq_getc(queue["txq"]), b),
           Wakes(Writers, queue["txq"].not_full)
    PROVE  Serves("txq")
<1>1. queue["txq"] \in Intq /\ intq_getc(queue["txq"]) \in Intq
  BY GetIsQueue DEF InputInv, InputTypeOK, Queues
<1>2. /\ queue'["txq"].lock = queue["txq"].lock /\ queue'["txq"].not_full = NoThread
      /\ queue'["txq"].not_empty \in {queue["txq"].not_empty, NoThread}
  <2>1. CASE queue'["txq"] = intq_getc(queue["txq"])
    BY <1>1, <2>1, GetFields
  <2>2. CASE \E b \in Byte : queue'["txq"] = intq_putc(intq_getc(queue["txq"]), b)
    <3> DEFINE q == intq_getc(queue["txq"])
    <3>1. PICK b \in Byte : queue'["txq"] = intq_putc(q, b)
      BY <2>2
    <3>2. q.lock = queue["txq"].lock /\ q.not_full = NoThread /\ q \in Intq
      BY <1>1, GetFields
    <3> HIDE DEF q
    <3>3. /\ intq_putc(q, b).lock = q.lock /\ intq_putc(q, b).not_empty = NoThread
          /\ intq_putc(q, b).not_full = q.not_full
      BY <3>2, PutFields
    <3>4. QED BY <3>1, <3>2, <3>3
  <2>3. QED BY <2>1, <2>2
<1> SUFFICES ASSUME NEW t \in Writers PROVE StaysOrIsWoken(t)
  BY <1>2 DEF Serves, QueueOf, IoThreads
<1>3. t \in IoThreads /\ t # NoThread /\ QueueOf(t) = "txq"
  BY InputAssumption DEF QueueOf, IoThreads
<1>4. CASE t = queue["txq"].not_full
  <2>1. iopc[t] = "waiting"
    BY <1>3, <1>4 DEF InputInv, OnlyWaitersRegistered, Queues
  <2>2. queue'["txq"].not_empty # t
    BY <1>2, <1>3, RegisteredAtOwn
  <2>3. QED BY <1>2, <1>3, <1>4, <2>1, <2>2 DEF StaysOrIsWoken, Wakes
<1>5. CASE t # queue["txq"].not_full
  <2>1. iopc[t] # "waiting"
    BY <1>5, WhoWaits
  <2>2. QED BY <1>5, <2>1 DEF StaysOrIsWoken, Wakes
<1>6. QED BY <1>4, <1>5

(* Registering, unlocking and setting the tail leave a queue a queue.       *)
LEMMA UpdatedIsQueue ==
    ASSUME NEW q \in Intq, NEW t \in IoThreads
    PROVE  /\ registered(q, t) \in Intq
           /\ [q EXCEPT !.lock = NoThread] \in Intq
           /\ [q EXCEPT !.tail = q.head] \in Intq
BY DEF Intq, registered, IoThreads

(* Signalling and the interrupts that are enabled keep their types.         *)
LEMMA SignalledTypes ==
    ASSUME InputTypeOK, NEW W
    PROVE  signalled(W) \in [IoThreads -> {"out", "locking", "waiting", "woken", "retry"}]
BY DEF InputTypeOK, signalled

\* write_ier enables receiving and transmitting, or one of them, or none.
LEMMA EnabledTypes ==
    \A qs : write_ier(qs) \in SUBSET {"XMIT", "RECV"}
BY DEF write_ier, write_ier_transmit_only, write_ier_receive_only

(* write_ier enables the interrupts that the queues call for.               *)
LEMMA EnabledMatch ==
    ASSUME InputInv, ier' = write_ier(queue') \/ (mode # "QUEUE" /\ mode' = mode)
    PROVE  IerMatchesQueues'
BY DEF IerMatchesQueues, write_ier, write_ier_transmit_only, write_ier_receive_only

(* serial_notify enables them once the driver is interrupt driven.          *)
LEMMA NotifyMatches ==
    ASSUME InputInv, serial_notify(queue'), mode' = mode
    PROVE  ier' \in SUBSET {"XMIT", "RECV"} /\ IerMatchesQueues'
BY EnabledTypes, EnabledMatch DEF serial_notify, InputInv, InputTypeOK

(* A reader takes a byte.                                                   *)
LEMMA GetcKeeps ==
    ASSUME InputInv, NEW t \in IoThreads, input_getc(t)
    PROVE  InputInv'
<1>1. /\ halted = "no" /\ halted' = halted /\ ~intq_empty(queue["buffer"])
      /\ iopc[t] \in {"out", "retry"} /\ mode' = mode /\ serial_notify(queue')
  BY DEF input_getc, Calls, mustWait, QueueOf
<1>2. /\ queue \in [Queues -> Intq] /\ "buffer" \in Queues /\ "txq" \in Queues
      /\ queue' = [queue EXCEPT !["buffer"] = intq_getc(queue["buffer"])]
  BY DEF input_getc, InputInv, InputTypeOK, Queues
<1>3. /\ queue'["buffer"] = intq_getc(queue["buffer"]) /\ queue'["txq"] = queue["txq"]
      /\ queue' \in [Queues -> Intq]
  BY <1>2, GetIsQueue
<1>4. \A u \in IoThreads : Undisturbed(u)
  BY <1>1, RegisteredAtOwn, InputAssumption
     DEF input_getc, signalled, Undisturbed, InputInv, InputTypeOK, IoThreads
<1>5. InputTypeOK'
  BY <1>1, <1>3, NotifyMatches, SignalledTypes DEF input_getc, InputInv, InputTypeOK
<1>6. Serves("buffer")
  BY <1>1, <1>3, <1>4, BufferLoses DEF IoThreads
<1>7. Serves("txq")
  BY <1>2, <1>3, <1>4, UntouchedServed
<1>8. QED BY <1>1, <1>5, <1>6, <1>7, ServingKeepsWaiters, NotifyMatches DEF InputInv

(* A writer puts a byte.                                                    *)
LEMMA PutcKeeps ==
    ASSUME InputInv, NEW t \in IoThreads, NEW b \in Printed, serial_putc(t, b)
    PROVE  InputInv'
<1>1. /\ halted = "no" /\ halted' = halted /\ ~intq_full(queue["txq"]) /\ b \in Byte
      /\ iopc[t] \in {"out", "retry"} /\ mode' = mode /\ ier' = write_ier(queue')
  BY InputAssumption DEF serial_putc, Calls, mustWait, QueueOf
<1>2. /\ queue \in [Queues -> Intq] /\ "buffer" \in Queues /\ "txq" \in Queues
      /\ queue' = [queue EXCEPT !["txq"] = intq_putc(queue["txq"], b)]
  BY DEF serial_putc, InputInv, InputTypeOK, Queues
<1>3. /\ queue'["txq"] = intq_putc(queue["txq"], b) /\ queue'["buffer"] = queue["buffer"]
      /\ queue' \in [Queues -> Intq]
  BY <1>1, <1>2, PutIsQueue
<1>4. \A u \in IoThreads : Undisturbed(u)
  BY <1>1, RegisteredAtOwn, InputAssumption
     DEF serial_putc, signalled, Undisturbed, InputInv, InputTypeOK, IoThreads
<1>5. InputTypeOK'
  BY <1>1, <1>3, EnabledTypes, SignalledTypes DEF serial_putc, InputInv, InputTypeOK
<1>6. Serves("txq")
  BY <1>1, <1>3, <1>4, TxqGets DEF IoThreads
<1>7. Serves("buffer")
  BY <1>2, <1>3, <1>4, UntouchedServed
<1>8. QED BY <1>1, <1>5, <1>6, <1>7, ServingKeepsWaiters, EnabledMatch DEF InputInv

(* The keyboard brings a byte.                                              *)
LEMMA KeyboardKeeps ==
    ASSUME InputInv, NEW b \in Byte, keyboard_interrupt(b)
    PROVE  InputInv'
<1>1. halted = "no" /\ halted' = halted /\ mode' = mode /\ serial_notify(queue')
  BY DEF keyboard_interrupt
<1>2. /\ queue \in [Queues -> Intq] /\ "buffer" \in Queues /\ "txq" \in Queues
      /\ queue' = [queue EXCEPT !["buffer"] = intq_putc(queue["buffer"], b)]
      /\ iopc' = signalled({queue["buffer"].not_empty})
  BY DEF keyboard_interrupt, InputInv, InputTypeOK, Queues
<1>3. /\ queue'["buffer"] = intq_putc(queue["buffer"], b) /\ queue'["txq"] = queue["txq"]
      /\ queue' \in [Queues -> Intq]
  BY <1>2, PutIsQueue
<1>4. Wakes(IoThreads, queue["buffer"].not_empty)
  BY <1>2 DEF Wakes, signalled
<1>5. InputTypeOK'
  BY <1>1, <1>2, <1>3, NotifyMatches, SignalledTypes DEF keyboard_interrupt, InputInv,
     InputTypeOK
<1>6. Serves("buffer")
  BY <1>1, <1>3, <1>4, BufferGets DEF Wakes, IoThreads
<1>7. \A u \in Writers : u # queue["buffer"].not_empty
  <2>1. queue["buffer"].not_empty \in Readers \cup {NoThread}
    BY <1>2 DEF Intq
  <2>2. QED BY <2>1, InputAssumption
<1>8. \A u \in IoThreads : QueueOf(u) = "txq" => Undisturbed(u)
  BY <1>4, <1>7 DEF Wakes, Undisturbed, QueueOf, IoThreads
<1>9. Serves("txq")
  BY <1>2, <1>3, <1>8, UntouchedServed
<1>10. QED BY <1>1, <1>5, <1>6, <1>9, ServingKeepsWaiters, NotifyMatches DEF InputInv

(* A caller with interrupts off puts a byte, after polling one out if need  *)
(* be.                                                                      *)
LEMMA ImpoliteKeeps ==
    ASSUME InputInv, NEW b \in Printed, serial_putc_impolite(b)
    PROVE  InputInv'
<1> DEFINE q == queue["txq"]
<1>1. /\ halted = "no" /\ halted' = halted /\ mode' = mode
      /\ ier' = write_ier(queue') /\ b \in Byte
  BY InputAssumption DEF serial_putc_impolite
<1>2. /\ queue \in [Queues -> Intq] /\ "buffer" \in Queues /\ "txq" \in Queues
      /\ queue' = [queue EXCEPT !["txq"] =
                       intq_putc(IF intq_full(q) THEN intq_getc(q) ELSE q, b)]
      /\ iopc' = IF intq_full(q) THEN signalled({q.not_full}) ELSE iopc
      /\ thre' \in BOOLEAN /\ rbr' = rbr
  BY DEF serial_putc_impolite, InputInv, InputTypeOK, Queues
<1>3. /\ queue'["txq"] = intq_putc(IF intq_full(q) THEN intq_getc(q) ELSE q, b)
      /\ queue'["buffer"] = queue["buffer"]
      /\ queue' \in [Queues -> Intq]
  BY <1>1, <1>2, PutIsQueue, GetIsQueue
<1>4. InputTypeOK'
  <2>1. iopc' \in [IoThreads -> {"out", "locking", "waiting", "woken", "retry"}]
    BY <1>2, SignalledTypes DEF InputInv, InputTypeOK
  <2>2. QED BY <1>1, <1>2, <1>3, <2>1, EnabledTypes DEF InputInv, InputTypeOK
<1>5. \A u \in Readers : u # q.not_full
  <2>1. q.not_full \in Writers \cup {NoThread}
    BY <1>2 DEF Intq
  <2>2. QED BY <2>1, InputAssumption
<1>6. \A u \in Readers : Undisturbed(u)
  BY <1>2, <1>5 DEF signalled, Undisturbed, IoThreads
<1>7. Serves("buffer")
  BY <1>2, <1>3, <1>6, UntouchedServed DEF QueueOf, IoThreads
<1>8. Serves("txq")
  <2>1. CASE intq_full(q)
    <3>1. Wakes(Writers, q.not_full)
      BY <1>2, <2>1 DEF Wakes, signalled, IoThreads
    <3>2. QED BY <1>1, <1>3, <2>1, <3>1, TxqLoses
  <2>2. CASE ~intq_full(q)
    <3>1. \A u \in Writers : Undisturbed(u)
      BY <1>2, <2>2 DEF Undisturbed
    <3>2. QED BY <1>1, <1>3, <2>2, <3>1, TxqGets
  <2>3. QED BY <2>1, <2>2
<1>9. QED BY <1>1, <1>4, <1>7, <1>8, ServingKeepsWaiters, EnabledMatch DEF InputInv

(* The serial port interrupts: a byte in, a byte out, or both.              *)
LEMMA SerialKeeps ==
    ASSUME InputInv, serial_interrupt
    PROVE  InputInv'
<1> DEFINE b == queue["buffer"]
           x == queue["txq"]
           receives == ~intq_full(b) /\ rbr # NoByte
           sends == ~intq_empty(x) /\ thre
<1>1. /\ halted = "no" /\ halted' = halted /\ mode' = mode
      /\ ier' = write_ier(queue')
  BY DEF serial_interrupt
<1>2. /\ queue \in [Queues -> Intq] /\ "buffer" \in Queues /\ "txq" \in Queues
      /\ queue' = [queue EXCEPT !["buffer"] = IF receives THEN intq_putc(b, rbr) ELSE b,
                                !["txq"] = IF sends THEN intq_getc(x) ELSE x]
      /\ iopc' = signalled({IF receives THEN b.not_empty ELSE NoThread,
                            IF sends THEN x.not_full ELSE NoThread})
      /\ rbr' = IF receives THEN NoByte ELSE rbr
      /\ thre' \in BOOLEAN
  BY DEF serial_interrupt, InputInv, InputTypeOK, Queues
<1>3. rbr # NoByte => rbr \in Byte
  BY DEF InputInv, InputTypeOK
<1>4. /\ queue'["buffer"] = IF receives THEN intq_putc(b, rbr) ELSE b
      /\ queue'["txq"] = IF sends THEN intq_getc(x) ELSE x
      /\ queue' \in [Queues -> Intq]
  BY <1>2, <1>3, PutIsQueue, GetIsQueue DEF Queues
<1>5. InputTypeOK'
  BY <1>1, <1>2, <1>4, EnabledTypes, SignalledTypes DEF InputInv, InputTypeOK
<1>6. /\ b.not_empty \in Readers \cup {NoThread} /\ x.not_full \in Writers \cup {NoThread}
      /\ \A u \in IoThreads : u # NoThread
  BY <1>2, InputAssumption DEF Intq, IoThreads
<1>7. Serves("buffer")
  <2>1. CASE receives
    <3>1. Wakes(Readers, b.not_empty)
      BY <1>2, <1>6, <2>1, InputAssumption DEF Wakes, signalled, IoThreads
    <3>2. QED BY <1>1, <1>3, <1>4, <2>1, <3>1, BufferGets
  <2>2. CASE ~receives
    <3>1. \A u \in Readers : Undisturbed(u)
      BY <1>2, <1>6, <2>2, InputAssumption DEF Undisturbed, signalled, IoThreads
    <3>2. QED BY <1>2, <1>4, <2>2, <3>1, UntouchedServed DEF QueueOf, IoThreads
  <2>3. QED BY <2>1, <2>2
<1>8. Serves("txq")
  <2>1. CASE sends
    <3>1. Wakes(Writers, x.not_full)
      BY <1>2, <1>6, <2>1, InputAssumption DEF Wakes, signalled, IoThreads
    <3>2. QED BY <1>1, <1>4, <2>1, <3>1, TxqLoses
  <2>2. CASE ~sends
    <3>1. \A u \in IoThreads : QueueOf(u) = "txq" => Undisturbed(u)
      BY <1>2, <1>6, <2>2, InputAssumption DEF Undisturbed, signalled, IoThreads, QueueOf
    <3>2. QED BY <1>2, <1>4, <2>2, <3>1, UntouchedServed
  <2>3. QED BY <2>1, <2>2
<1>9. QED BY <1>1, <1>5, <1>7, <1>8, ServingKeepsWaiters, EnabledMatch DEF InputInv

(* Steps that touch neither queues nor threads.                             *)
LEMMA PortKeeps ==
    ASSUME InputInv,
           \/ \E t \in IoThreads : putc_poll(t)
           \/ \E b \in Byte : byte_arrives(b)
           \/ byte_sent \/ serial_init_queue \/ UNCHANGED inputVars
    PROVE  InputInv'
<1>1. /\ UNCHANGED <<queue, iopc, halted>>
      /\ \/ ier' = ier /\ mode' = mode
         \/ ier' = write_ier(queue) /\ mode' = "QUEUE"
  BY DEF putc_poll, byte_arrives, byte_sent, serial_init_queue, inputVars
<1>0. thre' \in BOOLEAN /\ rbr' \in Byte \cup {NoByte}
  BY DEF putc_poll, byte_arrives, byte_sent, serial_init_queue, inputVars, InputInv,
     InputTypeOK
<1>2. InputTypeOK'
  BY <1>0, <1>1, EnabledTypes DEF InputInv, InputTypeOK
<1>3. IerMatchesQueues'
  <2>1. CASE ier' = ier /\ mode' = mode
    BY <1>1, <2>1 DEF InputInv, IerMatchesQueues
  <2>2. CASE ier' = write_ier(queue)
    BY <1>1, <2>2, EnabledMatch
  <2>3. QED BY <1>1, <2>1, <2>2
<1>4. Serves("buffer") /\ Serves("txq")
  BY <1>1, UntouchedServed DEF Undisturbed, Queues
<1>5. QED BY <1>1, <1>2, <1>3, <1>4, ServingKeepsWaiters DEF InputInv

(* A thread that finds the lock of its queue held joins the others.         *)
LEMMA LockBlocksKeeps ==
    ASSUME InputInv, NEW t \in IoThreads, lock_acquire_blocks(t)
    PROVE  InputInv'
<1>1. /\ iopc[t] \notin {"waiting", "woken"} /\ iopc' = [iopc EXCEPT ![t] = "locking"]
      /\ UNCHANGED <<queue, mode, ier, rbr, thre, halted>>
  BY DEF lock_acquire_blocks, Calls
<1>2. InputTypeOK' /\ IerMatchesQueues' /\ OwnRegistered'
  BY <1>1 DEF InputInv, InputTypeOK, IerMatchesQueues, OwnRegistered
<1>3. WaitersHoldLock' /\ WaitersWillBeWoken' /\ OnlyWaitersRegistered'
  BY <1>1 DEF InputInv, InputTypeOK, WaitersHoldLock, WaitersWillBeWoken,
     OnlyWaitersRegistered,
     mustWait
<1>4. QED BY <1>2, <1>3 DEF InputInv

(* A thread gets the lock and waits, unless the assertion in wait() fails.  *)
LEMMA WaitKeeps ==
    ASSUME InputInv, NEW t \in IoThreads, wait(t)
    PROVE  InputInv'
<1>1. CASE ~mustWait(t)
  <2>1. halted' = "assert" /\ UNCHANGED <<queue, iopc, mode, ier, rbr, thre>>
    BY <1>1 DEF wait
  <2>2. InputTypeOK' /\ IerMatchesQueues' /\ OwnRegistered'
    BY <2>1 DEF InputInv, InputTypeOK, IerMatchesQueues, OwnRegistered
  <2>3. WaitersHoldLock' /\ WaitersWillBeWoken' /\ OnlyWaitersRegistered'
    BY <2>1 DEF InputInv, WaitersHoldLock, WaitersWillBeWoken, OnlyWaitersRegistered
  <2>4. QED BY <2>2, <2>3 DEF InputInv
<1>2. CASE mustWait(t)
  <2> DEFINE n == QueueOf(t)
  <2>1. /\ halted = "no" /\ iopc[t] \notin {"waiting", "woken"} /\ queue[n].lock = NoThread
        /\ queue' = [queue EXCEPT ![n] = registered(queue[n], t)]
        /\ iopc' = [iopc EXCEPT ![t] = "waiting"]
        /\ UNCHANGED <<mode, ier, rbr, thre, halted>>
    BY <1>2 DEF wait, Calls
  <2>2. /\ queue \in [Queues -> Intq]
        /\ iopc \in [IoThreads -> {"out", "locking", "waiting", "woken", "retry"}]
    BY DEF InputInv, InputTypeOK
  <2>3. n \in Queues /\ \A u \in IoThreads : QueueOf(u) \in Queues
    BY DEF QueueOf, Queues
  <2> HIDE DEF n
  <2>4. registered(queue[n], t) \in Intq
    BY <2>2, <2>3, UpdatedIsQueue
  <2>5. /\ queue' \in [Queues -> Intq] /\ queue'[n] = registered(queue[n], t)
        /\ \A m \in Queues : m # n => queue'[m] = queue[m]
    BY <2>1, <2>2, <2>3, <2>4
  <2>6. /\ queue'[n].lock = t /\ queue'[n].head = queue[n].head
        /\ queue'[n].tail = queue[n].tail
        /\ t \in {queue'[n].not_empty, queue'[n].not_full}
        /\ queue'[n].not_empty \in {queue[n].not_empty, t}
        /\ queue'[n].not_full \in {queue[n].not_full, t}
    <3>1. queue[n] \in Intq
      BY <2>2, <2>3
    <3>2. QED BY <2>5, <3>1 DEF registered, Intq
  <2>7. \A m \in Queues : queue'[m].head = queue[m].head /\ queue'[m].tail = queue[m].tail
    BY <2>5, <2>6
  <2>8. /\ iopc'[t] = "waiting" /\ \A u \in IoThreads : u # t => iopc'[u] = iopc[u]
        /\ iopc' \in [IoThreads -> {"out", "locking", "waiting", "woken", "retry"}]
    BY <2>1, <2>2
  <2>9. InputTypeOK'
    BY <2>1, <2>5, <2>8 DEF InputInv, InputTypeOK
  <2>10. IerMatchesQueues'
    BY <2>1, <2>7 DEF InputInv, IerMatchesQueues, intq_empty, intq_full, Queues
  <2>11. \A u \in IoThreads : iopc[u] \in {"waiting", "woken"} => QueueOf(u) # n
    BY <2>1, InputAssumption DEF InputInv, WaitersHoldLock, IoThreads
  <2>12. WaitersHoldLock'
    BY <2>3, <2>5, <2>6, <2>8, <2>11 DEF InputInv, WaitersHoldLock, n
  <2>13. OwnRegistered'
    BY <2>3, <2>5, <2>6 DEF InputInv, OwnRegistered, n
  <2>14. \A u \in IoThreads : mustWait(u)' <=> mustWait(u)
    BY <2>3, <2>7 DEF mustWait, intq_empty, intq_full
  <2>15. WaitersWillBeWoken'
    BY <1>2, <2>1, <2>3, <2>5, <2>6, <2>8, <2>11, <2>14 DEF InputInv, WaitersWillBeWoken, n
  <2>16. OnlyWaitersRegistered'
    <3> SUFFICES ASSUME NEW m \in Queues, NEW u \in IoThreads, u # t,
                        u = queue'[m].not_empty \/ u = queue'[m].not_full
                 PROVE  iopc'[u] = "waiting"
      BY <2>8 DEF OnlyWaitersRegistered
    <3>1. u = queue[m].not_empty \/ u = queue[m].not_full
      BY <2>5, <2>6
    <3>2. QED BY <2>8, <3>1 DEF InputInv, OnlyWaitersRegistered
  <2>17. QED BY <2>9, <2>10, <2>12, <2>13, <2>15, <2>16 DEF InputInv
<1>3. QED BY <1>1, <1>2

(* A woken thread releases the lock, which nobody else holds.               *)
LEMMA WaitReturnsKeeps ==
    ASSUME InputInv, NEW t \in IoThreads, wait_returns(t)
    PROVE  InputInv'
<1> DEFINE n == QueueOf(t)
<1>1. /\ halted = "no" /\ iopc[t] = "woken"
      /\ queue' = [queue EXCEPT ![n] = [queue[n] EXCEPT !.lock = NoThread]]
      /\ iopc' = [iopc EXCEPT ![t] = "retry"]
      /\ UNCHANGED <<mode, ier, rbr, thre, halted>>
  BY DEF wait_returns
<1>2. /\ queue \in [Queues -> Intq]
      /\ iopc \in [IoThreads -> {"out", "locking", "waiting", "woken", "retry"}]
  BY DEF InputInv, InputTypeOK
<1>3. n \in Queues /\ \A u \in IoThreads : QueueOf(u) \in Queues
  BY DEF QueueOf, Queues
<1>4. queue[n].lock = t
  BY <1>1 DEF InputInv, WaitersHoldLock
<1> HIDE DEF n
<1>5. queue[n] \in Intq /\ [queue[n] EXCEPT !.lock = NoThread] \in Intq
  BY <1>2, <1>3, UpdatedIsQueue
<1>6. /\ queue' \in [Queues -> Intq] /\ queue'[n] = [queue[n] EXCEPT !.lock = NoThread]
      /\ \A m \in Queues : m # n => queue'[m] = queue[m]
  BY <1>1, <1>2, <1>3, <1>5
<1>7. \A m \in Queues : /\ queue'[m].head = queue[m].head /\ queue'[m].tail = queue[m].tail
                        /\ queue'[m].not_empty = queue[m].not_empty
                        /\ queue'[m].not_full = queue[m].not_full
  BY <1>5, <1>6 DEF Intq
<1>8. /\ iopc'[t] = "retry" /\ \A u \in IoThreads : u # t => iopc'[u] = iopc[u]
      /\ iopc' \in [IoThreads -> {"out", "locking", "waiting", "woken", "retry"}]
  BY <1>1, <1>2
<1>9. InputTypeOK' /\ OwnRegistered'
  BY <1>1, <1>6, <1>7, <1>8 DEF InputInv, InputTypeOK, OwnRegistered
<1>10. IerMatchesQueues'
  BY <1>1, <1>7 DEF InputInv, IerMatchesQueues, intq_empty, intq_full, Queues
<1>11. \A u \in IoThreads : u # t /\ iopc[u] \in {"waiting", "woken"} => QueueOf(u) # n
  BY <1>4 DEF InputInv, WaitersHoldLock
<1>12. WaitersHoldLock'
  BY <1>3, <1>6, <1>8, <1>11 DEF InputInv, WaitersHoldLock
<1>13. \A u \in IoThreads : mustWait(u)' <=> mustWait(u)
  BY <1>3, <1>7 DEF mustWait, intq_empty, intq_full
<1>14. WaitersWillBeWoken'
  BY <1>1, <1>3, <1>6, <1>8, <1>11, <1>13 DEF InputInv, WaitersWillBeWoken
<1>15. OnlyWaitersRegistered'
  BY <1>1, <1>7, <1>8 DEF InputInv, OnlyWaitersRegistered
<1>16. QED BY <1>9, <1>10, <1>12, <1>14, <1>15 DEF InputInv

(* The machine goes off: nothing is promised to waiters any more.           *)
LEMMA FlushKeeps ==
    ASSUME InputInv, serial_flush
    PROVE  InputInv'
<1> DEFINE q == queue["txq"]
<1>1. /\ halted' = "shutdown" /\ UNCHANGED <<iopc, mode, ier, rbr, thre>>
      /\ queue' = [queue EXCEPT !["txq"] = [q EXCEPT !.tail = q.head]]
  BY DEF serial_flush
<1>2. queue \in [Queues -> Intq] /\ "txq" \in Queues /\ q \in Intq
  BY DEF InputInv, InputTypeOK, Queues
<1>3. [q EXCEPT !.tail = q.head] \in Intq
  BY <1>2 DEF Intq
<1>4. /\ queue' \in [Queues -> Intq]
      /\ \A m \in Queues : /\ queue'[m].lock = queue[m].lock
                           /\ queue'[m].not_empty = queue[m].not_empty
                           /\ queue'[m].not_full = queue[m].not_full
  BY <1>1, <1>2, <1>3 DEF Intq
<1>5. InputTypeOK' /\ IerMatchesQueues' /\ WaitersWillBeWoken'
  BY <1>1, <1>4 DEF InputInv, InputTypeOK, IerMatchesQueues, WaitersWillBeWoken
<1>6. \A u \in IoThreads : QueueOf(u) \in Queues
  BY DEF QueueOf, Queues
<1>7. WaitersHoldLock' /\ OwnRegistered' /\ OnlyWaitersRegistered'
  BY <1>1, <1>4, <1>6 DEF InputInv, WaitersHoldLock, OwnRegistered, OnlyWaitersRegistered
<1>8. QED BY <1>5, <1>7 DEF InputInv

(* Every step keeps the invariant.                                          *)
LEMMA NextInput == InputInv /\ [InputNext]_inputVars => InputInv'
<1> SUFFICES ASSUME InputInv, [InputNext]_inputVars PROVE InputInv'
  OBVIOUS
<1>1. ASSUME NEW t \in IoThreads, WaitStep(t) \/ input_getc(t) PROVE InputInv'
  BY <1>1, LockBlocksKeeps, WaitKeeps, WaitReturnsKeeps, GetcKeeps DEF WaitStep
<1>2. ASSUME NEW b \in Printed, serial_putc_impolite(b) PROVE InputInv'
  BY <1>2, ImpoliteKeeps
<1>3. ASSUME NEW b \in Printed, NEW t \in IoThreads, serial_putc(t, b) PROVE InputInv'
  BY <1>3, PutcKeeps
<1>4. ASSUME NEW b \in Byte, keyboard_interrupt(b) PROVE InputInv'
  BY <1>4, KeyboardKeeps
<1>5. CASE serial_flush \/ serial_interrupt
  BY <1>5, FlushKeeps, SerialKeeps
<1>6. CASE \/ \E t \in IoThreads : putc_poll(t)
           \/ \E b \in Byte : byte_arrives(b)
           \/ byte_sent \/ serial_init_queue \/ UNCHANGED inputVars
  BY <1>6, PortKeeps
<1>7. QED BY <1>1, <1>2, <1>3, <1>4, <1>5, <1>6 DEF InputNext

(* The queues and the serial port: whoever waits will be woken, only who    *)
(* waits is, and the port's interrupts are enabled as the queues need them. *)
THEOREM QueuesStaySafe == InputSpec => []InputSafe
<1>1. InputInv => InputSafe
  BY DEF InputInv, InputSafe
<1>2. QED BY <1>1, InitInput, NextInput, PTL DEF InputSpec

-----------------------------------------------------------------------------
(* The bytes in a queue: how many, and in which cells.                      *)
count(q) == (q.head - q.tail) % INTQ_BUFSIZE
cellOf(q, i) == (q.tail + i - 1) % INTQ_BUFSIZE
inside(q) == [i \in 1..count(q) |-> q.buf[cellOf(q, i)]]

(* Arithmetic around a ring.                                                *)
LEMMA Around ==
    ASSUME NEW a \in Cells
    PROVE  /\ a % INTQ_BUFSIZE = a
           /\ (a + INTQ_BUFSIZE) % INTQ_BUFSIZE = a
           /\ (a - INTQ_BUFSIZE) % INTQ_BUFSIZE = a
<1>1. INTQ_BUFSIZE \in Nat \ {0} /\ a \in 0..INTQ_BUFSIZE - 1
  BY InputAssumption DEF Cells
<1>2. a % INTQ_BUFSIZE = a
  BY <1>1
<1>3. (a + INTQ_BUFSIZE) % INTQ_BUFSIZE = a
  BY <1>1
<1>4. (a - INTQ_BUFSIZE) % INTQ_BUFSIZE = a
  BY <1>1
<1>5. QED BY <1>2, <1>3, <1>4

\* The place after the last is the first.
LEMMA NextIs ==
    ASSUME NEW p \in Cells
    PROVE  next(p) = IF p + 1 = INTQ_BUFSIZE THEN 0 ELSE p + 1
<1>1. CASE p + 1 = INTQ_BUFSIZE
  <2>1. 0 \in Cells
    BY InputAssumption DEF Cells
  <2>2. (0 + INTQ_BUFSIZE) % INTQ_BUFSIZE = 0 /\ 0 + INTQ_BUFSIZE = p + 1
    BY <1>1, <2>1, Around, InputAssumption
  <2>3. QED BY <1>1, <2>2 DEF next
<1>2. CASE p + 1 # INTQ_BUFSIZE
  <2>1. p + 1 \in Cells
    BY <1>2, InputAssumption DEF Cells
  <2>2. QED BY <1>2, <2>1, Around DEF next
<1>3. QED BY <1>1, <1>2

\* How many bytes are in a queue, whose tail may be past its head.
LEMMA CountIs ==
    ASSUME NEW q \in Intq
    PROVE  /\ count(q) = IF q.head >= q.tail THEN q.head - q.tail
                         ELSE q.head - q.tail + INTQ_BUFSIZE
           /\ count(q) \in 0..INTQ_BUFSIZE - 1
           /\ q.head \in Int /\ q.tail \in Int
<1>0. INTQ_BUFSIZE \in Nat /\ q.head \in 0..INTQ_BUFSIZE - 1 /\ q.tail \in 0..INTQ_BUFSIZE - 1
  BY InputAssumption DEF Intq, Cells
<1>1. CASE q.head >= q.tail
  <2>1. q.head - q.tail \in Cells
    BY <1>0, <1>1 DEF Cells
  <2>2. QED BY <1>0, <1>1, <2>1, Around DEF count, Cells
<1>2. CASE ~(q.head >= q.tail)
  <2> DEFINE a == q.head - q.tail + INTQ_BUFSIZE
  <2>1. a \in Cells /\ a - INTQ_BUFSIZE = q.head - q.tail
    BY <1>0, <1>2 DEF Cells
  <2> HIDE DEF a
  <2>2. count(q) = a
    BY <2>1, Around DEF count
  <2>3. QED BY <1>0, <1>2, <2>1, <2>2 DEF a, Cells
<1>3. QED BY <1>1, <1>2

\* The cell of the i-th byte, which may be past the end of the buffer.
LEMMA CellIs ==
    ASSUME NEW q \in Intq, NEW i \in 1..INTQ_BUFSIZE
    PROVE  /\ cellOf(q, i) = IF q.tail + i - 1 < INTQ_BUFSIZE THEN q.tail + i - 1
                             ELSE q.tail + i - 1 - INTQ_BUFSIZE
           /\ cellOf(q, i) \in Cells
<1>0. INTQ_BUFSIZE \in Nat /\ q.tail \in 0..INTQ_BUFSIZE - 1
  BY InputAssumption DEF Intq, Cells
<1>1. CASE q.tail + i - 1 < INTQ_BUFSIZE
  <2>1. q.tail + i - 1 \in Cells
    BY <1>0, <1>1 DEF Cells
  <2>2. QED BY <1>1, <2>1, Around DEF cellOf
<1>2. CASE ~(q.tail + i - 1 < INTQ_BUFSIZE)
  <2> DEFINE a == q.tail + i - 1 - INTQ_BUFSIZE
  <2>1. a \in Cells /\ a + INTQ_BUFSIZE = q.tail + i - 1
    BY <1>0, <1>2 DEF Cells
  <2> HIDE DEF a
  <2>2. cellOf(q, i) = a
    BY <2>1, Around DEF cellOf
  <2>3. QED BY <1>2, <2>1, <2>2 DEF a
<1>3. QED BY <1>1, <1>2

(* A queue is empty when it has no byte and full when one cell is left.     *)
LEMMA EmptyAndFull ==
    ASSUME NEW q \in Intq
    PROVE  (intq_empty(q) <=> count(q) = 0) /\ (intq_full(q) <=> count(q) = INTQ_BUFSIZE - 1)
<1>1. q.head \in Cells /\ q.tail \in Cells
  BY DEF Intq
<1>2. intq_empty(q) <=> count(q) = 0
  BY <1>1, CountIs, InputAssumption DEF intq_empty, Cells
<1>3. intq_full(q) <=> count(q) = INTQ_BUFSIZE - 1
  BY <1>1, CountIs, NextIs, InputAssumption DEF intq_full, Cells
<1>4. QED BY <1>2, <1>3

\* The bytes in a queue are a sequence.
LEMMA InsideIsSequence ==
    ASSUME NEW q \in Intq
    PROVE  inside(q) \in Seq(Byte \cup {NoByte}) /\ Len(inside(q)) = count(q)
<1>1. count(q) \in Nat /\ count(q) <= INTQ_BUFSIZE
  BY CountIs, InputAssumption
<1>2. \A i \in 1..count(q) : q.buf[cellOf(q, i)] \in Byte \cup {NoByte}
  <2> SUFFICES ASSUME NEW i \in 1..count(q) PROVE q.buf[cellOf(q, i)] \in Byte \cup {NoByte}
    OBVIOUS
  <2>1. cellOf(q, i) \in Cells
    BY <1>1, CellIs, InputAssumption
  <2>2. QED BY <2>1 DEF Intq
<1>3. QED BY <1>1, <1>2 DEF inside

(* intq_putc appends a byte to what is inside a queue that is not full.     *)
LEMMA PutAppends ==
    ASSUME NEW q \in Intq, NEW b \in Byte, ~intq_full(q)
    PROVE  inside(intq_putc(q, b)) = Append(inside(q), b)
<1> DEFINE p == intq_putc(q, b)
           k == count(q)
<1>1. /\ p \in Intq /\ p.head = next(q.head) /\ p.tail = q.tail
      /\ p.buf = [q.buf EXCEPT ![q.head] = b]
  BY PutFields, PutIsQueue
<1>2. q.head \in Cells /\ q.tail \in Cells /\ q.buf \in [Cells -> Byte \cup {NoByte}]
  BY DEF Intq
<1> HIDE DEF p, k
<1>3. k \in 0..INTQ_BUFSIZE - 2
  BY CountIs, EmptyAndFull, InputAssumption DEF k
<1>4. count(p) = k + 1
  <2> DEFINE h == q.head
             t == q.tail
             n == p.head
             c == count(p)
  <2>1. INTQ_BUFSIZE \in Nat /\ h \in 0..INTQ_BUFSIZE - 1 /\ t \in 0..INTQ_BUFSIZE - 1
    BY <1>2, InputAssumption DEF Cells
  <2>2. n = IF h + 1 = INTQ_BUFSIZE THEN 0 ELSE h + 1
    BY <1>1, <1>2, NextIs
  <2>3. k = IF h >= t THEN h - t ELSE h - t + INTQ_BUFSIZE
    BY CountIs DEF k
  <2>4. c = IF n >= t THEN n - t ELSE n - t + INTQ_BUFSIZE
    BY <1>1, CountIs
  <2> HIDE DEF h, t, n, c
  <2>5. c = k + 1
    BY <1>3, <2>1, <2>2, <2>3, <2>4
  <2>6. QED BY <2>5 DEF c
<1>5. \A i \in 1..INTQ_BUFSIZE : cellOf(p, i) = cellOf(q, i)
  BY <1>1 DEF cellOf
<1>6. cellOf(q, k + 1) = q.head
  <2> DEFINE h == q.head
             t == q.tail
             c == cellOf(q, k + 1)
  <2>1. INTQ_BUFSIZE \in Nat /\ h \in 0..INTQ_BUFSIZE - 1 /\ t \in 0..INTQ_BUFSIZE - 1
    BY <1>2, InputAssumption DEF Cells
  <2>2. k = IF h >= t THEN h - t ELSE h - t + INTQ_BUFSIZE
    BY CountIs DEF k
  <2>3. k + 1 \in 1..INTQ_BUFSIZE
    BY <1>3, <2>1
  <2>4. c = IF t + (k + 1) - 1 < INTQ_BUFSIZE THEN t + (k + 1) - 1
            ELSE t + (k + 1) - 1 - INTQ_BUFSIZE
    BY <2>3, CellIs
  <2> HIDE DEF h, t, c
  <2>5. c = h
    BY <1>3, <2>1, <2>2, <2>4
  <2>6. QED BY <2>5 DEF c, h
<1>7. \A i \in 1..k : cellOf(q, i) # q.head /\ cellOf(q, i) \in Cells
  <2> SUFFICES ASSUME NEW i \in 1..k PROVE cellOf(q, i) # q.head /\ cellOf(q, i) \in Cells
    OBVIOUS
  <2> DEFINE h == q.head
             t == q.tail
             c == cellOf(q, i)
  <2>1. INTQ_BUFSIZE \in Nat /\ h \in 0..INTQ_BUFSIZE - 1 /\ t \in 0..INTQ_BUFSIZE - 1
    BY <1>2, InputAssumption DEF Cells
  <2>2. k = IF h >= t THEN h - t ELSE h - t + INTQ_BUFSIZE
    BY CountIs DEF k
  <2>3. i \in 1..INTQ_BUFSIZE
    BY <1>3, <2>1
  <2>4. /\ c = IF t + i - 1 < INTQ_BUFSIZE THEN t + i - 1 ELSE t + i - 1 - INTQ_BUFSIZE
        /\ c \in Cells
    BY <2>3, CellIs
  <2> HIDE DEF h, t, c
  <2>5. c # h
    BY <1>3, <2>1, <2>2, <2>4
  <2>6. QED BY <2>4, <2>5 DEF c, h
<1>8. \A i \in 1..k : p.buf[cellOf(p, i)] = q.buf[cellOf(q, i)]
  BY <1>1, <1>2, <1>3, <1>5, <1>7, InputAssumption
<1>9. p.buf[cellOf(p, k + 1)] = b
  BY <1>1, <1>2, <1>3, <1>5, <1>6, InputAssumption
<1>10. inside(q) \in Seq(Byte \cup {NoByte}) /\ Len(inside(q)) = k
  BY InsideIsSequence DEF k
<1>11. inside(p) \in Seq(Byte \cup {NoByte}) /\ Len(inside(p)) = k + 1
  BY <1>1, <1>4, InsideIsSequence
<1>12. \A i \in 1..k : inside(p)[i] = inside(q)[i]
  BY <1>3, <1>4, <1>8 DEF inside, k
<1>13. inside(p)[k + 1] = b
  BY <1>3, <1>4, <1>9 DEF inside
<1>14. inside(p) = Append(inside(q), b)
  BY <1>3, <1>10, <1>11, <1>12, <1>13
<1>15. QED BY <1>14 DEF p

(* intq_getc takes the first byte of what is inside a queue.                *)
LEMMA GetDrops ==
    ASSUME NEW q \in Intq, ~intq_empty(q)
    PROVE  inside(q) # <<>> /\ inside(intq_getc(q)) = Tail(inside(q))
<1> DEFINE p == intq_getc(q)
           k == count(q)
<1>1. /\ p \in Intq /\ p.head = q.head /\ p.tail = next(q.tail)
      /\ p.buf = [q.buf EXCEPT ![q.tail] = NoByte]
  BY GetFields, GetIsQueue
<1>2. q.head \in Cells /\ q.tail \in Cells /\ q.buf \in [Cells -> Byte \cup {NoByte}]
  BY DEF Intq
<1> HIDE DEF p, k
<1>3. k \in 1..INTQ_BUFSIZE - 1
  BY CountIs, EmptyAndFull, InputAssumption DEF k
<1>4. count(p) = k - 1
  <2> DEFINE h == q.head
             t == q.tail
             n == p.tail
             c == count(p)
  <2>1. INTQ_BUFSIZE \in Nat /\ h \in 0..INTQ_BUFSIZE - 1 /\ t \in 0..INTQ_BUFSIZE - 1
    BY <1>2, InputAssumption DEF Cells
  <2>2. n = IF t + 1 = INTQ_BUFSIZE THEN 0 ELSE t + 1
    BY <1>1, <1>2, NextIs
  <2>3. k = IF h >= t THEN h - t ELSE h - t + INTQ_BUFSIZE
    BY CountIs DEF k
  <2>4. c = IF h >= n THEN h - n ELSE h - n + INTQ_BUFSIZE
    BY <1>1, CountIs
  <2> HIDE DEF h, t, n, c
  <2>5. c = k - 1
    BY <1>3, <2>1, <2>2, <2>3, <2>4
  <2>6. QED BY <2>5 DEF c
<1>5. \A i \in 1..k - 1 : cellOf(p, i) = cellOf(q, i + 1)
  <2> SUFFICES ASSUME NEW i \in 1..k - 1 PROVE cellOf(p, i) = cellOf(q, i + 1)
    OBVIOUS
  <2> DEFINE t == q.tail
             n == p.tail
             c == cellOf(p, i)
             d == cellOf(q, i + 1)
  <2>1. INTQ_BUFSIZE \in Nat /\ t \in 0..INTQ_BUFSIZE - 1
    BY <1>2, InputAssumption DEF Cells
  <2>2. n = IF t + 1 = INTQ_BUFSIZE THEN 0 ELSE t + 1
    BY <1>1, <1>2, NextIs
  <2>3. i \in 1..INTQ_BUFSIZE /\ i + 1 \in 1..INTQ_BUFSIZE
    BY <1>3, <2>1
  <2>4. c = IF n + i - 1 < INTQ_BUFSIZE THEN n + i - 1 ELSE n + i - 1 - INTQ_BUFSIZE
    BY <1>1, <2>3, CellIs
  <2>5. d = IF t + (i + 1) - 1 < INTQ_BUFSIZE THEN t + (i + 1) - 1
            ELSE t + (i + 1) - 1 - INTQ_BUFSIZE
    BY <2>3, CellIs
  <2> HIDE DEF t, n, c, d
  <2>6. c = d
    BY <1>3, <2>1, <2>2, <2>3, <2>4, <2>5
  <2>7. QED BY <2>6 DEF c, d
<1>6. \A i \in 1..k - 1 : cellOf(q, i + 1) # q.tail /\ cellOf(q, i + 1) \in Cells
  <2> SUFFICES ASSUME NEW i \in 1..k - 1
               PROVE  cellOf(q, i + 1) # q.tail /\ cellOf(q, i + 1) \in Cells
    OBVIOUS
  <2> DEFINE t == q.tail
             d == cellOf(q, i + 1)
  <2>1. INTQ_BUFSIZE \in Nat /\ t \in 0..INTQ_BUFSIZE - 1
    BY <1>2, InputAssumption DEF Cells
  <2>2. i + 1 \in 1..INTQ_BUFSIZE
    BY <1>3, <2>1
  <2>3. /\ d \in Cells
        /\ d = IF t + (i + 1) - 1 < INTQ_BUFSIZE THEN t + (i + 1) - 1
               ELSE t + (i + 1) - 1 - INTQ_BUFSIZE
    BY <2>2, CellIs
  <2> HIDE DEF t, d
  <2>4. d # t
    BY <1>3, <2>1, <2>3
  <2>5. QED BY <2>3, <2>4 DEF t, d
<1>7. \A i \in 1..k - 1 : p.buf[cellOf(p, i)] = q.buf[cellOf(q, i + 1)]
  BY <1>1, <1>2, <1>5, <1>6
<1>8. inside(q) \in Seq(Byte \cup {NoByte}) /\ Len(inside(q)) = k
  BY InsideIsSequence DEF k
<1>9. inside(p) \in Seq(Byte \cup {NoByte}) /\ Len(inside(p)) = k - 1
  BY <1>1, <1>4, InsideIsSequence
<1>10. \A i \in 1..k - 1 : inside(p)[i] = inside(q)[i + 1]
  BY <1>3, <1>4, <1>7 DEF inside, k
<1>11. inside(p) = Tail(inside(q))
  <2> DEFINE u == inside(q)
             v == inside(p)
  <2> HIDE DEF u, v
  <2>1. /\ u \in Seq(Byte \cup {NoByte}) /\ Len(u) = k
        /\ v \in Seq(Byte \cup {NoByte}) /\ Len(v) = k - 1
        /\ \A i \in 1..k - 1 : v[i] = u[i + 1]
    BY <1>8, <1>9, <1>10 DEF u, v
  <2>2. /\ Tail(u) \in Seq(Byte \cup {NoByte}) /\ Len(Tail(u)) = k - 1
        /\ \A i \in 1..k - 1 : Tail(u)[i] = u[i + 1]
    BY <1>3, <2>1
  <2>3. v = Tail(u)
    BY <1>3, <2>1, <2>2
  <2>4. QED BY <2>3 DEF u, v
<1>12. inside(q) # <<>>
  BY <1>3, <1>8
<1>13. QED BY <1>11, <1>12 DEF p

-----------------------------------------------------------------------------
(* Refinement: each queue is a bounded first-in first-out queue.            *)

(* What a step does to a queue, as far as its bytes go: nothing, a byte is  *)
(* put, a byte is taken, or one is taken from a full queue to put another.  *)
Served(q, p) ==
    \/ inside(p) = inside(q)
    \/ ~intq_full(q) /\ \E b \in Byte : p = intq_putc(q, b)
    \/ ~intq_empty(q) /\ p = intq_getc(q)
    \/ intq_full(q) /\ \E b \in Byte : p = intq_putc(intq_getc(q), b)

\* The bytes of a queue are in its cells between tail and head: what else a
\* queue holds, its lock and its waiters, is not in the abstract queue.
LEMMA SameInside ==
    ASSUME NEW q, NEW p, p.head = q.head, p.tail = q.tail, p.buf = q.buf
    PROVE  inside(p) = inside(q)
BY DEF inside, count, cellOf

\* The refinement mapping gives each queue the bytes inside it.
LEMMA ContentsInside == \A n : Contents(n) = inside(queue[n])
BY DEF Contents, inside, count, cellOf

(* A byte taken from a full queue makes room for another.                   *)
LEMMA FullThenPut ==
    ASSUME NEW q \in Intq, NEW b \in Byte, intq_full(q)
    PROVE  /\ inside(q) # <<>>
           /\ inside(intq_putc(intq_getc(q), b)) = Append(Tail(inside(q)), b)
<1> DEFINE p == intq_getc(q)
           k == count(q)
<1>1. p \in Intq
  BY GetIsQueue
<1>2. INTQ_BUFSIZE \in Nat /\ INTQ_BUFSIZE > 1 /\ k = INTQ_BUFSIZE - 1
  BY EmptyAndFull, InputAssumption
<1>3. ~intq_empty(q)
  BY <1>2, EmptyAndFull
<1>4. inside(q) # <<>> /\ inside(p) = Tail(inside(q))
  BY <1>3, GetDrops
<1>5. inside(q) \in Seq(Byte \cup {NoByte}) /\ Len(inside(q)) = k
  BY InsideIsSequence
<1> HIDE DEF p, k
<1>6. Len(inside(p)) = k - 1
  BY <1>4, <1>5
<1>7. Len(inside(p)) = count(p)
  BY <1>1, InsideIsSequence
<1>8. ~intq_full(p)
  BY <1>1, <1>2, <1>6, <1>7, EmptyAndFull
<1>9. inside(intq_putc(p, b)) = Append(inside(p), b)
  BY <1>1, <1>8, PutAppends
<1>10. QED BY <1>4, <1>9 DEF p

\* A queue served in one of these ways takes a step of the abstract queue.
LEMMA ServedIsStep ==
    ASSUME InputTypeOK, InputTypeOK', NEW n \in Queues, Served(queue[n], queue'[n])
    PROVE  Fifo!FifoStep(n)
<1> DEFINE q == queue[n]
           p == queue'[n]
           f == inside(q)
           g == inside(p)
<1>1. q \in Intq /\ p \in Intq
  BY DEF InputTypeOK
<1>2. Served(q, p)
  OBVIOUS
<1>3. Contents(n) = f /\ Contents(n)' = g
  BY DEF Contents, inside, count, cellOf
<1>4. [m \in Queues |-> Contents(m)][n] = f /\ [m \in Queues |-> Contents(m)]'[n] = g
  BY <1>3
<1> HIDE DEF q, p
<1>5. Len(g) <= INTQ_BUFSIZE - 1 /\ Len(f) <= INTQ_BUFSIZE - 1
  BY <1>1, InsideIsSequence, CountIs, InputAssumption
<1>6. \/ g \in Fifo!Adding(f) /\ Len(g) <= INTQ_BUFSIZE - 1
      \/ f # <<>> /\ g \in Fifo!Adding(Tail(f))
  <2>1. CASE g = f
    BY <1>5, <2>1 DEF Fifo!Adding
  <2>2. ASSUME ~intq_full(q), NEW b \in Byte, p = intq_putc(q, b)
        PROVE  g \in Fifo!Adding(f)
    <3>1. g = Append(f, b)
      BY <1>1, <2>2, PutAppends
    <3>2. QED BY <3>1 DEF Fifo!Adding
  <2>3. ASSUME ~intq_empty(q), p = intq_getc(q)
        PROVE  f # <<>> /\ g \in Fifo!Adding(Tail(f))
    <3>1. f # <<>> /\ g = Tail(f)
      BY <1>1, <2>3, GetDrops
    <3>2. QED BY <3>1 DEF Fifo!Adding
  <2>4. ASSUME intq_full(q), NEW b \in Byte, p = intq_putc(intq_getc(q), b)
        PROVE  f # <<>> /\ g \in Fifo!Adding(Tail(f))
    <3>1. f # <<>> /\ g = Append(Tail(f), b)
      BY <1>1, <2>4, FullThenPut
    <3>2. QED BY <3>1 DEF Fifo!Adding
  <2>5. QED BY <1>2, <1>5, <2>1, <2>2, <2>3, <2>4 DEF Served
<1> HIDE DEF f, g
<1>7. QED BY <1>4, <1>6 DEF Fifo!FifoStep

(* A queue that a step leaves alone is served.                              *)
LEMMA UntouchedIsServed == \A q : Served(q, q)
BY DEF Served

\* A step that serves each queue, with the machine on or off as it was, is a
\* step of the abstract queues.
LEMMA ServingIsStep ==
    ASSUME InputTypeOK, InputTypeOK', (halted' = "shutdown") = (halted = "shutdown"),
           \A n \in Queues : Served(queue[n], queue'[n])
    PROVE  Fifo!FifoNext
<1>1. \A n \in Queues : Fifo!FifoStep(n)
  BY ServedIsStep
<1>2. QED BY <1>1 DEF Fifo!FifoNext

\* Initially both queues are empty and the machine is on.
LEMMA InitFifo == InputInit => Fifo!FifoInit
<1> SUFFICES ASSUME InputInit PROVE Fifo!FifoInit
  OBVIOUS
<1>1. intq_init \in Intq /\ intq_init.head = 0 /\ intq_init.tail = 0
  BY InitInput DEF InputInit, InputInv, InputTypeOK, Queues, intq_init
<1>2. count(intq_init) = 0
  <2>1. 0 \in Cells
    BY InputAssumption DEF Cells
  <2>2. 0 % INTQ_BUFSIZE = 0
    BY <2>1, Around
  <2>3. QED BY <1>1, <2>2 DEF count
<1>3. Len(inside(intq_init)) = 0 /\ inside(intq_init) \in Seq(Byte \cup {NoByte})
  BY <1>1, <1>2, InsideIsSequence
<1>4. inside(intq_init) = <<>>
  BY <1>3
<1>5. \A n \in Queues : Contents(n) = <<>>
  BY <1>4, ContentsInside DEF InputInit
<1>6. halted # "shutdown"
  BY DEF InputInit
<1>7. QED BY <1>5, <1>6 DEF Fifo!FifoInit

(* Waiting for a queue changes its lock and its waiters, no byte of it.     *)
LEMMA RegisteringIsServed ==
    ASSUME InputTypeOK, NEW t \in IoThreads
    PROVE  /\ Served(queue[QueueOf(t)], registered(queue[QueueOf(t)], t))
           /\ Served(queue[QueueOf(t)], [queue[QueueOf(t)] EXCEPT !.lock = NoThread])
<1> DEFINE q == queue[QueueOf(t)]
           r == registered(q, t)
           u == [q EXCEPT !.lock = NoThread]
<1>1. q \in Intq
  BY DEF InputTypeOK, QueueOf, Queues
<1>2. r.head = q.head /\ r.tail = q.tail /\ r.buf = q.buf
  BY <1>1 DEF Intq, registered
<1>3. u.head = q.head /\ u.tail = q.tail /\ u.buf = q.buf
  BY <1>1 DEF Intq
<1> HIDE DEF q, r, u
<1>4. Served(q, r) /\ Served(q, u)
  BY <1>2, <1>3, SameInside DEF Served
<1>5. QED BY <1>4 DEF q, r, u

\* A step of a thread that waits is no step of the abstract queues.
LEMMA WaitStepServes ==
    ASSUME InputTypeOK, NEW t \in IoThreads, WaitStep(t)
    PROVE  /\ (halted' = "shutdown") = (halted = "shutdown")
           /\ \A n \in Queues : Served(queue[n], queue'[n])
<1>1. QueueOf(t) \in Queues /\ queue \in [Queues -> Intq]
  BY DEF InputTypeOK, QueueOf, Queues
<1>2. CASE lock_acquire_blocks(t)
  <2>1. queue' = queue /\ halted' = halted
    BY <1>2 DEF lock_acquire_blocks
  <2>2. QED BY <2>1, UntouchedIsServed
<1>3. CASE wait(t)
  <2>1. halted = "no"
    BY <1>3 DEF wait, Calls
  <2>2. CASE mustWait(t)
    <3>1. /\ queue' = [queue EXCEPT ![QueueOf(t)] = registered(@, t)]
          /\ halted' = halted
      BY <1>3, <2>2 DEF wait
    <3>2. queue'[QueueOf(t)] = registered(queue[QueueOf(t)], t)
      BY <1>1, <3>1
    <3>3. \A n \in Queues \ {QueueOf(t)} : queue'[n] = queue[n]
      BY <1>1, <3>1
    <3>4. QED BY <1>1, <3>1, <3>2, <3>3, RegisteringIsServed, UntouchedIsServed
  <2>3. CASE ~mustWait(t)
    <3>1. queue' = queue /\ halted' = "assert"
      BY <1>3, <2>3 DEF wait
    <3>2. QED BY <2>1, <3>1, UntouchedIsServed
  <2>4. QED BY <2>2, <2>3
<1>4. CASE wait_returns(t)
  <2>1. queue' = [queue EXCEPT ![QueueOf(t)].lock = NoThread] /\ halted' = halted
    BY <1>4 DEF wait_returns
  <2>2. queue'[QueueOf(t)] = [queue[QueueOf(t)] EXCEPT !.lock = NoThread]
    BY <1>1, <2>1
  <2>3. \A n \in Queues \ {QueueOf(t)} : queue'[n] = queue[n]
    BY <1>1, <2>1
  <2>4. QED BY <1>1, <2>1, <2>2, <2>3, RegisteringIsServed, UntouchedIsServed
<1>5. QED BY <1>2, <1>3, <1>4 DEF WaitStep

\* The calls of threads that do not wait, and the keyboard's handler, each put
\* or take one byte, of a queue that has room for it or that has it.
LEMMA CallServes ==
    ASSUME InputTypeOK,
           \/ \E t \in IoThreads : input_getc(t)
           \/ \E t \in IoThreads, b \in Printed : serial_putc(t, b)
           \/ \E b \in Printed : serial_putc_impolite(b)
           \/ \E b \in Byte : keyboard_interrupt(b)
    PROVE  /\ (halted' = "shutdown") = (halted = "shutdown")
           /\ \A n \in Queues : Served(queue[n], queue'[n])
<1>1. queue \in [Queues -> Intq] /\ Printed \subseteq Byte
  BY InputAssumption DEF InputTypeOK
<1>2. Queues = {"buffer", "txq"}
  BY DEF Queues
<1>3. ASSUME NEW t \in IoThreads, input_getc(t)
      PROVE  /\ halted' = halted
             /\ \A n \in Queues : Served(queue[n], queue'[n])
  <2>1. /\ queue' = [queue EXCEPT !["buffer"] = intq_getc(@)]
        /\ halted' = halted /\ ~intq_empty(queue["buffer"])
    BY <1>3 DEF input_getc, mustWait, QueueOf
  <2>2. queue'["buffer"] = intq_getc(queue["buffer"]) /\ queue'["txq"] = queue["txq"]
    BY <1>1, <1>2, <2>1
  <2>3. Served(queue["buffer"], queue'["buffer"])
    BY <2>1, <2>2 DEF Served
  <2>4. QED BY <1>2, <2>1, <2>2, <2>3, UntouchedIsServed
<1>4. ASSUME NEW t \in IoThreads, NEW b \in Printed, serial_putc(t, b)
      PROVE  /\ halted' = halted
             /\ \A n \in Queues : Served(queue[n], queue'[n])
  <2>1. /\ queue' = [queue EXCEPT !["txq"] = intq_putc(@, b)]
        /\ halted' = halted /\ ~intq_full(queue["txq"])
    BY <1>4, InputAssumption DEF serial_putc, mustWait, QueueOf
  <2>2. queue'["txq"] = intq_putc(queue["txq"], b) /\ queue'["buffer"] = queue["buffer"]
    BY <1>1, <1>2, <2>1
  <2>3. Served(queue["txq"], queue'["txq"])
    BY <1>1, <2>1, <2>2 DEF Served
  <2>4. QED BY <1>2, <2>1, <2>2, <2>3, UntouchedIsServed
<1>5. ASSUME NEW b \in Printed, serial_putc_impolite(b)
      PROVE  /\ halted' = halted
             /\ \A n \in Queues : Served(queue[n], queue'[n])
  <2> DEFINE q == queue["txq"]
  <2>1. /\ queue' = [queue EXCEPT !["txq"] =
                       intq_putc(IF intq_full(q) THEN intq_getc(q) ELSE q, b)]
        /\ halted' = halted
    BY <1>5 DEF serial_putc_impolite
  <2>2. /\ queue'["txq"] = intq_putc(IF intq_full(q) THEN intq_getc(q) ELSE q, b)
        /\ queue'["buffer"] = queue["buffer"]
    BY <1>1, <1>2, <2>1
  <2> HIDE DEF q
  <2>3. Served(q, intq_putc(IF intq_full(q) THEN intq_getc(q) ELSE q, b))
    BY <1>1 DEF Served
  <2>4. Served(queue["txq"], queue'["txq"])
    BY <2>2, <2>3 DEF q
  <2>5. QED BY <1>2, <2>1, <2>2, <2>4, UntouchedIsServed
<1>6. ASSUME NEW b \in Byte, keyboard_interrupt(b)
      PROVE  /\ halted' = halted
             /\ \A n \in Queues : Served(queue[n], queue'[n])
  <2>1. /\ queue' = [queue EXCEPT !["buffer"] = intq_putc(queue["buffer"], b)]
        /\ halted' = halted /\ ~intq_full(queue["buffer"])
    BY <1>6 DEF keyboard_interrupt
  <2>2. queue'["buffer"] = intq_putc(queue["buffer"], b) /\ queue'["txq"] = queue["txq"]
    BY <1>1, <1>2, <2>1
  <2>3. Served(queue["buffer"], queue'["buffer"])
    BY <2>1, <2>2 DEF Served
  <2>4. QED BY <1>2, <2>1, <2>2, <2>3, UntouchedIsServed
<1>7. QED BY <1>3, <1>4, <1>5, <1>6

\* The serial handler may put a byte into the input buffer and take one out of
\* the transmit queue in the same step: each queue takes a step of its own.
LEMMA SerialServes ==
    ASSUME InputTypeOK, serial_interrupt
    PROVE  /\ halted' = halted
           /\ \A n \in Queues : Served(queue[n], queue'[n])
<1> DEFINE b == queue["buffer"]
           x == queue["txq"]
           receives == ~intq_full(b) /\ rbr # NoByte
           sends == ~intq_empty(x) /\ thre
<1>1. queue \in [Queues -> Intq] /\ Queues = {"buffer", "txq"}
  BY DEF InputTypeOK, Queues
<1>2. /\ queue' = [queue EXCEPT
                     !["buffer"] = IF receives THEN intq_putc(b, rbr) ELSE b,
                     !["txq"] = IF sends THEN intq_getc(x) ELSE x]
      /\ halted' = halted
  BY DEF serial_interrupt
<1>3. /\ queue'["buffer"] = IF receives THEN intq_putc(b, rbr) ELSE b
      /\ queue'["txq"] = IF sends THEN intq_getc(x) ELSE x
  BY <1>1, <1>2
<1>4. rbr # NoByte => rbr \in Byte
  BY DEF InputTypeOK
<1> HIDE DEF b, x
<1>5. Served(b, IF receives THEN intq_putc(b, rbr) ELSE b)
  BY <1>4, UntouchedIsServed DEF Served
<1>6. Served(x, IF sends THEN intq_getc(x) ELSE x)
  BY UntouchedIsServed DEF Served
<1>7. Served(queue["buffer"], queue'["buffer"]) /\ Served(queue["txq"], queue'["txq"])
  BY <1>3, <1>5, <1>6 DEF b, x
<1>8. QED BY <1>1, <1>2, <1>7

\* serial_flush sends what is left in the transmit queue and the machine goes
\* off: the one step that empties a queue.
LEMMA FlushIsOff ==
    ASSUME InputTypeOK, InputTypeOK', serial_flush
    PROVE  Fifo!FifoOff
<1> DEFINE p == queue'["txq"]
           f == [n \in Queues |-> Contents(n)]
<1>1. /\ queue \in [Queues -> Intq] /\ "txq" \in Queues /\ "buffer" \in Queues
      /\ queue' \in [Queues -> Intq]
  BY DEF InputTypeOK, Queues
<1>2. /\ queue' = [queue EXCEPT !["txq"].tail = queue["txq"].head]
      /\ halted' = "shutdown"
  BY DEF serial_flush
<1>3. p = [queue["txq"] EXCEPT !.tail = queue["txq"].head]
  BY <1>1, <1>2
<1>4. p \in Intq /\ queue["txq"] \in Intq
  BY <1>1
<1>5. p.head = p.tail
  BY <1>3, <1>4 DEF Intq
<1>6. \A n \in Queues \ {"txq"} : queue'[n] = queue[n]
  BY <1>1, <1>2
<1> HIDE DEF p
<1>7. inside(p) = <<>>
  <2>1. count(p) = 0
    BY <1>4, <1>5, CountIs
  <2>2. inside(p) \in Seq(Byte \cup {NoByte}) /\ Len(inside(p)) = 0
    BY <1>4, <2>1, InsideIsSequence
  <2>3. QED BY <2>2
<1>8. \A n \in Queues : Contents(n)' = IF n = "txq" THEN <<>> ELSE Contents(n)
  <2> SUFFICES ASSUME NEW n \in Queues
               PROVE  Contents(n)' = IF n = "txq" THEN <<>> ELSE Contents(n)
    OBVIOUS
  <2>1. Contents(n)' = inside(queue'[n]) /\ Contents(n) = inside(queue[n])
    BY DEF Contents, inside, count, cellOf
  <2>2. CASE n = "txq"
    BY <1>7, <2>1, <2>2 DEF p
  <2>3. CASE n # "txq"
    BY <1>6, <2>1, <2>3
  <2>4. QED BY <2>2, <2>3
<1>9. f' = [n \in Queues |-> IF n = "txq" THEN <<>> ELSE Contents(n)]
  BY <1>8
<1>10. f' = [f EXCEPT !["txq"] = <<>>]
  BY <1>9
<1>11. QED BY <1>1, <1>2, <1>10 DEF Fifo!FifoOff

\* A step that leaves the queues alone.
LEMMA OthersServe ==
    ASSUME UNCHANGED inputVars \/ serial_init_queue \/ byte_sent
           \/ (\E b \in Byte : byte_arrives(b)) \/ (\E t \in IoThreads : putc_poll(t))
    PROVE  /\ halted' = halted
           /\ \A n \in Queues : Served(queue[n], queue'[n])
<1>1. queue' = queue /\ halted' = halted
  BY DEF inputVars, serial_init_queue, byte_sent, byte_arrives, putc_poll
<1>2. QED BY <1>1, UntouchedIsServed

\* Every step of the drivers is a step of the abstract queues.
LEMMA NextFifo == InputTypeOK /\ InputTypeOK' /\ [InputNext]_inputVars => Fifo!FifoNext
<1> SUFFICES ASSUME InputTypeOK, InputTypeOK', [InputNext]_inputVars PROVE Fifo!FifoNext
  OBVIOUS
<1>1. ASSUME NEW t \in IoThreads, WaitStep(t) PROVE Fifo!FifoNext
  BY <1>1, WaitStepServes, ServingIsStep
<1>2. CASE \/ \E t \in IoThreads : input_getc(t)
           \/ \E t \in IoThreads, b \in Printed : serial_putc(t, b)
           \/ \E b \in Printed : serial_putc_impolite(b)
           \/ \E b \in Byte : keyboard_interrupt(b)
  BY <1>2, CallServes, ServingIsStep
<1>3. CASE serial_interrupt
  BY <1>3, SerialServes, ServingIsStep
<1>4. CASE serial_flush
  BY <1>4, FlushIsOff DEF Fifo!FifoNext
<1>5. CASE UNCHANGED inputVars \/ serial_init_queue \/ byte_sent
           \/ (\E b \in Byte : byte_arrives(b)) \/ (\E t \in IoThreads : putc_poll(t))
  BY <1>5, OthersServe, ServingIsStep
<1>6. QED BY <1>1, <1>2, <1>3, <1>4, <1>5 DEF InputNext

(* The drivers' queues are bounded first-in first-out queues: the bytes that *)
(* input_getc returns and that serial.c transmits are the ones that were put, *)
(* in that order, none lost and none twice, whatever the interrupt handlers  *)
(* and the threads interleave (intq.c:36-92).                               *)
THEOREM QueuesImplementFifos == InputSpec => QueuesAreFifos
<1>1. InputInit => InputInv
  BY InitInput
<1>2. InputInv /\ [InputNext]_inputVars => InputInv'
  BY NextInput
<1>3. InputInit => Fifo!FifoInit
  BY InitFifo
<1>4. InputInv /\ InputInv' /\ [InputNext]_inputVars => Fifo!FifoNext
  BY NextFifo DEF InputInv
<1>5. QED
  BY <1>1, <1>2, <1>3, <1>4, PTL DEF InputSpec, QueuesAreFifos, Fifo!FifoSpec

-----------------------------------------------------------------------------
(* The keyboard.                                                             *)

(* A shift state is that of its key, whatever was pressed in between.        *)
StatesFollowKeys ==
    /\ state_var \in [shift_keys -> BOOLEAN] /\ caps_lock \in BOOLEAN
    /\ \A k \in shift_keys : state_var[k] <=> k \in down

KbdInv == StatesFollowKeys /\ TypedRight

\* The three modifiers are what the driver reads them from: a key of the kind
\* is held down.
LEMMA ModifiersAre ==
    ASSUME StatesFollowKeys
    PROVE  /\ shift \in BOOLEAN /\ ctrl \in BOOLEAN /\ alt \in BOOLEAN
           /\ shift <=> (down \cap shift_keys) \cap {"left_shift", "right_shift"} # {}
           /\ ctrl <=> (down \cap shift_keys) \cap {"left_ctrl", "right_ctrl"} # {}
           /\ alt <=> (down \cap shift_keys) \cap {"left_alt", "right_alt"} # {}
BY DEF StatesFollowKeys, shift_keys, shift, ctrl, alt

\* What a character key types, from the modifiers.
plainOf(k, shifted, controlled, caps) ==
    CASE k = "A" -> IF controlled THEN 1 ELSE IF shifted # caps THEN 65 ELSE 97
      [] k = "1" -> IF shifted THEN 33 ELSE 49
      [] k = "2" -> IF ~shifted THEN 50 ELSE IF controlled THEN 0 ELSE 64
      [] OTHER -> 127

\* Mapping a key, then Ctrl or the case of letters, then Alt, gives the
\* character that the modifiers call for.
LEMMA CharacterIs ==
    ASSUME StatesFollowKeys, NEW k \in CharKeys
    PROVE  character(map_key(k)) =
             plainOf(k, shift, ctrl, caps_lock) + (IF alt THEN 128 ELSE 0)
<1>1. shift \in BOOLEAN /\ ctrl \in BOOLEAN /\ alt \in BOOLEAN /\ caps_lock \in BOOLEAN
  BY ModifiersAre DEF StatesFollowKeys
<1>2. CASE k = "A"
  <2>1. map_key(k) = 65
    BY <1>2 DEF map_key
  <2>2. plainOf(k, shift, ctrl, caps_lock) =
           IF ctrl THEN 1 ELSE IF shift # caps_lock THEN 65 ELSE 97
    BY <1>2 DEF plainOf
  <2>3. QED BY <1>1, <2>1, <2>2 DEF character, tolower
<1>3. CASE k = "1"
  <2>1. map_key(k) = IF shift THEN 33 ELSE 49
    BY <1>3 DEF map_key
  <2>2. plainOf(k, shift, ctrl, caps_lock) = IF shift THEN 33 ELSE 49
    BY <1>3 DEF plainOf
  <2>3. QED BY <1>1, <2>1, <2>2 DEF character, tolower
<1>4. CASE k = "2"
  <2>1. map_key(k) = IF shift THEN 64 ELSE 50
    BY <1>4 DEF map_key
  <2>2. plainOf(k, shift, ctrl, caps_lock) = IF ~shift THEN 50 ELSE IF ctrl THEN 0 ELSE 64
    BY <1>4 DEF plainOf
  <2>3. QED BY <1>1, <2>1, <2>2 DEF character, tolower
<1>5. CASE k = "delete"
  <2>1. map_key(k) = 127
    BY <1>5 DEF map_key
  <2>2. plainOf(k, shift, ctrl, caps_lock) = 127
    BY <1>5 DEF plainOf
  <2>3. QED BY <1>1, <2>1, <2>2 DEF character, tolower
<1>6. QED BY <1>2, <1>3, <1>4, <1>5 DEF CharKeys

\* A make code or a break code changes the state of its own key only.
LEMMA StatesStep ==
    ASSUME StatesFollowKeys, NEW k \in KbdKeys, press(k) \/ release(k)
    PROVE  StatesFollowKeys'
<1>1. CASE press(k)
  <2>1. caps_lock' \in BOOLEAN
    BY <1>1 DEF press, StatesFollowKeys
  <2>2. CASE k \in shift_keys
    BY <1>1, <2>1, <2>2 DEF press, state_after, StatesFollowKeys
  <2>3. CASE k \notin shift_keys
    BY <1>1, <2>1, <2>3 DEF press, StatesFollowKeys
  <2>4. QED BY <2>2, <2>3
<1>2. CASE release(k)
  <2>1. CASE k \in shift_keys
    BY <1>2, <2>1 DEF release, state_after, StatesFollowKeys
  <2>2. CASE k \notin shift_keys
    BY <1>2, <2>2 DEF release, StatesFollowKeys
  <2>3. QED BY <2>1, <2>2
<1>3. QED BY <1>1, <1>2

\* Every code from the keyboard keeps the invariant.
LEMMA NextKbd == KbdInv /\ [KbdNext]_kbdVars => KbdInv'
<1> SUFFICES ASSUME KbdInv, [KbdNext]_kbdVars PROVE KbdInv'
  OBVIOUS
<1>1. ASSUME NEW k \in KbdKeys, press(k) \/ release(k) PROVE KbdInv'
  <2>1. StatesFollowKeys'
    BY <1>1, StatesStep DEF KbdInv
  <2>2. CASE typed' = typed
    BY <2>1, <2>2 DEF KbdInv, TypedRight
  <2>3. CASE /\ k \in CharKeys
             /\ typed' = [key |-> k, char |-> character(map_key(k)),
                          held |-> down \cap shift_keys, caps |-> caps_lock]
    <3> DEFINE c == character(map_key(k))
               h == down \cap shift_keys
    <3>1. c = plainOf(k, shift, ctrl, caps_lock) + (IF alt THEN 128 ELSE 0)
      BY <2>3, CharacterIs DEF KbdInv
    <3>2. /\ shift = (h \cap {"left_shift", "right_shift"} # {})
          /\ ctrl = (h \cap {"left_ctrl", "right_ctrl"} # {})
          /\ alt = (h \cap {"left_alt", "right_alt"} # {})
      BY ModifiersAre DEF KbdInv
    <3> HIDE DEF c, h
    <3>3. /\ typed'.key = k /\ typed'.char = c /\ typed'.held = h /\ typed'.caps = caps_lock
      BY <2>3 DEF c, h
    <3>4. TypedRight'
      BY <3>1, <3>2, <3>3, ZenonT(30) DEF TypedRight, plainOf
    <3>5. QED BY <2>1, <3>4 DEF KbdInv
  <2>4. QED BY <1>1, <2>2, <2>3 DEF press, release
<1>2. CASE UNCHANGED kbdVars
  BY <1>2 DEF kbdVars, KbdInv, StatesFollowKeys, TypedRight
<1>3. QED BY <1>1, <1>2 DEF KbdNext

\* What the keyboard driver types is what the keys that are held down make of
\* a key, for any number of keys held down and any sequence of make and break
\* codes (kbd.c:112-150, 171-192).
THEOREM KeysTypeRight == KbdSpec => []TypedRight
<1>1. KbdInit => KbdInv
  <2> SUFFICES ASSUME KbdInit PROVE KbdInv
    OBVIOUS
  <2>1. StatesFollowKeys
    BY DEF KbdInit, StatesFollowKeys
  <2>2. TypedRight
    BY DEF KbdInit, TypedRight
  <2>3. QED BY <2>1, <2>2 DEF KbdInv
<1>2. KbdInv => TypedRight
  BY DEF KbdInv
<1>3. QED BY <1>1, <1>2, NextKbd, PTL DEF KbdSpec

-----------------------------------------------------------------------------
(* The partition tables.                                                     *)

PartTypeOK ==
    /\ pt \in Tables /\ part_nr \in Nat
    /\ frames \in Seq([sector : Int, primary : Int, i : Nat \ {0}])
    /\ partitions \in Seq([nr : Nat, type : { pt.entries[i].type : i \in DOMAIN pt.entries },
                          start : Int, size : Int])

\* Without extended partitions there is one call, and it has registered what
\* it has passed.
PrimariesSoFar ==
    NoExtended =>
        /\ Len(frames) <= 1
        /\ frames # <<>> =>
             /\ frames[1].sector = 0 /\ frames[1].i <= Len(pt.entries) + 1
             /\ part_nr = Cardinality(nonempty(frames[1].i - 1))
             /\ Registered(frames[1].i - 1)

PartInv == PartTypeOK /\ PartitionsFit /\ PrimariesSoFar /\ PrimariesRight
FrameType == [sector : Int, primary : Int, i : Nat \ {0}]

\* The types, one by one.
LEMMA PartTypes ==
    ASSUME PartTypeOK
    PROVE  /\ pt \in Tables /\ part_nr \in Nat /\ frames \in Seq(FrameType)
           /\ Len(pt.entries) \in Nat /\ DOMAIN pt.entries = 1..Len(pt.entries)
           /\ Sectors \in Nat /\ BlockSize \in 1..Sectors - 1
           /\ \A i \in DOMAIN pt.entries : /\ pt.entries[i].offset \in 0..Sectors - 1
                                           /\ pt.entries[i].size \in 0..Sectors - 1
<1> DEFINE E == { pt.entries[i] : i \in DOMAIN pt.entries }
<1>1. pt \in Tables /\ part_nr \in Nat /\ frames \in Seq(FrameType)
  BY DEF PartTypeOK, FrameType
<1>2. /\ pt.entries \in Seq(E)
      /\ \A e \in E : e.offset \in 0..Sectors - 1 /\ e.size \in 0..Sectors - 1
  BY <1>1, PartitionAssumption
<1>3. \A i \in DOMAIN pt.entries : pt.entries[i] \in E
  OBVIOUS
<1> HIDE DEF E
<1>4. Len(pt.entries) \in Nat /\ DOMAIN pt.entries = 1..Len(pt.entries)
  BY <1>2
<1>5. QED BY <1>1, <1>2, <1>3, <1>4, PartitionAssumption

\* The call that runs is the last frame.
LEMMA TopIs ==
    ASSUME frames \in Seq(FrameType), frames # <<>>
    PROVE  /\ top \in FrameType /\ Len(frames) \in Nat \ {0}
           /\ others \in Seq(FrameType) /\ Len(others) = Len(frames) - 1
           /\ advanced_top \in Seq(FrameType) /\ Len(advanced_top) = Len(frames)
           /\ Len(frames) <= 1 => /\ top = frames[1] /\ others = <<>>
                                  /\ advanced_top[1].i = frames[1].i + 1
                                  /\ advanced_top[1].sector = frames[1].sector
<1> DEFINE a == [top EXCEPT !.i = @ + 1]
<1>1. Len(frames) \in Nat \ {0}
  OBVIOUS
<1>2. top \in FrameType
  BY <1>1 DEF top
<1>3. a \in FrameType /\ a.i = top.i + 1 /\ a.sector = top.sector
  <2> DEFINE f == top
  <2>1. f = [sector |-> f.sector, primary |-> f.primary, i |-> f.i] /\ f.i \in Nat \ {0}
        /\ f.sector \in Int /\ f.primary \in Int
    BY <1>2 DEF FrameType
  <2> HIDE DEF f
  <2>2. [f EXCEPT !.i = @ + 1] = [sector |-> f.sector, primary |-> f.primary, i |-> f.i + 1]
    BY <2>1
  <2>3. QED BY <2>1, <2>2 DEF FrameType, f
<1>4. others \in Seq(FrameType) /\ Len(others) = Len(frames) - 1
  <2> DEFINE m == Len(frames) - 1
  <2>1. m \in Nat /\ \A i \in 1..m : frames[i] \in FrameType
    BY <1>1
  <2> HIDE DEF m
  <2>2. /\ SubSeq(frames, 1, m) \in Seq(FrameType)
        /\ Len(SubSeq(frames, 1, m)) = IF 1 <= m THEN m - 1 + 1 ELSE 0
    BY <2>1, SubSeqProperties
  <2>3. others = SubSeq(frames, 1, m)
    BY DEF others, m
  <2>4. Len(others) = m /\ others \in Seq(FrameType)
    BY <2>1, <2>2, <2>3
  <2>5. QED BY <2>4 DEF m
<1>5. advanced_top = Append(others, a)
  BY DEF advanced_top
<1> HIDE DEF a
<1>6. advanced_top \in Seq(FrameType) /\ Len(advanced_top) = Len(frames)
  BY <1>1, <1>3, <1>4, <1>5
<1>7. ASSUME Len(frames) <= 1
      PROVE  /\ top = frames[1] /\ others = <<>>
             /\ advanced_top[1].i = frames[1].i + 1
             /\ advanced_top[1].sector = frames[1].sector
  <2>1. Len(frames) = 1 /\ top = frames[1] /\ others = <<>>
    BY <1>1, <1>4, <1>7 DEF top
  <2>2. advanced_top[1] = a
    BY <1>5, <2>1
  <2>3. QED BY <1>3, <2>1, <2>2
<1>8. QED BY <1>1, <1>2, <1>4, <1>6, <1>7

\* The entries passed that are not empty, and how many they are.
LEMMA NonemptyIs ==
    ASSUME NEW n \in Nat
    PROVE  /\ IsFiniteSet(nonempty(n)) /\ Cardinality(nonempty(n)) \in Nat
           /\ n + 1 \notin nonempty(n)
           /\ nonempty(n + 1) = IF isEmpty(pt.entries[n + 1]) THEN nonempty(n)
                                ELSE nonempty(n) \cup {n + 1}
           /\ \A k \in nonempty(n) :
                k \in 1..n /\ Cardinality(nonempty(k)) <= Cardinality(nonempty(n))
<1>1. \A m \in Nat : nonempty(m) \subseteq 1..m
  BY DEF nonempty
<1>2. \A m \in Nat : IsFiniteSet(nonempty(m)) /\ Cardinality(nonempty(m)) \in Nat
  <2> SUFFICES ASSUME NEW m \in Nat
               PROVE  IsFiniteSet(nonempty(m)) /\ Cardinality(nonempty(m)) \in Nat
    OBVIOUS
  <2>1. IsFiniteSet(1..m)
    BY FS_Interval
  <2>2. IsFiniteSet(nonempty(m))
    BY <1>1, <2>1, FS_Subset
  <2>3. QED BY <2>2, FS_CardinalityType
<1>3. nonempty(n + 1) = IF isEmpty(pt.entries[n + 1]) THEN nonempty(n)
                        ELSE nonempty(n) \cup {n + 1}
  <2>1. 1..n + 1 = (1..n) \cup {n + 1}
    OBVIOUS
  <2>2. QED BY <2>1 DEF nonempty
<1>4. \A k \in nonempty(n) : k \in 1..n /\ Cardinality(nonempty(k)) <= Cardinality(nonempty(n))
  <2> SUFFICES ASSUME NEW k \in nonempty(n)
               PROVE  k \in 1..n /\ Cardinality(nonempty(k)) <= Cardinality(nonempty(n))
    OBVIOUS
  <2>1. k \in 1..n
    BY <1>1
  <2>2. nonempty(k) \subseteq nonempty(n)
    BY <2>1 DEF nonempty
  <2>3. QED BY <1>2, <2>1, <2>2, FS_Subset
<1>5. n + 1 \notin nonempty(n)
  BY <1>1
<1>6. QED BY <1>2, <1>3, <1>4, <1>5

\* An entry that is passed over registers nothing.
LEMMA PassedOver ==
    ASSUME NEW n \in Nat, Registered(n), n + 1 \notin fitting(n + 1)
    PROVE  Registered(n + 1)
<1>1. fitting(n + 1) = fitting(n)
  BY NonemptyIs, ZenonT(30) DEF fitting
<1>2. QED BY <1>1 DEF Registered

\* A new partition goes last, under the highest number.
LEMMA RegistersNext ==
    ASSUME NEW n \in Nat, Registered(n), n + 1 \in fitting(n + 1),
           NEW S, partitions \in Seq(S),
           partitions' = Append(partitions, primary(n + 1))
    PROVE  /\ { partitions'[i] : i \in DOMAIN partitions' } =
                { primary(k) : k \in fitting(n + 1) }
           /\ \A i, j \in DOMAIN partitions' : i < j => partitions'[i].nr < partitions'[j].nr
<1> DEFINE p == primary(n + 1)
<1>1. fitting(n + 1) = fitting(n) \cup {n + 1}
  BY NonemptyIs DEF fitting
<1>2. p.nr = Cardinality(nonempty(n)) + 1 /\ Cardinality(nonempty(n)) \in Nat
  <2>1. nonempty(n + 1) = nonempty(n) \cup {n + 1}
    BY NonemptyIs DEF fitting
  <2>2. Cardinality(nonempty(n + 1)) = Cardinality(nonempty(n)) + 1
    BY <2>1, NonemptyIs, FS_AddElement
  <2>3. QED BY <2>2, NonemptyIs DEF primary
<1>3. \A i \in DOMAIN partitions : /\ partitions[i].nr \in Nat
                                   /\ partitions[i].nr <= Cardinality(nonempty(n))
  <2> SUFFICES ASSUME NEW i \in DOMAIN partitions
               PROVE  /\ partitions[i].nr \in Nat
                      /\ partitions[i].nr <= Cardinality(nonempty(n))
    OBVIOUS
  <2>1. PICK k \in fitting(n) : partitions[i] = primary(k)
    BY DEF Registered
  <2>2. k \in nonempty(n) /\ partitions[i].nr = Cardinality(nonempty(k))
    BY <2>1 DEF fitting, primary
  <2>3. k \in 1..n /\ Cardinality(nonempty(k)) <= Cardinality(nonempty(n))
    BY <2>2, NonemptyIs
  <2>4. k \in Nat
    BY <2>3
  <2>5. Cardinality(nonempty(k)) \in Nat
    BY <2>4, NonemptyIs
  <2>6. QED BY <2>2, <2>3, <2>5
<1>4. /\ Len(partitions) \in Nat /\ DOMAIN partitions = 1..Len(partitions)
      /\ DOMAIN partitions' = 1..Len(partitions) + 1
      /\ partitions'[Len(partitions) + 1] = p
      /\ \A i \in DOMAIN partitions : partitions'[i] = partitions[i]
  OBVIOUS
<1> HIDE DEF p
<1>5. { partitions'[i] : i \in DOMAIN partitions' } =
        { partitions[i] : i \in DOMAIN partitions } \cup {p}
  BY <1>4
<1>6. { partitions'[i] : i \in DOMAIN partitions' } = { primary(k) : k \in fitting(n + 1) }
  BY <1>1, <1>5 DEF Registered, p
<1>7. ASSUME NEW i \in DOMAIN partitions', NEW j \in DOMAIN partitions', i < j
      PROVE  partitions'[i].nr < partitions'[j].nr
  <2>1. CASE j \in DOMAIN partitions
    <3>1. i \in DOMAIN partitions
      BY <1>4, <1>7, <2>1
    <3>2. QED BY <1>4, <1>7, <2>1, <3>1 DEF Registered
  <2>2. CASE j \notin DOMAIN partitions
    <3>1. j = Len(partitions) + 1 /\ i \in DOMAIN partitions
      BY <1>4, <1>7, <2>2
    <3>2. QED BY <1>2, <1>3, <1>4, <3>1
  <2>3. QED BY <2>1, <2>2
<1>8. QED BY <1>6, <1>7

\* What is registered after a step ...
LEMMA RegisteredAfter ==
    ASSUME pt' = pt, NEW n,
           { partitions'[i] : i \in DOMAIN partitions' } = { primary(k) : k \in fitting(n) },
           \A i, j \in DOMAIN partitions' : i < j => partitions'[i].nr < partitions'[j].nr
    PROVE  Registered(n)'
<1>1. \A m : nonempty(m)' = nonempty(m)
  BY DEF nonempty, isEmpty
<1>2. fitting(n)' = fitting(n)
  BY <1>1 DEF fitting
<1>3. \A k : primary(k)' = primary(k)
  BY <1>1 DEF primary
<1>4. { primary(k)' : k \in fitting(n)' } = { primary(k) : k \in fitting(n) }
  BY <1>2, <1>3
<1>5. QED BY <1>4 DEF Registered

\* ... and that it stays so.
LEMMA RegisteredStays ==
    ASSUME pt' = pt, partitions' = partitions, NEW n, Registered(n)
    PROVE  Registered(n)'
<1>1. /\ { partitions'[i] : i \in DOMAIN partitions' } = { primary(k) : k \in fitting(n) }
      /\ \A i, j \in DOMAIN partitions' : i < j => partitions'[i].nr < partitions'[j].nr
  BY DEF Registered
<1>2. QED BY <1>1, RegisteredAfter

\* What the invariant says after a step, in terms of before.
LEMMA SoFarAfter ==
    ASSUME pt' = pt, NEW n \in Nat, frames'[1].sector = 0, frames'[1].i = n + 1,
           Len(frames') <= 1, n + 1 <= Len(pt.entries) + 1, frames' # <<>>,
           part_nr' = Cardinality(nonempty(n)),
           { partitions'[i] : i \in DOMAIN partitions' } = { primary(k) : k \in fitting(n) },
           \A i, j \in DOMAIN partitions' : i < j => partitions'[i].nr < partitions'[j].nr
    PROVE  PrimariesSoFar' /\ PrimariesRight'
<1>1. frames'[1].i - 1 = n
  OBVIOUS
<1>2. \A m : m = n =>
        /\ part_nr' = Cardinality({ k \in 1..m : ~isEmpty(pt'.entries[k]) })
        /\ Registered(m)'
  <2>1. Registered(n)'
    BY RegisteredAfter
  <2>2. part_nr' = Cardinality({ k \in 1..n : ~isEmpty(pt'.entries[k]) })
    BY DEF nonempty
  <2>3. QED BY <2>1, <2>2
<1>3. PrimariesSoFar'
  BY <1>1, <1>2
     DEF PrimariesSoFar, NoExtended, Registered, primary, fitting, nonempty, isEmpty
<1>4. PrimariesRight'
  BY DEF PrimariesRight
<1>5. QED BY <1>3, <1>4

\* An entry that is empty is passed over.
LEMMA EmptyKeeps == ASSUME PartInv, empty_partition PROVE PartInv'
<1>1. /\ frames # <<>> /\ top.i <= Len(pt.entries) /\ isEmpty(entry)
      /\ frames' = advanced_top /\ pt' = pt /\ part_nr' = part_nr /\ partitions' = partitions
  BY DEF empty_partition, Reading
<1>2. PartTypeOK /\ PartitionsFit /\ PrimariesSoFar /\ frames \in Seq(FrameType)
  BY DEF PartInv, PartTypeOK, FrameType
<1>3. PartTypeOK' /\ PartitionsFit'
  <2>1. frames' \in Seq(FrameType)
    BY <1>1, <1>2, TopIs
  <2>2. PartTypeOK'
    BY <1>1, <1>2, <2>1 DEF PartTypeOK, FrameType
  <2>3. QED BY <1>1, <1>2, <2>2 DEF PartitionsFit
<1>4. CASE NoExtended
  <2> DEFINE n == frames[1].i
  <2>1. /\ top = frames[1] /\ frames'[1].i = n + 1 /\ frames'[1].sector = 0
        /\ Len(frames') <= 1 /\ frames' # <<>> /\ n \in Nat \ {0} /\ n <= Len(pt.entries)
        /\ part_nr = Cardinality(nonempty(n - 1)) /\ Registered(n - 1)
    BY <1>1, <1>2, <1>4, TopIs DEF PrimariesSoFar, FrameType
  <2> HIDE DEF n
  <2>2. n \notin nonempty(n)
    BY <1>1, <2>1 DEF nonempty, entry, n
  <2>3. PICK m \in Nat : n = m + 1
    BY <2>1
  <2>4. m = n - 1
    BY <2>3
  <2>5. nonempty(m + 1) = nonempty(m)
    BY <2>2, <2>3, NonemptyIs, ZenonT(30)
  <2>6. part_nr = Cardinality(nonempty(n)) /\ Registered(m)
    BY <2>1, <2>3, <2>4, <2>5
  <2>7. n \notin fitting(n)
    BY <2>2 DEF fitting
  <2>8. Registered(n)
    BY <2>3, <2>6, <2>7, PassedOver
  <2>9. Len(pt.entries) \in Nat
    BY <1>2, PartTypes
  <2>10. n + 1 <= Len(pt.entries) + 1
    BY <2>1, <2>9
  <2>11. PrimariesSoFar' /\ PrimariesRight'
    BY <1>1, <2>1, <2>6, <2>8, <2>10, SoFarAfter DEF Registered
  <2>12. QED BY <1>3, <2>11 DEF PartInv
<1>5. CASE ~NoExtended
  BY <1>1, <1>3, <1>5 DEF PartInv, PrimariesSoFar, PrimariesRight, NoExtended
<1>6. QED BY <1>4, <1>5

\* An extended partition: what is registered stays, and there is one.
LEMMA ExtendedKeeps == ASSUME PartInv, extended_partition PROVE PartInv'
<1> DEFINE sector == IF top.sector = 0 THEN entry.offset
                     ELSE (entry.offset + top.primary) % Sectors
           first == IF top.sector = 0 THEN entry.offset ELSE top.primary
<1>1. /\ frames # <<>> /\ top.i <= Len(pt.entries) /\ entry.type = "extended"
      /\ pt' = pt /\ part_nr' = part_nr /\ partitions' = partitions
      /\ \/ frames' = advanced_top
         \/ frames' = frames
         \/ frames' = Append(advanced_top, Frame(sector, first))
  BY DEF extended_partition, Reading
<1>2. PartTypeOK /\ PartitionsFit /\ frames \in Seq(FrameType)
  BY DEF PartInv, PartTypeOK, FrameType
<1>3. top \in FrameType /\ advanced_top \in Seq(FrameType)
  BY <1>1, <1>2, TopIs
<1>4. top.i \in DOMAIN pt.entries
  BY <1>1, <1>2, <1>3, PartTypes, SMTT(30) DEF FrameType
<1>5. Frame(sector, first) \in FrameType
  <2>1. entry.offset \in Int /\ Sectors \in Nat \ {0} /\ top.primary \in Int
    BY <1>2, <1>3, <1>4, PartTypes DEF entry, FrameType
  <2>2. sector \in Int /\ first \in Int
    BY <2>1
  <2> HIDE DEF sector, first
  <2>3. QED BY <2>2 DEF Frame, FrameType
<1> HIDE DEF sector, first
<1>6. frames' \in Seq(FrameType)
  BY <1>1, <1>2, <1>3, <1>5
<1>7. PartTypeOK'
  BY <1>1, <1>2, <1>6 DEF PartTypeOK, FrameType
<1>8. ~NoExtended /\ ~NoExtended'
  BY <1>1, <1>4 DEF NoExtended, entry
<1>9. QED BY <1>1, <1>2, <1>7, <1>8 DEF PartInv, PartitionsFit, PrimariesSoFar,
   PrimariesRight

\* A partition is numbered, and registered if it fits.
LEMMA FoundKeeps == ASSUME PartInv, found_partition PROVE PartInv'
<1> DEFINE start == (entry.offset + top.sector) % Sectors
           p == [nr |-> part_nr + 1, type |-> entry.type, start |-> start, size |-> entry.size]
<1>1. /\ frames # <<>> /\ top.i <= Len(pt.entries) /\ ~isEmpty(entry)
      /\ frames' = advanced_top /\ pt' = pt /\ part_nr' = part_nr + 1
      /\ partitions' = IF ~fits(start, entry.size) THEN partitions ELSE Append(partitions, p)
  BY DEF found_partition, Reading, numbered
<1>2. PartTypeOK /\ PartitionsFit /\ PrimariesSoFar /\ frames \in Seq(FrameType)
  BY DEF PartInv, PartTypeOK, FrameType
<1>3. top \in FrameType /\ advanced_top \in Seq(FrameType)
  BY <1>1, <1>2, TopIs
<1>4. top.i \in DOMAIN pt.entries
  BY <1>1, <1>2, <1>3, PartTypes, SMTT(30) DEF FrameType
<1>5. /\ entry.offset \in 0..Sectors - 1 /\ entry.size \in 1..Sectors - 1
      /\ Sectors \in Nat /\ BlockSize \in 1..Sectors - 1 /\ top.sector \in Int
      /\ start \in 0..Sectors - 1 /\ part_nr \in Nat
  <2>1. entry.offset \in 0..Sectors - 1 /\ entry.size \in 0..Sectors - 1 /\ entry.size # 0
    BY <1>1, <1>2, <1>4, PartTypes DEF entry, isEmpty
  <2>2. Sectors \in Nat \ {0} /\ BlockSize \in 1..Sectors - 1 /\ top.sector \in Int
    BY <1>2, <1>3, PartTypes DEF FrameType
  <2>3. QED BY <1>2, <2>1, <2>2, PartTypes
<1> DEFINE types == { pt.entries[i].type : i \in DOMAIN pt.entries }
           Part == [nr : Nat, type : types, start : Int, size : Int]
<1>6. partitions \in Seq(Part) /\ p \in Part
  <2>1. entry.type \in types
    BY <1>4 DEF entry
  <2> HIDE DEF start, types
  <2>2. QED BY <1>2, <1>5, <2>1 DEF PartTypeOK, types
<1>7. fits(start, entry.size) <=> start + entry.size <= BlockSize
  <2> DEFINE s == start
             z == entry.size
  <2> HIDE DEF s, z
  <2>1. s \in 0..Sectors - 1 /\ z \in 1..Sectors - 1
    BY <1>5 DEF s, z
  <2>2. (s + z) % Sectors = IF s + z < Sectors THEN s + z ELSE s + z - Sectors
    BY <1>5, <2>1
  <2>3. fits(s, z) <=> s + z <= BlockSize
    BY <1>5, <2>1, <2>2 DEF fits
  <2>4. QED BY <2>3 DEF s, z
<1> HIDE DEF start
<1>8. /\ p.nr = part_nr + 1 /\ p.type = entry.type /\ p.start = start
      /\ p.size = entry.size
  OBVIOUS
<1> HIDE DEF p, Part
<1>9. partitions' \in Seq(Part)
  BY <1>1, <1>6
<1>10. PartTypeOK'
  <2>1. frames' \in Seq(FrameType)
    BY <1>1, <1>3
  <2>2. QED BY <1>1, <1>2, <1>5, <1>9, <2>1 DEF PartTypeOK, FrameType, Part, types
<1>11. PartitionsFit'
  <2>1. CASE fits(start, entry.size)
    <3>1. \A i \in DOMAIN partitions' :
             \/ i \in DOMAIN partitions /\ partitions'[i] = partitions[i]
             \/ partitions'[i] = p
      BY <1>1, <1>6, <2>1
    <3>2. p.size > 0 /\ p.start + p.size <= BlockSize
      BY <1>5, <1>7, <1>8, <2>1
    <3>3. QED BY <1>2, <3>1, <3>2 DEF PartitionsFit
  <2>2. CASE ~fits(start, entry.size)
    BY <1>1, <1>2, <2>2 DEF PartitionsFit
  <2>3. QED BY <2>1, <2>2
<1>12. CASE NoExtended
  <2> DEFINE n == frames[1].i
  <2>1. /\ top = frames[1] /\ frames'[1].i = n + 1 /\ frames'[1].sector = 0
        /\ Len(frames') <= 1 /\ frames' # <<>> /\ n \in Nat \ {0} /\ n <= Len(pt.entries)
        /\ part_nr = Cardinality(nonempty(n - 1)) /\ Registered(n - 1)
        /\ frames[1].sector = 0
    BY <1>1, <1>2, <1>12, TopIs DEF PrimariesSoFar, FrameType
  <2> HIDE DEF n
  <2>2. entry = pt.entries[n] /\ n \in nonempty(n)
    BY <1>1, <2>1 DEF nonempty, entry, n
  <2>3. Cardinality(nonempty(n)) = part_nr + 1
    <3>1. PICK m \in Nat : n = m + 1
      BY <2>1
    <3>2. nonempty(m + 1) = nonempty(m) \cup {n} /\ n \notin nonempty(m)
      BY <2>2, <3>1, NonemptyIs
    <3>3. IsFiniteSet(nonempty(m))
      BY NonemptyIs
    <3>4. m = n - 1
      BY <3>1
    <3>5. part_nr = Cardinality(nonempty(m))
      BY <2>1, <3>4
    <3>6. Cardinality(nonempty(m) \cup {n}) = part_nr + 1
      BY <3>2, <3>3, <3>5, FS_AddElement
    <3>7. QED BY <3>1, <3>2, <3>6
  <2>4. start = entry.offset
    <3> DEFINE o == entry.offset
    <3>1. start = (o + 0) % Sectors
      BY <2>1 DEF start
    <3>2. o \in 0..Sectors - 1 /\ Sectors \in Nat
      BY <1>5
    <3> HIDE DEF o
    <3>3. (o + 0) % Sectors = o
      BY <3>2
    <3>4. QED BY <3>1, <3>3 DEF o
  <2>5. fits(start, entry.size) <=> n \in fitting(n)
    BY <1>7, <2>2, <2>4 DEF fitting
  <2>6. primary(n) = p
    BY <2>2, <2>3, <2>4 DEF primary, p
  <2>7. /\ { partitions'[i] : i \in DOMAIN partitions' } = { primary(k) : k \in fitting(n) }
        /\ \A i, j \in DOMAIN partitions' : i < j => partitions'[i].nr < partitions'[j].nr
    <3>1. CASE n \in fitting(n)
      <4>1. partitions' = Append(partitions, primary(n))
        BY <1>1, <2>5, <2>6, <3>1
      <4>2. n - 1 + 1 = n /\ n - 1 \in Nat
        BY <2>1
      <4>3. QED BY <1>6, <2>1, <3>1, <4>1, <4>2, RegistersNext
    <3>2. CASE n \notin fitting(n)
      <4>1. n - 1 + 1 = n /\ n - 1 \in Nat
        BY <2>1
      <4>2. Registered(n)
        BY <2>1, <3>2, <4>1, PassedOver
      <4>3. QED BY <1>1, <2>5, <3>2, <4>2 DEF Registered
    <3>3. QED BY <3>1, <3>2
  <2>8. Len(pt.entries) \in Nat
    BY <1>2, PartTypes
  <2>9. n + 1 <= Len(pt.entries) + 1 /\ n \in Nat
    BY <2>1, <2>8
  <2>10. PrimariesSoFar' /\ PrimariesRight'
    BY <1>1, <2>1, <2>3, <2>7, <2>9, SoFarAfter
  <2>11. QED BY <1>10, <1>11, <2>10 DEF PartInv
<1>13. CASE ~NoExtended
  BY <1>1, <1>10, <1>11, <1>13 DEF PartInv, PrimariesSoFar, PrimariesRight, NoExtended
<1>14. QED BY <1>12, <1>13

\* A call that has seen all entries returns.
LEMMA ReturnsKeep == ASSUME PartInv, returns PROVE PartInv'
<1>1. /\ frames # <<>> /\ top.i > Len(pt.entries) /\ frames' = others
      /\ pt' = pt /\ part_nr' = part_nr /\ partitions' = partitions
  BY DEF returns
<1>2. PartTypeOK /\ PartitionsFit /\ PrimariesSoFar /\ frames \in Seq(FrameType)
  BY DEF PartInv, PartTypeOK, FrameType
<1>3. frames' \in Seq(FrameType) /\ Len(frames') = Len(frames) - 1
  BY <1>1, <1>2, TopIs
<1>4. PartTypeOK' /\ PartitionsFit'
  BY <1>1, <1>2, <1>3 DEF PartTypeOK, FrameType, PartitionsFit
<1>5. PrimariesSoFar'
  <2>1. NoExtended => frames' = <<>>
    BY <1>1, <1>2, TopIs DEF PrimariesSoFar
  <2>2. NoExtended' <=> NoExtended
    BY <1>1 DEF NoExtended
  <2>3. QED BY <2>1, <2>2 DEF PrimariesSoFar
<1>6. PrimariesRight'
  <2>1. ASSUME NoExtended PROVE Registered(Len(pt.entries))
    <3>1. Len(frames) <= 1 /\ top = frames[1] /\ top.i \in Nat
      BY <1>1, <1>2, <2>1, TopIs DEF PrimariesSoFar, FrameType
    <3>2. frames[1].i <= Len(pt.entries) + 1 /\ Registered(frames[1].i - 1)
      BY <1>1, <1>2, <2>1 DEF PrimariesSoFar
    <3>3. Len(pt.entries) \in Nat
      BY <1>2, PartTypes
    <3>4. frames[1].i - 1 = Len(pt.entries)
      BY <1>1, <3>1, <3>2, <3>3
    <3>5. QED BY <3>2, <3>4
  <2>2. ASSUME NoExtended, NEW m, m = Len(pt.entries) PROVE Registered(m)'
    BY <1>1, <2>1, <2>2, RegisteredStays
  <2>3. NoExtended' => NoExtended
    BY <1>1 DEF NoExtended
  <2>4. QED
    BY <1>1, <2>2, <2>3
       DEF PrimariesRight, Registered, primary, fitting, nonempty, isEmpty
<1>7. QED BY <1>4, <1>5, <1>6 DEF PartInv

\* Initially nothing is registered.
LEMMA InitPart == PartInit => PartInv
<1> SUFFICES ASSUME PartInit PROVE PartInv
  OBVIOUS
<1>1. /\ pt \in Tables /\ part_nr = 0 /\ partitions = <<>>
      /\ frames = <<>> \/ frames = <<Frame(0, 0)>>
      /\ pt.signed => frames = <<Frame(0, 0)>>
  BY PartitionAssumption DEF PartInit, returns_at_once
<1>2. Frame(0, 0) \in FrameType /\ Frame(0, 0).i = 1 /\ Frame(0, 0).sector = 0
  BY DEF Frame, FrameType
<1>3. PartTypeOK
  <2>1. frames \in Seq(FrameType)
    <3> DEFINE f == Frame(0, 0)
    <3>1. f \in FrameType /\ (frames = <<>> \/ frames = <<f>>)
      BY <1>1, <1>2
    <3>2. \A S : <<>> \in Seq(S) /\ \A x \in S : <<x>> \in Seq(S)
      OBVIOUS
    <3> HIDE DEF f
    <3>3. <<f>> \in Seq(FrameType)
      BY <3>1, <3>2
    <3>4. QED BY <3>1, <3>2, <3>3
  <2>2. \A S : <<>> \in Seq(S)
    OBVIOUS
  <2>3. QED BY <1>1, <2>1, <2>2 DEF PartTypeOK, FrameType
<1>4. PartitionsFit
  BY <1>1 DEF PartitionsFit
<1>5. nonempty(0) = {} /\ Cardinality(nonempty(0)) = 0 /\ fitting(0) = {}
  BY FS_EmptySet DEF nonempty, fitting
<1>6. Registered(0)
  BY <1>1, <1>5 DEF Registered
<1>7. PrimariesSoFar
  <2>1. CASE frames = <<>>
    BY <2>1 DEF PrimariesSoFar
  <2>2. CASE frames = <<Frame(0, 0)>>
    <3>1. Len(frames) = 1 /\ frames[1].sector = 0 /\ frames[1].i = 1
      BY <1>2, <2>2
    <3>2. frames[1].i - 1 = 0
      BY <3>1
    <3>3. QED BY <1>1, <1>3, <1>5, <1>6, <3>1, <3>2, PartTypes DEF PrimariesSoFar
  <2>3. QED BY <1>1, <2>1, <2>2
<1>8. PrimariesRight
  BY <1>1 DEF PrimariesRight
<1>9. QED BY <1>3, <1>4, <1>7, <1>8 DEF PartInv

\* Every step of the scan keeps the invariant.
LEMMA NextPart == PartInv /\ [PartNext]_partVars => PartInv'
<1> SUFFICES ASSUME PartInv, [PartNext]_partVars PROVE PartInv'
  OBVIOUS
<1>1. CASE PartNext
  BY <1>1, EmptyKeeps, ExtendedKeeps, FoundKeeps, ReturnsKeep DEF PartNext
<1>2. CASE UNCHANGED partVars
  <2>1. pt' = pt /\ frames' = frames /\ part_nr' = part_nr /\ partitions' = partitions
    BY <1>2 DEF partVars
  <2>2. PartTypeOK' /\ PartitionsFit'
    BY <2>1 DEF PartInv, PartTypeOK, PartitionsFit
  <2>3. NoExtended' => NoExtended
    BY <2>1 DEF NoExtended
  <2>4. ASSUME NEW m, Registered(m) PROVE Registered(m)'
    BY <2>1, <2>4, RegisteredStays
  <2>5. \A m : Cardinality(nonempty(m))' = Cardinality(nonempty(m))
    BY <2>1 DEF nonempty, isEmpty
  <2>6. PrimariesSoFar' /\ PrimariesRight'
    BY <2>1, <2>3, <2>4, <2>5
       DEF PartInv, PrimariesSoFar, PrimariesRight, Registered, primary, fitting, nonempty,
           isEmpty
  <2>7. QED BY <2>2, <2>6 DEF PartInv
<1>3. QED BY <1>1, <1>2

\* Every partition that the scan registers lies on the device in numbers that
\* do not wrap, and without extended partitions each entry that fits has its
\* number, for any table and any size of the device (partition.c:132-186).
THEOREM PartitionsStaySafe == PartSpec => []PartitionsSafe
<1>1. PartInv => PartitionsSafe
  BY DEF PartInv, PartitionsSafe
<1>2. QED BY <1>1, InitPart, NextPart, PTL DEF PartSpec
=============================================================================
