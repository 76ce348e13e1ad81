------------------------------ MODULE MCDevices ------------------------------
(* The devices and the file system on small instances.  The parts have no    *)
(* state in common that the modules speak of, so a behaviour is one part's:  *)
(* the initial state chooses it, and the others stay as they started.        *)
EXTENDS Input, Ide, FileSys, Keyboard, Partitions

VARIABLE part

devices == <<inputVars, ideVars, fileVars, kbdVars, partVars, part>>

\* Every way to fill two entries: partitions and extended partitions that fit,
\* that do not, and whose numbers wrap; and a sector without the signature.
Unsigned == [signed |-> FALSE, entries |-> <<>>]
MCTables ==
  [signed : {TRUE},
   entries : [1..2 -> [type : {"extended", "data"}, offset : {0, 1, 2, 5, 6},
                       size : {0, 1, 3, 5, 7}]]] \cup {Unsigned}

DevicesInit ==
  /\ part \in {"input", "ide", "files", "keyboard", "partitions"}
  /\ InputInit /\ FileInit /\ KbdInit
  /\ IdeInit /\ (part # "ide" => is_ata = {})
  /\ PartInit /\ (part # "partitions" => pt = Unsigned)

InputPart == /\ part = "input" /\ InputNext
             /\ UNCHANGED <<ideVars, fileVars, kbdVars, partVars, part>>
IdePart == /\ part = "ide" /\ IdeNext
           /\ UNCHANGED <<inputVars, fileVars, kbdVars, partVars, part>>
FilePart == /\ part = "files" /\ FileNext
            /\ UNCHANGED <<inputVars, ideVars, kbdVars, partVars, part>>
KbdPart == /\ part = "keyboard" /\ KbdNext
           /\ UNCHANGED <<inputVars, ideVars, fileVars, partVars, part>>
PartitionPart == /\ part = "partitions" /\ PartNext
                 /\ UNCHANGED <<inputVars, ideVars, fileVars, kbdVars, part>>
DevicesNext == InputPart \/ IdePart \/ FilePart \/ KbdPart \/ PartitionPart

\* InputFairness and IdeFairness, each for its part.
DevicesFairness ==
  /\ WF_inputVars(part = "input" /\ serial_interrupt)
  /\ WF_inputVars(part = "input" /\ byte_sent)
  /\ \A t \in DiskThreads : WF_ideVars(part = "ide" /\ DriverStep(t))
  /\ WF_ideVars(part = "ide" /\ interrupt_handler)
  /\ WF_ideVars(part = "ide" /\ (disk_answers \/ disk_stores))

DevicesSpec == DevicesInit /\ [][DevicesNext]_devices /\ DevicesFairness
=============================================================================
