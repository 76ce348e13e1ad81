------------------------------- MODULE Process -------------------------------
(***************************************************************************)
(* Processes: exec, wait and exit (userprog/syscall.c, userprog/process.c) *)
(* and the record, struct process, through which a parent learns what      *)
(* became of a child.  The record is malloc'ed on the parent's child_list  *)
(* when the child is created; the child writes it, the parent reads and    *)
(* frees it.  All of this runs with interrupts on, and every process has   *)
(* PRI_DEFAULT, so the round-robin scheduler may switch between any two of *)
(* the steps below; waiting is a busy loop.                                *)
(***************************************************************************)
EXTENDS Integers, FiniteSets

CONSTANTS
    MaxTid,     \* bound: as many threads are created in one run
    ExitCodes,  \* the arguments of exit that processes use
    Garbage     \* the bytes that malloc may leave in a new record

ASSUME MaxTidAssumption == MaxTid \in Nat \ {0}
ASSUME GarbageAssumption == Garbage \subseteq 0..255
ASSUME ExitCodesAssumption == ExitCodes \subseteq Int /\ -1 \in ExitCodes

Tids == 1..MaxTid     \* allocate_tid counts up, and never uses a tid again
Main == 1             \* the thread of main(), which runs the first program
NO_PARENT == -1
ERROR == -1           \* what exec and wait return to a process on failure
NONE == "none"

VARIABLES
    next_tid,    \* allocate_tid's counter
    all_list,    \* the tids on the list of all threads
    parent,      \* t->parent
    child_list,  \* the pids of the records on t->child_list
    record,      \* record[c]: the struct process of c; t->cp points to it
    memory,      \* of record[c]: "none" until malloc'ed, "allocated", "freed"
    pc,          \* where in its calls a thread is, see PCs
    arg,         \* the child that the exec or wait in progress is about
    result,      \* what a thread's last exec or wait returned: [of, value]
    panicked,    \* an ASSERT of the kernel failed
    said,        \* what a thread passed to exit, {} before that
    answers,     \* history: how many waits returned the status of a child
    misuses      \* history: the records written after they were freed

vars == <<next_tid, all_list, parent, child_list, record, memory, pc, arg, result,
          panicked, said, answers, misuses>>
histVars == <<said, answers>>

Loads == {"LOADED_DEFAULT", "SUCCESSFULLY_LOAD", "LOADING_FAILED"}
Records == [load: Loads, wait: BOOLEAN, exit: BOOLEAN, status: 0..255]
PCs == {NONE, "task", "start", "user", "exec", "wait", "check_parent", "set_status",
        "free_children", "check_again", "set_exit", "leave", "dead"}

(* uint8_t status: what is left of an int.                                 *)
Byte(n) == n % 256

Init ==
    /\ next_tid = 2
    /\ all_list = {Main}
    /\ parent = [t \in Tids |-> NO_PARENT]
    /\ child_list = [t \in Tids |-> {}]
    /\ record = [t \in Tids |-> [load |-> "LOADED_DEFAULT", wait |-> FALSE, exit |-> FALSE,
                                 status |-> 0]]
    /\ memory = [t \in Tids |-> NONE]
    /\ pc = [t \in Tids |-> IF t = Main THEN "task" ELSE NONE]
    /\ arg = [t \in Tids |-> NO_PARENT]
    /\ result = [t \in Tids |-> [of |-> NO_PARENT, value |-> 0]]
    /\ panicked = FALSE
    /\ said = [t \in Tids |-> {}]
    /\ answers = [t \in Tids |-> 0]
    /\ misuses = {}

is_alive(tid) == tid \in all_list

Goes(t, p) == pc' = [pc EXCEPT ![t] = p]

(* t writes through t->cp, wherever that memory is by now.                 *)
writesRecord(t, rec) ==
    /\ record' = [record EXCEPT ![t] = rec]
    /\ misuses' = IF memory[t] = "freed" THEN misuses \cup {t} ELSE misuses
-----------------------------------------------------------------------------
(* thread_create and add_process_current_thread: the child and its record. *)
(* The status of the record is what malloc finds in the block.             *)
creates(t, c) ==
    /\ c = next_tid /\ c \in Tids
    /\ next_tid' = next_tid + 1
    /\ all_list' = all_list \cup {c}
    /\ parent' = [parent EXCEPT ![c] = t]
    /\ child_list' = [child_list EXCEPT ![t] = @ \cup {c}]
    /\ \E junk \in Garbage :
         record' = [record EXCEPT ![c] = [load |-> "LOADED_DEFAULT", wait |-> FALSE,
                                          exit |-> FALSE, status |-> junk]]
    /\ memory' = [memory EXCEPT ![c] = "allocated"]

(* exec: process_execute, then child_process_check finds the new record.   *)
exec(t, c) ==
    /\ pc[t] = "user"
    /\ creates(t, c)
    /\ pc' = [pc EXCEPT ![t] = "exec", ![c] = "start"]
    /\ arg' = [arg EXCEPT ![t] = c]
    /\ UNCHANGED <<result, panicked, misuses, histVars>>

(* There is no page for the name or for the thread: thread_create returns  *)
(* TID_ERROR, child_process_check finds no record of it, ASSERT(cp) fails. *)
exec_out_of_memory(t) ==
    /\ pc[t] = "user"
    /\ panicked' = TRUE
    /\ UNCHANGED <<next_tid, all_list, parent, child_list, record, memory, pc, arg, result,
                   misuses, histVars>>

(* A slip of the next definition: no loop that waits for the load.         *)
exec_returns_at_once(t) ==
    /\ pc[t] = "exec"
    /\ result' = [result EXCEPT ![t] = [of |-> arg[t],
                    value |-> IF record[arg[t]].load = "LOADING_FAILED" THEN ERROR ELSE arg[t]]]
    /\ Goes(t, "user")
    /\ UNCHANGED <<next_tid, all_list, parent, child_list, record, memory, arg,
                   panicked, misuses, histVars>>

(* The end of the loop in exec.                                            *)
exec_returns(t) ==
    /\ pc[t] = "exec"
    /\ record[arg[t]].load # "LOADED_DEFAULT"
    /\ result' = [result EXCEPT ![t] = [of |-> arg[t],
                    value |-> IF record[arg[t]].load = "LOADING_FAILED" THEN ERROR ELSE arg[t]]]
    /\ Goes(t, "user")
    /\ UNCHANGED <<next_tid, all_list, parent, child_list, record, memory, arg,
                   panicked, misuses, histVars>>

(* start_process: the load succeeds or fails, and the parent is told; a    *)
(* thread whose load failed exits without a status.                        *)
start_process(t) ==
    /\ pc[t] = "start"
    /\ \E load \in Loads \ {"LOADED_DEFAULT"} :
         /\ writesRecord(t, [record[t] EXCEPT !.load = load])
         /\ Goes(t, IF load = "SUCCESSFULLY_LOAD" THEN "user" ELSE "free_children")
    /\ UNCHANGED <<next_tid, all_list, parent, child_list, memory, arg, result, panicked, histVars>>

(* run_task: main() executes the program of the command line and waits for *)
(* it, whether or not it loads.                                            *)
run_task(c) ==
    /\ pc[Main] = "task"
    /\ creates(Main, c)
    /\ pc' = [pc EXCEPT ![Main] = "wait", ![c] = "start"]
    /\ arg' = [arg EXCEPT ![Main] = c]
    /\ UNCHANGED <<result, panicked, misuses, histVars>>
-----------------------------------------------------------------------------
(* process_wait: no record of c on the child list, or c waited for before. *)
wait_refused(t, c) ==
    /\ pc[t] = "user"
    /\ c \notin child_list[t] \/ record[c].wait
    /\ result' = [result EXCEPT ![t] = [of |-> NO_PARENT, value |-> ERROR]]
    /\ UNCHANGED <<next_tid, all_list, parent, child_list, record, memory, pc, arg,
                   panicked, misuses, histVars>>

wait(t, c) ==
    /\ pc[t] = "user"
    /\ c \in child_list[t] /\ ~record[c].wait
    /\ record' = [record EXCEPT ![c].wait = TRUE]
    /\ arg' = [arg EXCEPT ![t] = c]
    /\ Goes(t, "wait")
    /\ UNCHANGED <<next_tid, all_list, parent, child_list, memory, result, panicked,
                   misuses, histVars>>

returnsStatus(t, freed) ==
    LET c == arg[t]
    IN  /\ pc[t] = "wait"
        /\ record[c].exit
        /\ result' = [result EXCEPT ![t] = [of |-> c, value |-> record[c].status]]
        /\ child_list' = [child_list EXCEPT ![t] = @ \ freed]
        /\ memory' = [m \in Tids |-> IF m \in freed THEN "freed" ELSE memory[m]]
        /\ answers' = [answers EXCEPT ![c] = @ + 1]
        /\ Goes(t, IF t = Main THEN "free_children" ELSE "user")
        /\ UNCHANGED <<next_tid, all_list, parent, record, arg, panicked, misuses, said>>

(* The end of process_wait's loop: the status is the answer, the record is *)
(* freed.  main() goes on to thread_exit.                                  *)
wait_returns(t) == returnsStatus(t, {arg[t]})
-----------------------------------------------------------------------------
(* exit, called by the process or by kill for an exception: is the parent  *)
(* alive ...                                                               *)
exit(t, code) ==
    /\ pc[t] = "user"
    /\ said' = [said EXCEPT ![t] = {code}]
    /\ Goes(t, "check_parent")
    /\ UNCHANGED <<next_tid, all_list, parent, child_list, record, memory, arg, result,
                   panicked, answers, misuses>>

exit_checks_parent(t) ==
    /\ pc[t] = "check_parent"
    /\ Goes(t, IF is_alive(parent[t]) THEN "set_status" ELSE "free_children")
    /\ UNCHANGED <<next_tid, all_list, parent, child_list, record, memory, arg, result,
                   panicked, histVars, misuses>>

(* A slip of the next definition: the parent let go before the status is   *)
(* there.                                                                  *)
exit_sets_exit_first(t) ==
    /\ pc[t] = "set_status"
    /\ writesRecord(t, [record[t] EXCEPT !.exit = TRUE])
    /\ Goes(t, "free_children")
    /\ UNCHANGED <<next_tid, all_list, parent, child_list, memory, arg, result,
                   panicked, histVars>>

(* ... then leave it the status ...                                        *)
exit_sets_status(t) ==
    /\ pc[t] = "set_status"
    /\ \E code \in said[t] : writesRecord(t, [record[t] EXCEPT !.status = Byte(code)])
    /\ Goes(t, "free_children")
    /\ UNCHANGED <<next_tid, all_list, parent, child_list, memory, arg, result,
                   panicked, histVars>>

(* ... and thread_exit: process_exit frees the records of the children     *)
(* (remove_child_processes_all) ...                                        *)
remove_child_processes_all(t) ==
    /\ pc[t] = "free_children"
    /\ memory' = [c \in Tids |-> IF c \in child_list[t] THEN "freed" ELSE memory[c]]
    /\ child_list' = [child_list EXCEPT ![t] = {}]
    /\ Goes(t, "check_again")
    /\ UNCHANGED <<next_tid, all_list, parent, record, arg, result, panicked,
                   histVars, misuses>>

process_exit_checks_parent(t) ==
    /\ pc[t] = "check_again"
    /\ Goes(t, IF is_alive(parent[t]) THEN "set_exit" ELSE "leave")
    /\ UNCHANGED <<next_tid, all_list, parent, child_list, record, memory, arg, result,
                   panicked, histVars, misuses>>

(* A slip of the next definition: a process whose children are not waited  *)
(* for forgets to tell its parent.                                         *)
process_exit_silent(t) ==
    /\ pc[t] = "set_exit"
    /\ Goes(t, "leave")
    /\ UNCHANGED <<next_tid, all_list, parent, child_list, record, memory, arg, result,
                   panicked, histVars, misuses>>

(* A slip of the next definition: the child frees its record itself.       *)
process_exit_frees_record(t) ==
    /\ pc[t] = "set_exit"
    /\ writesRecord(t, [record[t] EXCEPT !.exit = TRUE])
    /\ memory' = [memory EXCEPT ![t] = "freed"]
    /\ Goes(t, "leave")
    /\ UNCHANGED <<next_tid, all_list, parent, child_list, arg, result, panicked, histVars>>

(* ... tells the parent ...                                                *)
process_exit_sets_exit(t) ==
    /\ pc[t] = "set_exit"
    /\ writesRecord(t, [record[t] EXCEPT !.exit = TRUE])
    /\ Goes(t, "leave")
    /\ UNCHANGED <<next_tid, all_list, parent, child_list, memory, arg, result, panicked, histVars>>

(* ... and the thread leaves the list of all threads, interrupts off.      *)
thread_exit(t) ==
    /\ pc[t] = "leave"
    /\ all_list' = all_list \ {t}
    /\ Goes(t, "dead")
    /\ UNCHANGED <<next_tid, parent, child_list, record, memory, arg, result, panicked,
                   histVars, misuses>>
-----------------------------------------------------------------------------
(* The steps of a thread inside a call, which it takes when it runs.       *)
Inside(t) ==
    \/ start_process(t)
    \/ exec_returns(t)
    \/ wait_returns(t)
    \/ exit_checks_parent(t)
    \/ exit_sets_status(t)
    \/ remove_child_processes_all(t)
    \/ process_exit_checks_parent(t)
    \/ process_exit_sets_exit(t)
    \/ thread_exit(t)

Next ==
    /\ ~panicked
    /\ \/ \E c \in Tids : run_task(c)
       \/ \E t \in Tids \ {Main} :
            \/ \E c \in Tids : exec(t, c) \/ wait(t, c) \/ wait_refused(t, c)
            \/ exec_out_of_memory(t)
            \/ \E code \in ExitCodes : exit(t, code)
       \/ \E t \in Tids : Inside(t)

Spec == Init /\ [][Next]_vars
-----------------------------------------------------------------------------
(* Properties.                                                             *)

(* The variables have their types; what a record holds of a status is a    *)
(* byte, what exec and wait return a pid, a byte or ERROR.                 *)
TypeOK ==
    /\ next_tid \in 2..(MaxTid + 1)
    /\ all_list \subseteq Tids
    /\ parent \in [Tids -> Tids \cup {NO_PARENT}]
    /\ child_list \in [Tids -> SUBSET Tids]
    /\ record \in [Tids -> Records]
    /\ memory \in [Tids -> {NONE, "allocated", "freed"}]
    /\ pc \in [Tids -> PCs]
    /\ arg \in [Tids -> Tids \cup {NO_PARENT}]
    /\ result \in [Tids -> [of: Tids \cup {NO_PARENT}, value: (ERROR..255) \cup Tids]]
    /\ panicked \in BOOLEAN
    /\ said \in [Tids -> SUBSET ExitCodes]
    /\ answers \in [Tids -> Nat]
    /\ misuses \subseteq Tids

(* A record is on the child list of the parent exactly as long as it is    *)
(* allocated: none is leaked, none is reachable after it is freed, and a   *)
(* thread that has died keeps none.                                        *)
RecordsOwned ==
    /\ \A c \in Tids : memory[c] = "allocated" <=> \E t \in Tids : c \in child_list[t]
    /\ \A t, c \in Tids : c \in child_list[t] => parent[c] = t
    /\ \A t \in Tids : pc[t] = "dead" => child_list[t] = {}

(* A parent looks only at records that are allocated.                      *)
ReadsAllocated ==
    \A t \in Tids : pc[t] \in {"exec", "wait"} => memory[arg[t]] = "allocated"

(* The safety of the records that parents and children share.              *)
RecordsSafe == TypeOK /\ RecordsOwned /\ ReadsAllocated

(* A child's status is handed out once, after the child told it, and it is *)
(* the low byte of what the child passed to exit (a child that did not     *)
(* load said nothing).                                                     *)
WaitTellsStatus ==
    /\ \A c \in Tids : answers[c] <= 1
    /\ \A t, c \in Tids :
         /\ pc[t] \in {"user", "free_children"}
         /\ result[t].of = c
         /\ c \in Tids /\ answers[c] = 1
         => \A code \in said[c] : result[t].value = Byte(code)

(* exec comes back with the child's pid only when the child has loaded.    *)
ExecTellsLoad ==
    [][\A t \in Tids : pc[t] = "exec" /\ pc'[t] = "user" =>
          (result'[t].value # ERROR <=> record[arg[t]].load = "SUCCESSFULLY_LOAD")]_vars

(* Nobody waits in vain: when a child has left its last call, whoever      *)
(* waits for it has been told.                                             *)
WaitersTold ==
    \A t \in Tids :
        pc[t] = "wait" /\ pc[arg[t]] \in {"leave", "dead"} => record[arg[t]].exit

(* thread.c:932 says (in Turkish) that is_alive lets a child at work check *)
(* whether the thread has died meanwhile: a child does not write a record  *)
(* that its dying parent has freed.                                        *)
NoWriteAfterFree == misuses = {}
=============================================================================
